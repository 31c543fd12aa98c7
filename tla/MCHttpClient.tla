---------------------------- MODULE MCHttpClient ----------------------------
EXTENDS HttpClientInvariant, TLC
CONSTANT t1
=============================================================================

---------------------------- MODULE MCHttpServer ----------------------------
EXTENDS HttpServerInvariant, TLC
CONSTANTS l1, c1, c2, w1, w2
=============================================================================

-------------------------- MODULE MCLanguageServer --------------------------
EXTENDS LanguageServerInvariant, TLC
CONSTANTS u1, w1, w2
=============================================================================

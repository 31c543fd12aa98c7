-------------------------- MODULE MCNetworkEngine --------------------------
EXTENDS NetworkEngineInvariant, TLC
CONSTANTS c1, c2, l1, t1, t2, dispatcher, nobody
MCLimits == {1, -1}
=============================================================================

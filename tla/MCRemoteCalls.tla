---------------------------- MODULE MCRemoteCalls ----------------------------
(***************************************************************************)
(* Two threads call the end b through their service at a, and one of the   *)
(* methods they call calls back.                                           *)
(***************************************************************************)
EXTENDS RemoteCallsInvariant
CONSTANTS a, b, t1, t2
MCThreadEnd == [t \in Threads |-> a]
MCPrograms == {[x \in Actors |-> IF x = a THEN 0 ELSE 1]}
=============================================================================

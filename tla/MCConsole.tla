----------------------------- MODULE MCConsole -----------------------------
(***************************************************************************)
(* Instances of Console for TLC.                                           *)
(***************************************************************************)
EXTENDS ConsoleInvariant

NoKinds == {}
TwoKinds == {"caret", "dimensions"}

RawOnly == {"raw"}
ModeSettings == {"raw", "echo"}
DetachSettings == {"stay on detach"}
NoSettings == {}

Interchangeable == Permutations(Clients)
=============================================================================

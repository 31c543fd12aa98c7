---------------------------- MODULE RequestLedger ----------------------------
(***************************************************************************)
(* What a program may count on when it makes requests of its channels and  *)
(* listeners: requests of one object and one direction are carried out one *)
(* after another, in the order they were made; each ends once; one is      *)
(* cancelled only if its listener was closed or its object destroyed, and  *)
(* refused only if the engine has stopped.                                 *)
(***************************************************************************)
EXTENDS Integers, Sequences, SequencesExt

CONSTANTS Queues, Dirs, Requests

VARIABLES waiting,    \* [Queues -> [Dirs -> Seq(Requests)]]
          outcome,    \* [Requests -> "no" and the ways to end]
          closed,     \* listeners closed
          abandoned,  \* queues whose object is destroyed
          stopped     \* the engine has stopped

lvars == <<waiting, outcome, closed, abandoned, stopped>>

Init == /\ waiting = [q \in Queues |-> [d \in Dirs |-> <<>>]]
        /\ outcome = [r \in Requests |-> "no"]
        /\ closed = {} /\ abandoned = {} /\ stopped = FALSE

Fresh(r) == /\ outcome[r] = "no"
            /\ \A q \in Queues, d \in Dirs : r \notin ToSet(waiting[q][d])
Ends(r, how) == outcome' = [outcome EXCEPT ![r] = how]

Submit(q, d, r) ==
    /\ Fresh(r) /\ q \notin abandoned /\ ~stopped
    /\ waiting' = [waiting EXCEPT ![q][d] = Append(@, r)]
    /\ UNCHANGED <<outcome, closed, abandoned, stopped>>

Complete(q, d, how) ==
    /\ waiting[q][d] # <<>>
    /\ how = "cancelled" => q \in closed \cup abandoned
    /\ Ends(Head(waiting[q][d]), how)
    /\ waiting' = [waiting EXCEPT ![q][d] = Tail(@)]
    /\ UNCHANGED <<closed, abandoned, stopped>>

AtOnce(r, how) ==
    /\ Fresh(r)
    /\ how = "refused" => stopped
    /\ Ends(r, how)
    /\ UNCHANGED <<waiting, closed, abandoned, stopped>>

Close(q) == /\ closed' = closed \cup {q}
            /\ UNCHANGED <<waiting, outcome, abandoned, stopped>>
Abandon(q) == /\ abandoned' = abandoned \cup {q}
              /\ UNCHANGED <<waiting, outcome, closed, stopped>>
Stop == /\ stopped' = TRUE
        /\ UNCHANGED <<waiting, outcome, closed, abandoned>>

Next == \/ \E q \in Queues, d \in Dirs, r \in Requests : Submit(q, d, r)
        \/ \E q \in Queues, d \in Dirs, how \in {"finished", "cancelled"} : Complete(q, d, how)
        \/ \E r \in Requests, how \in {"finished", "refused"} : AtOnce(r, how)
        \/ \E q \in Queues : Close(q) \/ Abandon(q)
        \/ Stop

Spec == Init /\ [][Next]_lvars
=============================================================================

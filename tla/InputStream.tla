---------------------------- MODULE InputStream ----------------------------
(***************************************************************************)
(* What a console promises about the keys pressed in it, whoever reads     *)
(* them: they are numbered in the order they were pressed, each goes to    *)
(* one program, and a key is kept only while it is the turn of no one.     *)
(***************************************************************************)
EXTENDS Naturals, Sequences

CONSTANT Clients

VARIABLES
    emitted,    \* number of keys so far
    pending,    \* keys kept for whoever reads next, oldest first
    given       \* given[c]: keys handed to c, oldest first

vars == <<emitted, pending, given>>

Init ==
    /\ emitted = 0
    /\ pending = <<>>
    /\ given = [c \in Clients |-> <<>>]

\* A key is pressed and nobody waits for it.
Keep ==
    /\ emitted' = emitted + 1
    /\ pending' = Append(pending, emitted')
    /\ UNCHANGED given

\* A key is pressed and handed to a program; it overtakes no other.
Hand(c) ==
    /\ pending = <<>>
    /\ emitted' = emitted + 1
    /\ given' = [given EXCEPT ![c] = Append(@, emitted')]
    /\ UNCHANGED pending

\* A program takes the oldest key that was kept.
Take(c) ==
    /\ pending # <<>>
    /\ pending' = Tail(pending)
    /\ given' = [given EXCEPT ![c] = Append(@, Head(pending))]
    /\ UNCHANGED emitted

Next == Keep \/ \E c \in Clients : Hand(c) \/ Take(c)

Spec == Init /\ [][Next]_vars
=============================================================================

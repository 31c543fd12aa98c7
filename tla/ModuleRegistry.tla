--------------------------- MODULE ModuleRegistry ---------------------------
(***************************************************************************)
(* What a program may rely on when it loads modules, with the loader's     *)
(* recursion, its lock and its errors left out: a set of loaded modules    *)
(* that only grows, one module at a time and never before the modules it   *)
(* depends on; and calls, each answered with a loaded module it asked for  *)
(* or with none.                                                           *)
(***************************************************************************)
EXTENDS Naturals, Sequences

CONSTANTS Threads, Names, Images, None, Shelf, ImportName, DependsOn

VARIABLES
    loaded,    (* import names of the loaded modules                        *)
    wanted,    (* thread -> the import names that would answer its call     *)
    answer     (* thread -> the module its last call was answered with      *)

vars == <<loaded, wanted, answer>>

(* Asking for n: a module called n, or the one in the image found under n. *)
Answers(n) == {n} \cup (IF Shelf[n] = None THEN {} ELSE {ImportName[Shelf[n]]})

Init ==
    /\ loaded = {}
    /\ wanted = [t \in Threads |-> {}]
    /\ answer = [t \in Threads |-> None]

Ask(t, names) ==
    /\ wanted[t] = {}
    /\ wanted' = [wanted EXCEPT ![t] = names]
    /\ answer' = [answer EXCEPT ![t] = None]
    /\ UNCHANGED loaded

AskByName(t, n) == Ask(t, Answers(n))
AskByImage(t, m) == Ask(t, {ImportName[m]})

(* Modules are loaded only in the course of somebody's call.               *)
Load(m) ==
    /\ \E t \in Threads : wanted[t] # {}
    /\ ImportName[m] \notin loaded
    /\ \A k \in 1 .. Len(DependsOn[m]) : Answers(DependsOn[m][k]) \cap loaded # {}
    /\ loaded' = loaded \cup {ImportName[m]}
    /\ UNCHANGED <<wanted, answer>>

Grant(t, n) ==
    /\ n \in wanted[t] \cap loaded
    /\ wanted' = [wanted EXCEPT ![t] = {}]
    /\ answer' = [answer EXCEPT ![t] = n]
    /\ UNCHANGED loaded

Refuse(t) ==
    /\ wanted[t] # {}
    /\ wanted' = [wanted EXCEPT ![t] = {}]
    /\ answer' = [answer EXCEPT ![t] = None]
    /\ UNCHANGED loaded

Reply(t) == Refuse(t) \/ \E n \in Names : Grant(t, n)

Next ==
    \/ \E t \in Threads, n \in Names : AskByName(t, n)
    \/ \E t \in Threads, m \in Images : AskByImage(t, m)
    \/ \E m \in Images : Load(m)
    \/ \E t \in Threads : Reply(t)

Safety == Init /\ [][Next]_vars

Spec == Safety /\ \A t \in Threads : WF_vars(Reply(t))
=============================================================================

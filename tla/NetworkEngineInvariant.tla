----------------------- MODULE NetworkEngineInvariant -----------------------
(***************************************************************************)
(* What the socket engine promises, and the invariant behind it.           *)
(***************************************************************************)
EXTENDS NetworkEngine

Statuses == {"finished", "cancelled", "refused"}
Places == {"poll", "handle", "peekRead", "peekWrite", "round", "command",
           "renewRead", "renewWrite", "cancel", "leave", "exit", "ended"}

TypeOK ==
    /\ requests \in [Queues -> [Dirs -> Seq(Requests)]]
    /\ sync \in [Queues -> Actors \cup {NoOne}]
    /\ ref \in [Queues -> Int]
    /\ owned \subseteq Queues /\ dead \subseteq Queues
    /\ made \in 0 .. MaxRequests /\ cancels \in [Listeners -> 0 .. MaxCancels]
    /\ request \in [Requests -> [q : Queues, kind : Kinds, left : Int] \cup {NoRequest}]
    /\ done \in [Requests -> Statuses \cup {"no"}]
    /\ control \in Actors \cup {NoOne} /\ open \in BOOLEAN
    /\ pipe \in Seq([cmd : {Renew, Leave, Cancel}, q : Queues])
    /\ clients \subseteq Queues /\ attr \in [Queues -> SUBSET Dirs]
    /\ at \in Places /\ seen \in BOOLEAN
    /\ item \in [q : Queues, what : Dirs \cup {"command"}] \cup {NoItem}
    /\ pc \in [Actors -> {"idle", "lock", "acquire", "write", "retain", "drop", "join"}]
    /\ call \in [Actors -> [cmd : {Renew, Leave, Cancel}, q : Queues, r : 0 .. MaxRequests]
                          \cup {NoCall}]
    /\ stack \in [Actors -> Seq(Queues \cup {"handler"})]

Sending(a, cmd, q) == /\ pc[a] \in {"acquire", "write", "retain"}
                      /\ call[a].cmd = cmd /\ call[a].q = q

(* A call of the program names its queue until it returns.  A queue that is *)
(* called has its object, but for the one call that destroys it, and that   *)
(* one is alone.                                                            *)
CallsSound ==
    \A a \in Actors :
        /\ pc[a] \in {"idle", "join"} <=> call[a] = NoCall
        /\ pc[a] = "lock" => call[a].cmd = Renew
        /\ pc[a] = "drop" => call[a].cmd = Leave
        /\ call[a] # NoCall =>
             /\ call[a].cmd = Renew =>
                  /\ call[a].q \in owned
                  /\ call[a].r \in 1 .. made /\ request[call[a].r].q = call[a].q
             /\ call[a].cmd = Cancel =>
                  call[a].q \in owned \cap Listeners /\ cancels[call[a].q] > 0
             /\ call[a].cmd = Leave =>
                  /\ call[a].q \notin owned
                  /\ \A b \in Actors \ {a} : call[b].q # call[a].q

(* Locks are held by the calls that took them.                              *)
LocksHeld ==
    /\ \A q \in Queues, a \in Actors : sync[q] = a <=> Sending(a, Renew, q)
    /\ \A a \in Actors : control = a <=> pc[a] \in {"write", "retain"}

(* Every request made is in one place, once: with the call that makes it,   *)
(* in its queue, or ended.                                                  *)
Entering(r) == \E a \in Actors : pc[a] = "lock" /\ call[a].r = r
RequestsInPlace ==
    /\ \A r \in Requests : r <= made /\ done[r] = "no" =>
         \/ Entering(r)
         \/ r \in ToSet(requests[request[r].q][DirOf(request[r].kind)])
    /\ \A q \in Queues, d \in Dirs :
         /\ IsInjective(requests[q][d])
         /\ \A r \in ToSet(requests[q][d]) :
              /\ r <= made /\ request[r].q = q /\ DirOf(request[r].kind) = d
              /\ done[r] = "no" /\ ~Entering(r)

(* Requests not made yet are blank, one that waits for the lock is its      *)
(* caller's alone, and one of which the engine is not told yet is the last  *)
(* of its queue: it is the one taken back if the engine refuses it.         *)
RequestsFresh ==
    /\ \A r \in Requests : IF r <= made THEN request[r].q \in Queues
                                         ELSE done[r] = "no"
    /\ \A a \in Actors : pc[a] = "lock" =>
         /\ done[call[a].r] = "no"
         /\ \A b \in Actors \ {a} : pc[b] = "lock" => call[b].r # call[a].r
    /\ \A a \in Actors : pc[a] = "acquire" /\ call[a].cmd = Renew =>
         LET waiting == requests[call[a].q][DirOf(request[call[a].r].kind)]
         IN waiting # <<>> /\ Last(waiting) = call[a].r

(* Where the dispatcher is, and what the commands it has yet to read say.   *)
Working == at \in {"renewRead", "renewWrite", "cancel", "leave"}
LoopSound ==
    /\ at \in {"poll", "command", "exit", "ended"} => item = NoItem
    /\ at \in {"handle", "peekRead", "peekWrite", "round"} =>
         item.q \in clients /\ item.what \in Dirs
    /\ Working => item.q \in Queues
    /\ at = "cancel" => item.q \in Listeners /\ cancels[item.q] > 0
    /\ ~open => control = NoOne
    /\ at \in {"exit", "ended"} => ~open /\ pipe = <<>>
CommandsSound ==
    \A i \in 1 .. Len(pipe) :
        /\ pipe[i].cmd = Leave => pipe[i].q \notin owned
        /\ pipe[i].cmd = Cancel => pipe[i].q \in Listeners /\ cancels[pipe[i].q] > 0

(* A command whose reference is yet to be taken is the last of the pipe, or *)
(* is being executed: if it is about a request, by a dispatcher that waits  *)
(* for the lock of its sender.                                              *)
ExecutedAt(cmd) == CASE cmd = Renew  -> {"renewRead"}
                     [] cmd = Cancel -> {"cancel", "leave"}
                     [] cmd = Leave  -> {"leave"}
CommandOwed ==
    \A a \in Actors : pc[a] = "retain" =>
        \/ pipe # <<>> /\ Last(pipe) = [cmd |-> call[a].cmd, q |-> call[a].q]
        \/ pipe = <<>> /\ at \in ExecutedAt(call[a].cmd) /\ item.q = call[a].q

(* The references of a queue are those of its object, of the call that      *)
(* destroys it, of the commands in the pipe and of the one being executed,  *)
(* and of the table; the sender of a command may still owe it one.          *)
Count(P) == IF P THEN 1 ELSE 0
CommandsOf(p, q) == Cardinality({i \in DOMAIN p : p[i].q = q})
InPipe(q) == CommandsOf(pipe, q)
Executing(q) == Working /\ item.q = q
Owing(q) == \E a \in Actors : pc[a] = "retain" /\ call[a].q = q
Leaving(q) == \E a \in Actors : call[a].cmd = Leave /\ call[a].q = q
Holders(q) == Count(q \in owned) + Count(Leaving(q)) + InPipe(q)
              + Count(Executing(q)) + Count(q \in clients) - Count(Owing(q))
ReferencesCounted == \A q \in Queues \ dead : ref[q] = Holders(q)

(* A queue that anybody may still touch is not destroyed, and one that is   *)
(* not made yet has no request.                                             *)
NotDestroyedInUse ==
    \A q \in dead :
      /\ q \notin owned \cup clients /\ InPipe(q) = 0 /\ ~Executing(q)
      /\ \A a \in Actors : call[a].q # q
DestructorsOfDead ==
    \A a \in Actors : \A i \in 1 .. Len(stack[a]) :
        stack[a][i] # "handler" => stack[a][i] \in dead
UnbornEmpty == \A q \in Queues, d \in Dirs : Unborn(q) => requests[q][d] = <<>>

(* The object of a program keeps its queue: Close does not take it away.    *)
ObjectsKeepQueues == owned \cap dead = {}

(* No request is forgotten: while the engine runs, the dispatcher polls for *)
(* the request at the head of a queue, or is to be told of it, or is about  *)
(* to look.                                                                 *)
RenewInPipe(q) == \E i \in 1 .. Len(pipe) : pipe[i] = [cmd |-> Renew, q |-> q]
Renewing(q) == \/ RenewInPipe(q)
               \/ \E a \in Actors : Sending(a, Renew, q) /\ pc[a] # "retain"
AboutToLook(q, d) ==
    /\ item.q = q
    /\ \/ at \in {"peekRead", "renewRead", "cancel"}
       \/ at \in {"peekWrite", "renewWrite"} /\ (d = "write" \/ seen)
NothingForgotten ==
    \A q \in owned, d \in Dirs :
        requests[q][d] # <<>> /\ at \notin {"exit", "ended"} =>
            \/ q \in clients /\ d \in attr[q]
            \/ Renewing(q) \/ AboutToLook(q, d)

(* Its inductive form.  A request counts once its call has the pipe, and    *)
(* polling does not count where the dispatcher is to rewrite the attributes *)
(* or to forget the client: it looked, so there was nothing to look for.    *)
Unsent(q, d) == \E a \in Actors :
    pc[a] = "acquire" /\ call[a].cmd = Renew /\ call[a].q = q
                      /\ DirOf(request[call[a].r].kind) = d
Sent(q, d) == Len(requests[q][d]) > Count(Unsent(q, d))
Polled(q, d) ==
    /\ q \in clients /\ d \in attr[q]
    /\ ~(item.q = q /\ (at = "leave" \/ (d = "read" /\ at \in {"peekWrite", "renewWrite"})))
SentNoticed ==
    \A q \in owned, d \in Dirs :
        Sent(q, d) /\ at \notin {"exit", "ended"} =>
            \/ Polled(q, d) \/ AboutToLook(q, d) \/ RenewInPipe(q)
            \/ \E a \in Actors : pc[a] = "write" /\ call[a].cmd = Renew /\ call[a].q = q

IInv ==
    /\ TypeOK
    /\ CallsSound /\ LocksHeld
    /\ RequestsInPlace /\ RequestsFresh
    /\ LoopSound /\ CommandsSound /\ CommandOwed
    /\ ReferencesCounted /\ NotDestroyedInUse /\ DestructorsOfDead /\ UnbornEmpty
    /\ NothingForgotten /\ SentNoticed

----------------------------------------------------------------------------
(* The pipe is full and its reader waits for its writers: the dispatcher    *)
(* needs the lock of one of them, or is one itself.                         *)
Jammed ==
    /\ Len(pipe) = PipeCapacity
    /\ \/ control = Dispatcher
       \/ pc[Dispatcher] = "acquire" /\ control # NoOne
       \/ pc[Dispatcher] = "lock" /\ sync[call[Dispatcher].q] # NoOne
       \/ at \notin {"poll", "command", "ended"} /\ sync[item.q] # NoOne

(* Whoever calls the engine gets out of it, the one that stops it too,      *)
(* unless the pipe is jammed.                                               *)
CallsReturn == \A a \in Actors : pc[a] # "idle" ~> (pc[a] = "idle" \/ Jammed)

(* Requests whose object is destroyed, and those of a listener that were    *)
(* there when it was closed, end.                                           *)
Doomed(r) ==
    /\ done[r] = "no"
    /\ \E q \in Queues : /\ r \in ToSet(requests[q]["read"] \o requests[q]["write"])
                         /\ \/ q \notin owned
                            \/ [cmd |-> Cancel, q |-> q] \in ToSet(pipe)
RequestsEnd == \A r \in Requests : Doomed(r) ~> (done[r] # "no" \/ Jammed)

----------------------------------------------------------------------------
(* The engine keeps the promises of RequestLedger.  A request counts as     *)
(* made when its call has found the engine running.                         *)
Made == [q \in Queues |-> [d \in Dirs |->
            IF Unsent(q, d) THEN Front(requests[q][d]) ELSE requests[q][d]]]
Ledger == INSTANCE RequestLedger WITH
            waiting <- Made, outcome <- done,
            closed <- {q \in Listeners : cancels[q] > 0},
            abandoned <- {q \in Queues \ owned : ~Unborn(q)},
            stopped <- ~open
ImplementsLedger == Ledger!Spec
=============================================================================

--------------------------- MODULE NetworkEngine ---------------------------
(***************************************************************************)
(* The socket engine of the run time on Unix (xenv/xe_netapi_unix.cxx).    *)
(*                                                                         *)
(* A channel or a listener owns a NetworkRequestQueue: a socket and two    *)
(* queues of requests, one for reading (receive, accept) and one for       *)
(* writing (connect, send), under the lock _local_sync.  One dispatcher    *)
(* thread polls the sockets it has in its table and carries requests out.  *)
(* Everybody else talks to it through a pipe of commands (which queue has  *)
(* changed, which is to be cancelled, which is leaving), written under the *)
(* spin lock _dispatch_control.  A command carries a reference to the      *)
(* queue it names, which the dispatcher releases.                          *)
(*                                                                         *)
(* The program's code runs on its threads and, as the handlers of finished *)
(* requests, on the dispatcher too: both may call the engine.  A request   *)
(* of a security descriptor (TLS), the addresses and the bytes moved are   *)
(* left out; what a socket answers is chosen.                              *)
(***************************************************************************)
EXTENDS Integers, Sequences, FiniteSets, SequencesExt

CONSTANTS Channels,      \* request queues of channels
          Listeners,     \* request queues of listeners
          Threads,       \* the program's threads
          Dispatcher,    \* the thread of _dispatch
          NoOne,         \* no holder of a lock
          MaxRequests,   \* bound: requests ever made
          MaxCancels,    \* bound: calls of Close on a listener
          PipeCapacity,  \* commands the pipe holds before write() blocks
          Limits,        \* limits of accept requests (-1: without limit)
          PromptRetain   \* the writer of a command has taken its reference
                         \* when the dispatcher releases it

Queues == Channels \cup Listeners

ASSUME ActorsDistinct ==
    /\ Dispatcher \notin Threads /\ NoOne \notin Threads \cup {Dispatcher} \cup Queues
    /\ Channels \cap Listeners = {}
    /\ Threads # {} /\ Queues # {} /\ "handler" \notin Queues
ASSUME BoundsNatural ==
    /\ MaxRequests \in Nat /\ MaxCancels \in Nat
    /\ PipeCapacity \in Nat \ {0}
    /\ Limits \subseteq Int \ {0}
    /\ PromptRetain \in BOOLEAN

Actors == Threads \cup {Dispatcher}
Requests == 1 .. MaxRequests
Dirs == {"read", "write"}
Kinds == {"connect", "send", "receive", "accept"}
Renew == 1      \* the queue has requests: look at it
Leave == 0      \* forget the queue
Cancel == 2     \* complete all its requests, then forget it

DirOf(kind) == IF kind \in {"receive", "accept"} THEN "read" ELSE "write"

VARIABLES
    requests,   \* [Queues -> [Dirs -> Seq(Requests)]]: _requests_read, _write
    sync,       \* who holds the _local_sync of a queue
    ref,        \* reference count of a queue; 0 before it is made
    owned,      \* queues whose channel or listener object is alive
    dead,       \* queues whose destructor has begun
    made,       \* number of requests made
    request,    \* what a request is: its queue, its kind and, to accept,
                \* how many connections it may still take (pointer)
    done,       \* how a request ended, "no" while it has not
    cancels,    \* calls of Close so far, of each listener
    control,    \* who holds _dispatch_control
    open,       \* _command_in is a descriptor
    pipe,       \* Seq of commands
    clients,    \* queues in the dispatcher's table
    attr,       \* poll attributes of a client; {} is REQUEST_ATTRIBUTE_REMOVE
    at,         \* where the dispatcher's loop is
    item,       \* the client or the command being handled
    seen,       \* result of the first of two _peek_request
    pc,         \* where an actor is inside a call of the engine
    call,       \* the command it is about to send, and its request
    stack       \* what it runs: handlers and destructors of queues

queueVars == <<requests, sync, ref, owned, dead>>
reqVars == <<made, request, done, cancels>>
pipeVars == <<control, open, pipe>>
loopVars == <<clients, attr, at, item, seen>>
actorVars == <<pc, call, stack>>
vars == <<queueVars, reqVars, pipeVars, loopVars, actorVars>>

NoCall == [cmd |-> Leave, q |-> NoOne, r |-> 0]
NoRequest == [q |-> NoOne, kind |-> "none", left |-> 0]
NoItem == [q |-> NoOne, what |-> "none"]

Init ==
    /\ requests = [q \in Queues |-> [d \in Dirs |-> <<>>]]
    /\ sync = [q \in Queues |-> NoOne]
    /\ ref = [q \in Queues |-> 0]
    /\ owned = {} /\ dead = {}
    /\ made = 0 /\ cancels = [q \in Listeners |-> 0]
    /\ request = [r \in Requests |-> NoRequest]
    /\ done = [r \in Requests |-> "no"]
    /\ control = NoOne /\ open = TRUE /\ pipe = <<>>
    /\ clients = {} /\ attr = [q \in Queues |-> {}]
    /\ at = "poll" /\ seen = FALSE
    /\ pc = [a \in Actors |-> "idle"]
    /\ stack = [a \in Actors |-> <<>>]
    /\ call = [a \in Actors |-> NoCall]
    /\ item = NoItem

----------------------------------------------------------------------------
(* What an actor runs.  "handler" is code of the program; a queue is its    *)
(* destructor, which runs the handlers of the requests it finds.            *)

Top(a) == IF stack[a] = <<>> THEN "none" ELSE Last(stack[a])
InProgram(a) == \/ stack[a] = <<>> /\ a \in Threads
                \/ stack[a] # <<>> /\ Last(stack[a]) = "handler"
CanCall(a) == pc[a] = "idle" /\ InProgram(a)
Destroying(a) == stack[a] # <<>> /\ Last(stack[a]) # "handler"

Push(a, x) == stack' = [stack EXCEPT ![a] = Append(@, x)]
Goto(a, l) ==
    /\ pc' = [pc EXCEPT ![a] = l]
    /\ call' = IF l = "idle" THEN [call EXCEPT ![a] = NoCall] ELSE call
GoCalling(a, l, c) ==
    /\ pc' = [pc EXCEPT ![a] = l]
    /\ call' = [call EXCEPT ![a] = c]

(* Release() of n references by actor a: the last one destroys the queue.   *)
Release(a, q, n) ==
    /\ ref' = [ref EXCEPT ![q] = @ - n]
    /\ IF ref[q] <= n THEN dead' = dead \cup {q} /\ Push(a, q)
                      ELSE UNCHANGED <<dead, stack>>

(* The queue is made with its object, the one reference to it.              *)
Unborn(q) == ref[q] = 0 /\ q \notin dead
Adopt(q) == ref' = [ref EXCEPT ![q] = 1] /\ owned' = owned \cup {q}

End(r, status) == done' = [done EXCEPT ![r] = status]

----------------------------------------------------------------------------
(* The program calls the engine.                                            *)

(* UnixNetworkListener::BindA: a socket bound and listening.                *)
BindA(a, q) ==
    /\ CanCall(a) /\ q \in Listeners /\ Unborn(q)
    /\ Adopt(q)
    /\ UNCHANGED <<requests, sync, dead, reqVars, pipeVars, loopVars, actorVars>>

(* A call that makes a request k of queue q waits for its lock.             *)
Enter(a, q, k, n) ==
    /\ made < MaxRequests
    /\ made' = made + 1
    /\ request' = [request EXCEPT ![made + 1] = [q |-> q, kind |-> k, left |-> n]]
    /\ GoCalling(a, "lock", [cmd |-> Renew, q |-> q, r |-> made + 1])
    /\ UNCHANGED <<requests, sync, dead, done, cancels, pipeVars, loopVars, stack>>

(* UnixNetworkChannel::ConnectA: a new queue and its request to connect.    *)
ConnectA(a, q) ==
    /\ CanCall(a) /\ q \in Channels /\ Unborn(q)
    /\ Adopt(q)
    /\ Enter(a, q, "connect", 0)

(* Send, Receive, Accept of an object that has its queue.                   *)
Request(a, q, k, n) ==
    /\ CanCall(a) /\ q \in owned
    /\ IF q \in Listeners THEN k = "accept" /\ n \in Limits
                          ELSE k \in {"send", "receive"} /\ n = 0
    /\ Enter(a, q, k, n)
    /\ UNCHANGED <<ref, owned>>

(* EnqueueRequest, EnqueueConnectRequest after EINPROGRESS: the request is  *)
(* queued and the lock kept over _control_send.                             *)
Enqueue(a) ==
    LET q == call[a].q
        r == call[a].r
    IN /\ pc[a] = "lock" /\ sync[q] = NoOne
       /\ sync' = [sync EXCEPT ![q] = a]
       /\ requests' = [requests EXCEPT ![q][DirOf(request[r].kind)] = Append(@, r)]
       /\ Goto(a, "acquire")
       /\ UNCHANGED <<ref, owned, dead, reqVars, pipeVars, loopVars, stack>>

(* connect() succeeded or failed at once: the handler runs here.            *)
ConnectAtOnce(a) ==
    LET r == call[a].r
    IN /\ pc[a] = "lock" /\ sync[call[a].q] = NoOne /\ request[r].kind = "connect"
       /\ End(r, "finished")
       /\ Push(a, "handler")
       /\ Goto(a, "idle")
       /\ UNCHANGED <<queueVars, made, request, cancels, pipeVars, loopVars>>

(* UnixNetworkListener::Close.                                              *)
Close(a, q) ==
    /\ CanCall(a) /\ q \in owned \cap Listeners /\ cancels[q] < MaxCancels
    /\ cancels' = [cancels EXCEPT ![q] = @ + 1]
    /\ GoCalling(a, "acquire", [cmd |-> Cancel, q |-> q, r |-> 0])
    /\ UNCHANGED <<queueVars, made, request, done, pipeVars, loopVars, stack>>

(* ~UnixNetworkChannel, ~UnixNetworkListener: Shutdown(), then the queue is *)
(* released.  The program does not destroy an object it is calling.         *)
Destroy(a, q) ==
    /\ CanCall(a) /\ q \in owned
    /\ \A b \in Actors : call[b].q # q
    /\ owned' = owned \ {q}
    /\ GoCalling(a, "acquire", [cmd |-> Leave, q |-> q, r |-> 0])
    /\ UNCHANGED <<requests, sync, ref, dead, reqVars, pipeVars, loopVars, stack>>

----------------------------------------------------------------------------
(* _control_send                                                            *)

Acquire(a) ==
    /\ pc[a] = "acquire" /\ control = NoOne /\ open
    /\ control' = a
    /\ Goto(a, "write")
    /\ UNCHANGED <<queueVars, reqVars, open, pipe, loopVars, stack>>

(* The engine has stopped.  A request is taken back and ends with an error, *)
(* its handler run here; the other commands are dropped.                    *)
RefuseFirst(a) ==
    LET q == call[a].q
        r == call[a].r
        d == DirOf(request[r].kind)
    IN /\ pc[a] = "acquire" /\ control = NoOne /\ ~open
       /\ IF call[a].cmd = Renew
          THEN /\ requests' = [requests EXCEPT ![q][d] = Tail(@)]
               /\ sync' = [sync EXCEPT ![q] = NoOne]
               /\ End(r, "refused")
               /\ Push(a, "handler")
          ELSE UNCHANGED <<requests, sync, done, stack>>
       /\ Goto(a, IF call[a].cmd = Leave THEN "drop" ELSE "idle")
       /\ UNCHANGED <<ref, owned, dead, made, request, cancels, pipeVars,
                      loopVars>>

Refuse(a) ==
    LET q == call[a].q
        r == call[a].r
        d == DirOf(request[r].kind)
    IN /\ pc[a] = "acquire" /\ control = NoOne /\ ~open
       /\ IF call[a].cmd = Renew
          THEN /\ requests' = [requests EXCEPT ![q][d] = Front(@)]
               /\ sync' = [sync EXCEPT ![q] = NoOne]
               /\ End(r, "refused")
               /\ Push(a, "handler")
          ELSE UNCHANGED <<requests, sync, done, stack>>
       /\ Goto(a, IF call[a].cmd = Leave THEN "drop" ELSE "idle")
       /\ UNCHANGED <<ref, owned, dead, made, request, cancels, pipeVars,
                      loopVars>>

Write(a) ==
    /\ pc[a] = "write" /\ Len(pipe) < PipeCapacity
    /\ pipe' = Append(pipe, [cmd |-> call[a].cmd, q |-> call[a].q])
    /\ Goto(a, "retain")
    /\ UNCHANGED <<queueVars, reqVars, control, open, loopVars, stack>>

(* The reference of the command is taken after the command was written.     *)
Retain(a) ==
    LET q == call[a].q
    IN /\ pc[a] = "retain"
       /\ ref' = [ref EXCEPT ![q] = @ + 1]
       /\ control' = NoOne
       /\ IF call[a].cmd = Renew THEN sync' = [sync EXCEPT ![q] = NoOne]
                                 ELSE UNCHANGED sync
       /\ Goto(a, IF call[a].cmd = Leave THEN "drop" ELSE "idle")
       /\ UNCHANGED <<requests, owned, dead, reqVars, open, pipe, loopVars, stack>>

(* The object's own reference goes (its SafePointer is destroyed).          *)
Drop(a) ==
    /\ pc[a] = "drop"
    /\ Release(a, call[a].q, 1)
    /\ Goto(a, "idle")
    /\ UNCHANGED <<requests, sync, owned, reqVars, pipeVars, loopVars>>

(* StopDispatch by the last user of the engine.                             *)
StopDispatch(a) ==
    /\ a \in Threads /\ CanCall(a) /\ open /\ control = NoOne
    /\ open' = FALSE
    /\ Goto(a, "join")
    /\ UNCHANGED <<queueVars, reqVars, control, pipe, loopVars, stack>>

Join(a) ==
    /\ pc[a] = "join" /\ at = "ended"
    /\ Goto(a, "idle")
    /\ UNCHANGED <<queueVars, reqVars, pipeVars, loopVars, stack>>

----------------------------------------------------------------------------
(* Handlers and destructors                                                 *)

HandlerReturns(a) ==
    /\ pc[a] = "idle" /\ stack[a] # <<>> /\ Last(stack[a]) = "handler"
    /\ stack' = [stack EXCEPT ![a] = Front(@)]
    /\ UNCHANGED <<queueVars, reqVars, pipeVars, loopVars, pc, call>>

(* ~NetworkRequestQueue: the requests left, those for reading first, end    *)
(* with an error and their handlers are run.                                *)
DestroyReads(a) ==
    /\ pc[a] = "idle" /\ Destroying(a)
    /\ LET q == Last(stack[a])
           d == "read"
       IN IF requests[q][d] # <<>>
          THEN /\ End(Head(requests[q][d]), "cancelled")
               /\ requests' = [requests EXCEPT ![q][d] = Tail(@)]
               /\ Push(a, "handler")
          ELSE /\ stack' = [stack EXCEPT ![a] = Front(@)]
               /\ UNCHANGED <<requests, done>>
    /\ UNCHANGED <<sync, ref, owned, dead, made, request, cancels, pipeVars,
                   loopVars, pc, call>>

DestroyNext(a) ==
    /\ pc[a] = "idle" /\ Destroying(a)
    /\ LET q == Last(stack[a])
           d == IF requests[q]["read"] # <<>> THEN "read" ELSE "write"
       IN IF requests[q][d] # <<>>
          THEN /\ End(Head(requests[q][d]), "cancelled")
               /\ requests' = [requests EXCEPT ![q][d] = Tail(@)]
               /\ Push(a, "handler")
          ELSE /\ stack' = [stack EXCEPT ![a] = Front(@)]
               /\ UNCHANGED <<requests, done>>
    /\ UNCHANGED <<sync, ref, owned, dead, made, request, cancels, pipeVars,
                   loopVars, pc, call>>

----------------------------------------------------------------------------
(* The dispatcher.  A round of _dispatch handles, for each client, READ and *)
(* then WRITE, removes the clients marked, and reads at most one command.   *)
(* Clients share nothing, so a round over several is taken as rounds over   *)
(* one client each.  POLLERR and POLLHUP come whatever was polled for.      *)

InLoop(l) == at = l /\ pc[Dispatcher] = "idle" /\ stack[Dispatcher] = <<>>

PollEvent(q, d) ==
    /\ InLoop("poll") /\ q \in clients
    /\ item' = [q |-> q, what |-> d]
    /\ at' = "handle"
    /\ UNCHANGED <<queueVars, reqVars, pipeVars, clients, attr, seen, actorVars>>

PollCommand ==
    /\ InLoop("poll") /\ (pipe # <<>> \/ ~open)
    /\ at' = "command"
    /\ UNCHANGED <<queueVars, reqVars, pipeVars, clients, attr, item, seen, actorVars>>

(* _handle_connection: the head of the queue the event is about.            *)
Ready(d) == InLoop("handle") /\ item.what = d /\ sync[item.q] = NoOne
HeadOf(d) == Head(requests[item.q][d])
Pop(d) == requests' = [requests EXCEPT ![item.q][d] = Tail(@)]

(* No request there, or the socket is not ready for it after all.           *)
NothingDone(d) ==
    /\ Ready(d)
    /\ at' = "round"
    /\ UNCHANGED <<queueVars, reqVars, pipeVars, clients, attr, item, seen, actorVars>>

(* connect, send or recv has finished, well or not.                         *)
Finish(d) ==
    /\ Ready(d) /\ requests[item.q][d] # <<>> /\ request[HeadOf(d)].kind # "accept"
    /\ End(HeadOf(d), "finished")
    /\ Pop(d)
    /\ Push(Dispatcher, "handler")
    /\ at' = "peekRead"
    /\ UNCHANGED <<sync, ref, owned, dead, made, request, cancels, pipeVars,
                   clients, attr, item, seen, pc, call>>

(* accept() has answered: with a connection, whose channel is made, or with *)
(* an error.  The request stays until it has had its number of answers.     *)
Accept(d) ==
    LET r == HeadOf(d)
    IN /\ Ready(d) /\ requests[item.q][d] # <<>> /\ request[r].kind = "accept"
       /\ \/ \E c \in Channels : Unborn(c) /\ Adopt(c)
          \/ UNCHANGED <<ref, owned>>
       /\ Push(Dispatcher, "handler")
       /\ request' = [request EXCEPT ![r].left = IF @ > 0 THEN @ - 1 ELSE @]
       /\ IF request[r].left = 1 THEN /\ Pop(d) /\ End(r, "finished")
                              /\ at' = "peekRead"
                         ELSE /\ UNCHANGED <<requests, done>>
                              /\ at' = "round"
       /\ UNCHANGED <<sync, dead, made, cancels, pipeVars, clients, attr, item,
                      seen, pc, call>>

(* The two _peek_request of a revision, each under the lock.                *)
PeekRead(l, next) ==
    /\ InLoop(l) /\ sync[item.q] = NoOne
    /\ seen' = (requests[item.q]["read"] # <<>>)
    /\ at' = next
    /\ UNCHANGED <<queueVars, reqVars, pipeVars, clients, attr, item, actorVars>>

PeekedOne == IF seen THEN {"read"} ELSE
          (IF requests[item.q]["write"] # <<>> THEN {"write"} ELSE {})

Peeked == (IF seen THEN {"read"} ELSE {}) \cup
          (IF requests[item.q]["write"] # <<>> THEN {"write"} ELSE {})

Revise ==
    /\ InLoop("peekWrite") /\ sync[item.q] = NoOne
    /\ attr' = [attr EXCEPT ![item.q] = Peeked]
    /\ seen' = FALSE
    /\ at' = "round"
    /\ UNCHANGED <<queueVars, reqVars, pipeVars, clients, item, actorVars>>

(* READ was handled: the same client may have had WRITE too.                *)
ThenWrite ==
    /\ InLoop("round") /\ item.what = "read"
    /\ item' = [item EXCEPT !.what = "write"]
    /\ at' = "handle"
    /\ UNCHANGED <<queueVars, reqVars, pipeVars, clients, attr, seen, actorVars>>

RemoveMarked ==
    /\ InLoop("round")
    /\ IF attr[item.q] = {}
       THEN clients' = clients \ {item.q} /\ Release(Dispatcher, item.q, 1)
       ELSE UNCHANGED <<clients, ref, dead, stack>>
    /\ item' = NoItem
    /\ at' = "command"
    /\ UNCHANGED <<requests, sync, owned, reqVars, pipeVars, attr, seen, pc, call>>

(* The command read brings its reference with it.                           *)
ReadCommand ==
    /\ InLoop("command") /\ pipe # <<>>
    /\ item' = [q |-> Head(pipe).q, what |-> "command"]
    /\ pipe' = Tail(pipe)
    /\ at' = CASE Head(pipe).cmd = Renew -> "renewRead"
               [] Head(pipe).cmd = Cancel -> "cancel"
               [] Head(pipe).cmd = Leave -> "leave"
    /\ UNCHANGED <<queueVars, reqVars, control, open, clients, attr, seen, actorVars>>

NoCommandForever ==
    /\ InLoop("command") /\ pipe = <<>>
    /\ at' = "poll"
    /\ UNCHANGED <<queueVars, reqVars, pipeVars, clients, attr, item, seen, actorVars>>

NoCommand ==
    /\ InLoop("command") /\ pipe = <<>>
    /\ at' = IF open THEN "poll" ELSE "exit"
    /\ UNCHANGED <<queueVars, reqVars, pipeVars, clients, attr, item, seen, actorVars>>

(* Renew: the second peek.  The table takes a reference of its own to a new *)
(* client; the one of the command is released.                              *)
Renewed ==
    /\ InLoop("renewWrite") /\ sync[item.q] = NoOne
    /\ IF Peeked # {}
       THEN /\ attr' = [attr EXCEPT ![item.q] = Peeked]
            /\ clients' = clients \cup {item.q}
            /\ IF item.q \in clients THEN Release(Dispatcher, item.q, 1)
                                     ELSE UNCHANGED <<ref, dead, stack>>
            /\ item' = NoItem
            /\ at' = "poll"
       ELSE at' = "leave" /\ UNCHANGED <<clients, attr, item, ref, dead, stack>>
    /\ seen' = FALSE
    /\ UNCHANGED <<requests, sync, owned, reqVars, pipeVars, pc, call>>

(* Cancel: one request at a time, as long as there are any.                 *)
CancelNext ==
    /\ InLoop("cancel") /\ sync[item.q] = NoOne
    /\ LET d == IF requests[item.q]["read"] # <<>> THEN "read" ELSE "write"
       IN IF requests[item.q][d] # <<>>
          THEN /\ End(HeadOf(d), "cancelled")
               /\ Pop(d)
               /\ Push(Dispatcher, "handler")
               /\ UNCHANGED at
          ELSE /\ at' = "leave"
               /\ UNCHANGED <<requests, done, stack>>
    /\ UNCHANGED <<sync, ref, owned, dead, made, request, cancels, pipeVars,
                   clients, attr, item, seen, pc, call>>

(* The command being executed is one whose writer is yet to take the        *)
(* reference that is released here.                                         *)
Early == pipe = <<>> /\ \E a \in Actors : pc[a] = "retain"

Forget ==
    /\ InLoop("leave") /\ (PromptRetain => ~Early)
    /\ clients' = clients \ {item.q}
    /\ attr' = [attr EXCEPT ![item.q] = {}]
    /\ Release(Dispatcher, item.q, IF item.q \in clients THEN 2 ELSE 1)
    /\ item' = NoItem
    /\ at' = "poll"
    /\ UNCHANGED <<requests, sync, owned, reqVars, pipeVars, seen, pc, call>>

(* The pipe is closed and empty: the table goes, with its references.       *)
Exit ==
    /\ InLoop("exit")
    /\ IF clients = {}
       THEN at' = "ended" /\ UNCHANGED <<clients, ref, dead, stack>>
       ELSE /\ \E q \in clients : clients' = clients \ {q} /\ Release(Dispatcher, q, 1)
            /\ UNCHANGED at
    /\ UNCHANGED <<requests, sync, owned, reqVars, pipeVars, attr, item, seen, pc, call>>

----------------------------------------------------------------------------
InCall(a) ==
    \/ Enqueue(a) \/ ConnectAtOnce(a) \/ Acquire(a) \/ Refuse(a)
    \/ Write(a) \/ Retain(a) \/ Drop(a) \/ Join(a)

Program(a) ==
    \/ \E q \in Queues : BindA(a, q) \/ ConnectA(a, q) \/ Close(a, q) \/ Destroy(a, q)
    \/ \E q \in Queues, k \in Kinds, n \in Limits \cup {0} : Request(a, q, k, n)
    \/ StopDispatch(a)

Runs(a) == HandlerReturns(a) \/ DestroyNext(a)

Loop ==
    \/ PollCommand
    \/ \E d \in Dirs : NothingDone(d) \/ Finish(d) \/ Accept(d)
    \/ PeekRead("peekRead", "peekWrite") \/ Revise \/ ThenWrite \/ RemoveMarked
    \/ ReadCommand \/ NoCommand
    \/ PeekRead("renewRead", "renewWrite") \/ Renewed
    \/ CancelNext \/ Forget \/ Exit

Next ==
    \/ \E a \in Actors : Program(a) \/ InCall(a) \/ Runs(a)
    \/ \E q \in Queues, d \in Dirs : PollEvent(q, d)
    \/ Loop

(* Threads are scheduled, locks are handed over, handlers return, poll and  *)
(* the pipe answer.  Nothing obliges a socket to become ready, nor the      *)
(* program to call.                                                         *)
Fairness ==
    /\ \A a \in Actors : WF_vars(InCall(a)) /\ WF_vars(Runs(a))
    /\ WF_vars(Loop)

Spec == Init /\ [][Next]_vars /\ Fairness
=============================================================================

---------------------------- MODULE RemoteCalls ----------------------------
(***************************************************************************)
(* Remote procedure calls of the library (xv_lib/ifr.xv): two ends of one  *)
(* channel, each with a service (servus).                                  *)
(*                                                                         *)
(* A caller takes the service's semaphore _sync_inv, sends its call, waits *)
(* for the signal _sync_resp, reads the status and the answer the service  *)
(* keeps for it, and gives the semaphore back.  The dispatcher of the      *)
(* network engine reads messages and hands them to the service's task      *)
(* queue, one thread, which answers calls by running the method called and *)
(* stores answers for the caller that waits.  A method may itself call the *)
(* other end.  Whoever finds the channel broken closes the service, stores *)
(* an error and raises the signal; a caller also looks every five seconds  *)
(* whether the service was closed.                                         *)
(*                                                                         *)
(* A message carries the call it makes or answers, though the code sends   *)
(* no such number with an answer; arguments, results and the numbers of    *)
(* objects are left out.  A section under _sync is one step.               *)
(***************************************************************************)
EXTENDS Integers, Sequences, FiniteSets, SequencesExt

CONSTANTS Ends,       \* the two services; also the names of their queues' threads
          Threads,    \* the program's threads
          ThreadEnd,  \* [Threads -> Ends]: the service a thread calls
          None,
          Programs    \* bound: a set of [Actors -> the calls it makes]

Actors == Ends \cup Threads
Home(x) == IF x \in Ends THEN x ELSE ThreadEnd[x]
Other(e) == CHOOSE f \in Ends : f # e

Ident == [by : Actors, n : Nat]
Message == [kind : {"call", "answer"}, id : Ident, error : BOOLEAN]

ASSUME Shape == /\ \E e \in Ends : \E f \in Ends \ {e} : Ends = {e, f}
                /\ Ends \cap Threads = {}
                /\ ThreadEnd \in [Threads -> Ends]
                /\ None \notin Actors \cup Message /\ Programs \subseteq [Actors -> Nat]

VARIABLES
    up,        \* the connection
    canale,    \* [Ends -> BOOLEAN]: the service has its channel
    wire,      \* [Ends -> messages on their way to it]
    reading,   \* [Ends -> a receive is pending]
    sent,      \* [Ends -> a send has failed, which is still to be reported]
    broken,    \* [Ends -> the dispatcher has found the channel broken and
               \*          closed the service, and is about to say so]
    cauda,     \* [Ends -> tasks of the queue]
    serving,   \* [Ends -> the call the queue's thread runs the method of]
    inv,       \* [Ends -> value of _sync_inv]
    resp,      \* [Ends -> _sync_resp]
    status,    \* [Ends -> _status_invocationis: an error?]
    data,      \* [Ends -> _data_invocationis]
    origo,     \* [Ends -> what _dstor reads]
    labos,     \* [Ends -> the closing task is still to be run]
    closings,  \* [Ends -> how often it has run (history)]
    calls,     \* [Actors -> the calls it may make], one of Programs
    call,      \* [Actors -> the call being made]
    result,    \* [Actors -> how its last call ended]
    crowded    \* services where a call began while a refused caller had
               \* given the semaphore back and not yet read its status (history)

netVars == <<up, wire, reading, sent, broken>>
service == <<calls, canale, labos, closings>>
store == <<status, data>>
turn == <<origo, inv, resp>>
endVars == <<service, store, turn>>
vars == <<netVars, endVars, cauda, serving, call, result, crowded>>

Silent == [at |-> "idle", n |-> 0]
NoResult == [n |-> 0, how |-> "none", answer |-> None]
Id(x) == [by |-> x, n |-> call[x].n]
Call(x) == [kind |-> "call", id |-> Id(x), error |-> FALSE]
Answer(id, error) == [kind |-> "answer", id |-> id, error |-> error]
ClosingTask == [kind |-> "closing", id |-> None, error |-> FALSE]

OnEnds(v) == [e \in Ends |-> v]
Init ==
    /\ up = TRUE /\ canale = OnEnds(TRUE) /\ wire = OnEnds(<<>>)
    /\ reading = OnEnds(TRUE) /\ sent = OnEnds(FALSE) /\ broken = OnEnds(FALSE)
    /\ cauda = OnEnds(<<>>) /\ serving = OnEnds(None)
    /\ inv = OnEnds(1) /\ resp = OnEnds(FALSE) /\ status = OnEnds(FALSE)
    /\ data = OnEnds(None) /\ origo = OnEnds(None)
    /\ labos = OnEnds(TRUE) /\ closings = OnEnds(0)
    /\ calls \in Programs /\ call = [x \in Actors |-> Silent]
    /\ result = [x \in Actors |-> NoResult]
    /\ crowded = {}

At(x, at) == call[x].at = at
Goto(x, at) == call' = [call EXCEPT ![x].at = at]
Over(x, how, answer) ==
    /\ result' = [result EXCEPT ![x] = [n |-> call[x].n, how |-> how, answer |-> answer]]
    /\ Goto(x, "idle")

ClodeSilent(e, tasks) ==
    /\ canale' = [canale EXCEPT ![e] = FALSE] /\ up' = (up /\ ~canale[e])
    /\ labos' = [labos EXCEPT ![e] = FALSE] /\ cauda' = [cauda EXCEPT ![e] = tasks]

(* clode(): the channel, the objects and the closing task are given up in    *)
(* one section; then the channel is closed and the task queued.              *)
Clode(e, tasks) ==
    /\ canale' = [canale EXCEPT ![e] = FALSE]
    /\ labos' = [labos EXCEPT ![e] = FALSE]
    /\ up' = (up /\ ~canale[e])
    /\ cauda' = [cauda EXCEPT ![e] = tasks \o (IF labos[e] THEN <<ClosingTask>> ELSE <<>>)]

EndeRaised(e) ==
    origo' = [origo EXCEPT ![e] = None] /\ inv' = [inv EXCEPT ![e] = @ + 1] /\ UNCHANGED resp

(* ende_invocationem()                                                       *)
Ende(e) ==
    /\ origo' = [origo EXCEPT ![e] = None]
    /\ resp' = [resp EXCEPT ![e] = FALSE]
    /\ inv' = [inv EXCEPT ![e] = @ + 1]

----------------------------------------------------------------------------
(* A caller.                                                                 *)
Initia(x) ==
    LET e == Home(x)
    IN /\ At(x, "idle") /\ call[x].n < calls[x]
       /\ x \in Ends => serving[x] # None
       /\ call' = [call EXCEPT ![x] = [at |-> "initia", n |-> @.n + 1]]
       /\ UNCHANGED <<netVars, endVars, cauda, serving, result, crowded>>

TakeTurn(x) ==
    LET e == Home(x)
    IN /\ At(x, "initia") /\ inv[e] > 0
       /\ inv' = [inv EXCEPT ![e] = @ - 1]
       /\ Goto(x, "exordi")
       /\ crowded' = IF \E y \in Actors : Home(y) = e /\ At(y, "refused")
                     THEN crowded \cup {e} ELSE crowded
       /\ UNCHANGED <<netVars, service, store, resp, origo, cauda, serving, result>>

GiveUpKeeping(x) ==
    At(x, "exordi") /\ Over(x, "broken", None) /\ UNCHANGED <<netVars, endVars, cauda, serving, crowded>>

(* The arguments cannot be serialized: the turn is given back.               *)
GiveUp(x) ==
    /\ At(x, "exordi")
    /\ Ende(Home(x)) /\ Over(x, "broken", None)
    /\ UNCHANGED <<netVars, service, store, cauda, serving, crowded>>

(* exordi_invocationem reads the channel.  With no channel it ends the call  *)
(* and throws, and its own handler ends the call again (NoChannel).          *)
FindChannel(x) ==
    LET e == Home(x)
    IN /\ At(x, "exordi")
       /\ IF canale[e] THEN Goto(x, "send") /\ UNCHANGED turn
                       ELSE Ende(e) /\ Goto(x, "ended")
       /\ UNCHANGED <<netVars, service, store, cauda, serving, result, crowded>>
NoChannel(x) ==
    /\ At(x, "ended")
    /\ Ende(Home(x)) /\ Over(x, "broken", None)
    /\ UNCHANGED <<netVars, service, store, cauda, serving, crowded>>

(* The call is sent, though the service may have been closed since; or the   *)
(* network refuses the request.  A send that fails is reported later.        *)
Transmit(e, m) ==
    IF up THEN wire' = [wire EXCEPT ![Other(e)] = Append(@, m)] /\ UNCHANGED sent
          ELSE sent' = [sent EXCEPT ![e] = TRUE] /\ UNCHANGED wire
Send(x) ==
    /\ At(x, "send")
    /\ \/ /\ Transmit(Home(x), Call(x))
          /\ Goto(x, "wait") /\ UNCHANGED <<turn, result>>
       \/ /\ Ende(Home(x)) /\ Over(x, "broken", None)
          /\ UNCHANGED <<wire, sent>>
    /\ UNCHANGED <<service, store, up, reading, broken, cauda, serving, crowded>>

WakeUp(x) ==
    /\ At(x, "wait") /\ resp[Home(x)]
    /\ Goto(x, "woken")
    /\ UNCHANGED <<netVars, endVars, cauda, serving, result, crowded>>

(* Five seconds have passed and the service is closed.                       *)
TimeOut(x) ==
    /\ At(x, "wait") /\ ~canale[Home(x)]
    /\ Ende(Home(x)) /\ Over(x, "broken", None)
    /\ UNCHANGED <<netVars, service, store, cauda, serving, crowded>>

(* The status is read; after an error the turn is given back, and then the   *)
(* status is read again, to be thrown.                                       *)
ReadStatus(x) ==
    LET e == Home(x)
    IN /\ At(x, "woken")
       /\ IF status[e] THEN Ende(e) /\ Goto(x, "refused")
                        ELSE Goto(x, "take") /\ UNCHANGED turn
       /\ UNCHANGED <<netVars, service, store, cauda, serving, result, crowded>>
ThrowStatus(x) ==
    /\ At(x, "refused")
    /\ IF status[Home(x)] THEN Over(x, "error", data[Home(x)])
                          ELSE Goto(x, "take") /\ UNCHANGED result
    /\ UNCHANGED <<netVars, endVars, cauda, serving, crowded>>

TakeData(x) ==
    LET e == Home(x)
    IN /\ At(x, "take")
       /\ origo' = [origo EXCEPT ![e] = data[e]]
       /\ data' = [data EXCEPT ![e] = None]
       /\ Goto(x, "read")
       /\ UNCHANGED <<netVars, service, inv, resp, status, cauda, serving, result, crowded>>

(* The caller reads the result through the deserializer and ends the call.   *)
ReadResult(x) ==
    LET e == Home(x)
    IN /\ At(x, "read")
       /\ Ende(e)
       /\ IF origo[e] = None THEN Over(x, "broken", None) ELSE Over(x, "ok", origo[e])
       /\ UNCHANGED <<netVars, service, store, cauda, serving, crowded>>

----------------------------------------------------------------------------
(* The dispatcher.                                                           *)
Deliver(e) ==
    /\ reading[e] /\ ~broken[e] /\ wire[e] # <<>> /\ canale[e]
    /\ wire' = [wire EXCEPT ![e] = Tail(@)]
    /\ cauda' = [cauda EXCEPT ![e] = Append(@, Head(wire[e]))]
    /\ UNCHANGED <<endVars, up, reading, sent, broken, serving, call, result, crowded>>

(* A receive or a send fails: the service is closed, then the caller is told *)
(* (TellBroken).                                                             *)
FindBroken(e) ==
    /\ ~broken[e]
    /\ \/ /\ reading[e] /\ ~up
          /\ reading' = [reading EXCEPT ![e] = FALSE] /\ UNCHANGED sent
       \/ /\ sent[e] /\ ~up
          /\ sent' = [sent EXCEPT ![e] = FALSE] /\ UNCHANGED reading
    /\ Clode(e, cauda[e])
    /\ broken' = [broken EXCEPT ![e] = TRUE]
    /\ UNCHANGED <<store, turn, wire, calls, closings, serving, call, result, crowded>>

TellBroken(e) ==
    /\ broken[e]
    /\ broken' = [broken EXCEPT ![e] = FALSE]
    /\ status' = [status EXCEPT ![e] = TRUE]
    /\ resp' = [resp EXCEPT ![e] = TRUE]
    /\ UNCHANGED <<service, up, wire, reading, sent, inv, data, origo, cauda, serving, call, result, crowded>>

(* The connection is lost.                                                   *)
Lose ==
    /\ up /\ up' = FALSE
    /\ UNCHANGED <<endVars, wire, reading, sent, broken, cauda, serving, call, result, crowded>>

----------------------------------------------------------------------------
(* The thread of a service's queue: _procede.                                *)
Ready(e, kind) == /\ serving[e] = None /\ cauda[e] # <<>> /\ Head(cauda[e]).kind = kind
Popped(e) == [cauda EXCEPT ![e] = Tail(@)]

Serve(e) ==
    /\ Ready(e, "call")
    /\ serving' = [serving EXCEPT ![e] = Head(cauda[e]).id]
    /\ cauda' = Popped(e)
    /\ UNCHANGED <<netVars, endVars, call, result, crowded>>

(* The method returns or throws, and the answer is sent; with no channel the *)
(* service is closed once more and an error stored. The code reads the       *)
(* channel (131) before it sends (133): a channel taken away in between is   *)
(* used once more and refuses, which closes the service again, and a send    *)
(* that fails with the channel still there (142-147) closes it for the first *)
(* time. Both leave what a channel lost first and found absent or broken     *)
(* leaves, so they are not steps of their own.                               *)
Respond(e) ==
    /\ serving[e] # None /\ At(e, "idle")
    /\ serving' = [serving EXCEPT ![e] = None]
    /\ \/ /\ canale[e]
          /\ \E error \in BOOLEAN : Transmit(e, Answer(serving[e], error))
          /\ UNCHANGED <<up, canale, labos, cauda, status, resp>>
       \/ /\ ~canale[e]
          /\ Clode(e, cauda[e])
          /\ status' = [status EXCEPT ![e] = TRUE]
          /\ resp' = [resp EXCEPT ![e] = TRUE]
          /\ UNCHANGED <<wire, sent>>
    /\ UNCHANGED <<reading, broken, calls, inv, data, origo, closings, call, result, crowded>>

StoreKeeping(e, m) == status
Store(e, m) == [status EXCEPT ![e] = m.error]
StoreAnswer(e) ==
    /\ Ready(e, "answer")
    /\ status' = Store(e, Head(cauda[e]))
    /\ data' = [data EXCEPT ![e] = Head(cauda[e])]
    /\ resp' = [resp EXCEPT ![e] = TRUE]
    /\ cauda' = Popped(e)
    /\ UNCHANGED <<netVars, service, inv, origo, serving, call, result, crowded>>

RunClosing(e) ==
    /\ Ready(e, "closing")
    /\ closings' = [closings EXCEPT ![e] = @ + 1]
    /\ cauda' = Popped(e)
    /\ UNCHANGED <<netVars, store, turn, calls, canale, labos, serving, call, result, crowded>>

(* The program closes a service.                                             *)
Close(e) ==
    /\ canale[e]
    /\ Clode(e, cauda[e])
    /\ UNCHANGED <<store, turn, wire, reading, sent, broken, calls, closings, serving, call, result, crowded>>

----------------------------------------------------------------------------
Proceed(x) == \/ TakeTurn(x) \/ GiveUp(x) \/ FindChannel(x) \/ NoChannel(x) \/ Send(x) \/ WakeUp(x)
              \/ TimeOut(x) \/ ReadStatus(x) \/ ThrowStatus(x) \/ TakeData(x) \/ ReadResult(x)
Dispatch(e) == Deliver(e) \/ FindBroken(e) \/ TellBroken(e)
Work(e) == Serve(e) \/ Respond(e) \/ StoreAnswer(e) \/ RunClosing(e)

Next == \/ \E x \in Actors : Initia(x) \/ Proceed(x)
        \/ \E e \in Ends : Dispatch(e) \/ Work(e) \/ Close(e)
        \/ Lose

(* Threads run and methods return; nobody has to call, to close or to break  *)
(* anything.                                                                 *)
Fairness == /\ \A x \in Actors : WF_vars(Proceed(x))
            /\ \A e \in Ends : WF_vars(Dispatch(e)) /\ WF_vars(Work(e))

Spec == Init /\ [][Next]_vars /\ Fairness

----------------------------------------------------------------------------
(* Properties.                                                               *)
Busy(e) == {x \in Actors : /\ Home(x) = e
                           /\ call[x].at \in {"exordi", "send", "wait", "woken", "take", "read"}}

(* One call at a time: as long as the service is open and no caller was      *)
(* overtaken while it was reading its refusal, whoever is in a call has the  *)
(* only turn, the signal is up only for a call that was sent, and the result *)
(* read is that of the caller's own call.                                    *)
OneCall == \A e \in Ends : canale[e] /\ e \notin crowded =>
    /\ inv[e] + Cardinality(Busy(e)) = 1
    /\ resp[e] => \E x \in Busy(e) : call[x].at \in {"wait", "woken", "take", "read"}
    /\ \A x \in Busy(e) : At(x, "read") => origo[e] = Answer(Id(x), FALSE)

(* A call that returns was answered without an error, and has its own        *)
(* answer; one that throws the method's exception was answered with an       *)
(* exception, or the channel is broken: as long as no caller of that service *)
(* was overtaken while it was reading its refusal.                           *)
AnswersOwn == \A x \in Actors :
    LET id == [by |-> x, n |-> result[x].n]
    IN Home(x) \notin crowded =>
         /\ result[x].how = "ok" => result[x].answer = Answer(id, FALSE)
         /\ result[x].how = "error" => result[x].answer = Answer(id, TRUE) \/ ~canale[Home(x)]

(* All calls end, whatever becomes of the channel, unless the thread of a    *)
(* queue is itself waiting for an answer, which it would have to store, or a *)
(* caller was overtaken.                                                     *)
Idle == \A x \in Actors : At(x, "idle")
Stuck == \E e \in Ends : call[e].at \in {"initia", "wait"}
CallsEnd == ~Idle ~> Idle \/ Stuck \/ crowded # {}

(* When one end is closed, or its channel breaks, both ends run their        *)
(* closing task, once, however many failures report the same end.            *)
ClosingRuns == (\E e \in Ends : ~canale[e]) ~> Stuck \/ [](\A e \in Ends : closings[e] = 1)
=============================================================================

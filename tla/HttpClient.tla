----------------------------- MODULE HttpClient -----------------------------
(***************************************************************************)
(* The HTTP client of the library (xv_lib/http.xv, xv_lib/http_sessio.xv). *)
(*                                                                         *)
(* A session keeps one connection and a queue of requests, which it sends  *)
(* one after another; a processor carries one request out, each step of it *)
(* the handler of a finished send or receive, run by the network engine's  *)
(* dispatcher.  What became of a request is told to its responder by a job *)
(* of the client's task queue.  The session manager keeps a table of       *)
(* sessions, hands each request to a living one or opens a new one, and a  *)
(* thread of its own closes the idle.  A download (oneratio) makes a       *)
(* request, makes it again when it fails, and follows redirections.        *)
(*                                                                         *)
(* All requests are downloads from one host: GET, without a body.  The     *)
(* manager puts the path alone in the place of a request's address, and an *)
(* address without a host is one of localhost: there are sessions of these *)
(* two hosts.  Bytes, headers and TLS are left out; an answer is the       *)
(* request it was sent for.  A lock held over no wait is one step; the     *)
(* manager's lock is held while its sessions are closed one by one.        *)
(***************************************************************************)
EXTENDS Integers, Sequences, FiniteSets, SequencesExt

CONSTANTS Threads,      \* the program's threads
          Dispatcher,   \* the thread of the network engine
          Queue,        \* the one thread of the client's task queue
          Timer,        \* the thread of the session manager
          None,
          Downloads,    \* numbered in the order they begin
          MaxRequests,  \* bound: requests made (making more fails)
          MaxSessions,  \* bound: sessions opened (the host is not found after)
          MaxFaults     \* bound: connections lost or refused

Actors == Threads \cup {Dispatcher, Queue, Timer}
Requests == 1 .. MaxRequests
Sessions == 1 .. MaxSessions

ASSUME Distinct == /\ Cardinality({Dispatcher, Queue, Timer}) = 3
                   /\ Threads \cap {Dispatcher, Queue, Timer} = {}
                   /\ None \notin Actors \cup Downloads \cup Nat
ASSUME Bounds == /\ MaxRequests \in Nat /\ MaxSessions \in Nat /\ MaxFaults \in Nat
                 /\ Downloads \subseteq Nat

VARIABLES
    session,    \* [Sessions -> fields of sessio and the state of its channel]
    opened,     \* number of sessions opened
    table,      \* sessiones._sessiones
    operating,  \* sessiones._operans
    lock,       \* sessiones._sync: None or its owner
    request,    \* [Requests -> where a request is, and what it was answered]
    made,       \* number of requests made
    reports,    \* the client's task queue
    load,       \* [Downloads -> fields of oneratio]
    call,       \* [Actors -> the call being made]
    faults,     \* connections lost or refused (history)
    raced       \* sessions resumed by two callers of require at once (history)

sessionVars == <<session, opened, table, operating, lock>>
vars == <<sessionVars, request, made, reports, load, call, faults, raced>>

----------------------------------------------------------------------------
NoSession == [status |-> "none", waiting |-> <<>>, busy |-> FALSE, queue |-> FALSE,
              channel |-> "none", local |-> FALSE]
NewSession(local) == [status |-> "creating", waiting |-> <<>>, busy |-> TRUE, queue |-> TRUE,
                      channel |-> "connecting", local |-> local]
NoRequest == [load |-> None, at |-> "unmade", session |-> None, code |-> "none",
              answer |-> None, taken |-> 0]
NewLoad == [state |-> "none", tries |-> 0, redirected |-> FALSE, final |-> None,
            content |-> {}, moved |-> FALSE]
Idle == [at |-> "idle", r |-> None, s |-> None]

Init ==
    /\ session = [s \in Sessions |-> NoSession]
    /\ opened = 0 /\ table = {} /\ operating = TRUE /\ lock = None
    /\ request = [r \in Requests |-> NoRequest]
    /\ made = 0
    /\ reports = <<>>
    /\ load = [d \in Downloads |-> NewLoad]
    /\ call = [a \in Actors |-> Idle]
    /\ faults = 0
    /\ raced = {}

Goto(a, at, r, s) == call' = [call EXCEPT ![a] = [at |-> at, r |-> r, s |-> s]]
Return(a) == call' = [call EXCEPT ![a] = Idle]
At(a, at) == call[a].at = at
Proceeding == {r \in Requests : request[r].at = "proceeding"}
Free(a) == At(a, "idle") /\ (a = Dispatcher => Proceeding = {})
Living(s) == session[s].status \in {"creating", "active"}
InFlight(s) == {r \in Requests : /\ request[r].session = s
                                 /\ request[r].at \in {"head", "proceeding", "content"}}

(* A report of each of the requests rs, if the session still has the queue. *)
Told(s, rs, how) == IF session[s].queue THEN reports \o [i \in 1 .. Len(rs) |->
                                                            [r |-> rs[i], how |-> how]]
                                        ELSE reports
Placed(rq, s, rs) == [r \in Requests |->
    IF r \in ToSet(rs) THEN [rq[r] EXCEPT !.at = IF session[s].queue THEN "told" ELSE "lost"]
                       ELSE rq[r]]

----------------------------------------------------------------------------
(* A download asks: oneratio._mitte, called by the program's thread that     *)
(* creates the download, by the dispatcher on a redirection and by the task  *)
(* queue after a failure.  ld is the download as the caller left it.         *)
Done(ld, r) == [ld EXCEPT !.state = "done", !.final = r]
Failed(ld) == [ld EXCEPT !.state = "failed", !.final = None]
Over(d) == load[d].state \in {"done", "failed"}

(* The exception leaves _mitte: the constructor lets it out, a responder     *)
(* ends the download with it.                                                *)
GivenUp(a, ld) == IF a \in Threads THEN [ld EXCEPT !.state = "thrown"] ELSE Failed(ld)

Tried(ld) == [ld EXCEPT !.tries = @ + 1]
Mitte(a, d, ld) ==
    IF made < MaxRequests
    THEN /\ made' = made + 1
         /\ request' = [request EXCEPT ![made + 1] = [@ EXCEPT !.load = d, !.at = "made"]]
         /\ load' = [load EXCEPT ![d] = Tried(ld)]
         /\ Goto(a, "ask", made + 1, None)
    ELSE /\ load' = [load EXCEPT ![d] = GivenUp(a, ld)]
         /\ Return(a)
         /\ UNCHANGED <<made, request>>

Start(t, d) ==
    /\ Free(t) /\ load[d].state = "none"
    /\ \A e \in Downloads : e < d => load[e].state # "none"
    /\ Mitte(t, d, [load[d] EXCEPT !.state = "running"])
    /\ UNCHANGED <<sessionVars, reports, faults, raced>>

(* require of the manager or of the session has thrown, which left the       *)
(* requests as in rq: the same request is tried again.                       *)
Thrown(a, rq) ==
    LET r == call[a].r
        d == request[r].load
    IN IF load[d].tries < 3
       THEN /\ load' = [load EXCEPT ![d] = Tried(@)]
            /\ Goto(a, "ask", r, None) /\ request' = rq
       ELSE /\ request' = [rq EXCEPT ![r].at = "refused"]
            /\ load' = [load EXCEPT ![d] = GivenUp(a, @)]
            /\ Return(a)

(* sessiones.require up to the moment it has a session.  The first thing it  *)
(* does is to leave the request its path alone: taken counts how often.      *)
Bare(r) == request[r].taken > 0
Taken(r) == [request EXCEPT ![r].taken = @ + 1]
Choosable(r) == {s \in table : Living(s) /\ session[s].local = Bare(r)}
Ask(a) ==
    /\ At(a, "ask") /\ lock = None
    /\ LET r == call[a].r
           NoneFound == operating /\ Choosable(r) = {}
       IN \/ /\ operating
             /\ \E s \in Choosable(r) : /\ \A s2 \in Choosable(r) : s2 <= s
                                       /\ Goto(a, "require", r, s)
             /\ request' = Taken(r)
             /\ UNCHANGED <<session, opened, table, load>>
          \/ /\ NoneFound /\ opened < MaxSessions
             /\ opened' = opened + 1
             /\ session' = [session EXCEPT ![opened + 1] = NewSession(Bare(r))]
             /\ table' = table \cup {opened + 1}
             /\ request' = Taken(r)
             /\ Goto(a, "require", r, opened + 1)
             /\ UNCHANGED load
          \/ /\ NoneFound /\ opened = MaxSessions
             /\ Thrown(a, Taken(r))
             /\ UNCHANGED <<session, opened, table>>
          \/ /\ ~operating
             /\ Thrown(a, request)
             /\ UNCHANGED <<session, opened, table>>
    /\ UNCHANGED <<operating, lock, made, reports, faults, raced>>

----------------------------------------------------------------------------
(* The session.  _siste and clode differ in the status and in what is        *)
(* reported of the requests left (Stop).                                     *)
Stopped(s, status) ==
    [session[s] EXCEPT !.status = status, !.busy = FALSE, !.waiting = <<>>, !.queue = FALSE,
                       !.channel = IF session[s].status # "creating" THEN "closed" ELSE @]

Resuming(s) == {b \in Actors : At(b, "resume") /\ call[b].s = s}

MustResumeAlways(s) == TRUE
MustResume(s) == ~session[s].busy

(* A session that is not living any more throws after _siste, which has      *)
(* nothing to report: its requests were told when it ended.                  *)
Require(a) ==
    /\ At(a, "require")
    /\ LET s == call[a].s
           r == call[a].r
       IN \/ /\ Living(s)
             /\ session' = [session EXCEPT ![s].waiting = Append(@, r)]
             /\ request' = [request EXCEPT ![r].at = "waiting", ![r].session = s]
             /\ IF MustResume(s) THEN Goto(a, "resume", None, s) ELSE Return(a)
             /\ raced' = IF ~session[s].busy /\ Resuming(s) # {} THEN raced \cup {s} ELSE raced
             /\ UNCHANGED load
          \/ /\ ~Living(s)
             /\ session' = [session EXCEPT ![s] = Stopped(s, "failed")]
             /\ Thrown(a, request)
             /\ UNCHANGED raced
    /\ UNCHANGED <<opened, table, operating, lock, made, reports, faults>>

(* A processor's step throws: its request is reported, then _siste is called. *)
Fails(a, r) ==
    LET s == request[r].session
    IN /\ reports' = Told(s, <<r>>, "failed")
       /\ request' = Placed(request, s, <<r>>)
       /\ Goto(a, "siste", None, s)

SendingIdle(s) == [session[s] EXCEPT !.status = "active", !.waiting = Tail(@)]
Sending(s) == [session[s] EXCEPT !.status = "active", !.waiting = Tail(@), !.busy = TRUE]

(* The next request is taken off the queue, and its processor sends it.      *)
Resume(a) ==
    /\ At(a, "resume")
    /\ LET s == call[a].s
           w == session[s].waiting
       IN \/ /\ Living(s) /\ w # <<>>
             /\ session' = [session EXCEPT ![s] = Sending(s)]
             /\ IF session[s].channel = "open"
                THEN /\ request' = [request EXCEPT ![Head(w)].at = "head"]
                     /\ Return(a) /\ UNCHANGED reports
                ELSE Fails(a, Head(w))
          \/ /\ ~Living(s) \/ w = <<>>
             /\ session' = [session EXCEPT ![s].status = IF @ = "creating" THEN "active" ELSE @,
                                           ![s].busy = FALSE]
             /\ Return(a) /\ UNCHANGED <<request, reports>>
    /\ UNCHANGED <<opened, table, operating, lock, made, load, faults, raced>>

LeftCleared(s) == <<>>
Left(s) == session[s].waiting
Stop(s, status, how) ==
    /\ session' = [session EXCEPT ![s] = Stopped(s, status)]
    /\ reports' = Told(s, Left(s), how)
    /\ request' = Placed(request, s, Left(s))

Siste(a) ==
    /\ At(a, "siste")
    /\ Stop(call[a].s, "failed", "failed")
    /\ Return(a)
    /\ UNCHANGED <<opened, table, operating, lock, made, load, faults, raced>>

----------------------------------------------------------------------------
(* The dispatcher runs the handlers of what the network has finished.        *)
Connected(s) ==
    /\ Free(Dispatcher) /\ session[s].channel = "connecting"
    /\ session' = [session EXCEPT ![s].channel = "open"]
    /\ Goto(Dispatcher, "resume", None, s)
    /\ UNCHANGED <<opened, table, operating, lock, request, made, reports, load,
                   faults, raced>>

(* _resume with an error: the request under way is none, then _siste.        *)
ConnectFails(s) ==
    /\ Free(Dispatcher) /\ session[s].channel = "connecting" /\ faults < MaxFaults
    /\ faults' = faults + 1
    /\ session' = [session EXCEPT ![s].channel = "closed", ![s].busy = FALSE]
    /\ Goto(Dispatcher, "siste", None, s)
    /\ UNCHANGED <<opened, table, operating, lock, request, made, reports, load, raced>>

Working(r, at) == /\ Free(Dispatcher) /\ request[r].at = at
                  /\ session[request[r].session].channel = "open"

(* ende(): the report, then _resume.                                         *)
Ende(rq, r) ==
    LET s == rq[r].session
    IN /\ reports' = Told(s, <<r>>, "done")
       /\ request' = Placed(rq, s, <<r>>)
       /\ Goto(Dispatcher, "resume", None, s)

(* An answer has a body to read, or the request is carried out.              *)
Answered(rq, r) ==
    \/ /\ request' = [rq EXCEPT ![r].at = "content"]
       /\ UNCHANGED <<reports, call>>
    \/ Ende(rq, r)

(* A download that is over has let go of its stream and its manager.         *)
Crashed(ld) == [ld EXCEPT !.state = "crashed"]
Asked(d, rq) == IF Over(d) THEN rq
                ELSE [rq EXCEPT ![made + 1] = [@ EXCEPT !.load = d, !.at = "made"]]

(* The head of an answer, and requisitum_praecompletum_est.  A redirection   *)
(* asks again, and exeque goes on after that (Proceed).  Two requests under  *)
(* way on one connection read each other's answers.                          *)
HeadRead(r) ==
    /\ Working(r, "head")
    /\ LET d == request[r].load
       IN \E q \in InFlight(request[r].session) :
          \/ /\ Answered([request EXCEPT ![r].answer = q,
                                         ![r].code = IF Over(d) THEN "unwanted" ELSE "ok"], r)
             /\ load' = [load EXCEPT ![d].redirected = FALSE]
             /\ UNCHANGED made
          \/ /\ made < MaxRequests
             /\ request' = Asked(d, [request EXCEPT ![r].answer = q, ![r].at = "proceeding",
                                                     ![r].code = "moved"])
             /\ made' = IF Over(d) THEN made ELSE made + 1
             /\ load' = [load EXCEPT ![d] =
                    IF Over(d) THEN Crashed(@)
                    ELSE [@ EXCEPT !.redirected = TRUE, !.moved = TRUE, !.tries = 1]]
             /\ IF Over(d) THEN UNCHANGED call ELSE Goto(Dispatcher, "ask", made + 1, None)
             /\ UNCHANGED reports
    /\ UNCHANGED <<sessionVars, faults, raced>>

Proceed(r) ==
    /\ At(Dispatcher, "idle") /\ r \in Proceeding
    /\ Answered(request, r)
    /\ UNCHANGED <<sessionVars, made, load, faults, raced>>

Written(r, ld) == [ld EXCEPT !.content = IF request[r].code = "ok" THEN @ \cup {r} ELSE @]
BodyRead(r) ==
    /\ Working(r, "content")
    /\ load' = [load EXCEPT ![request[r].load] = Written(r, @)]
    /\ Ende(request, r)
    /\ UNCHANGED <<sessionVars, made, faults, raced>>

(* An operation of a processor fails: the channel is closed, the connection  *)
(* is lost, or what two processors read makes no sense.                      *)
ExchangeFails(r) ==
    LET s == request[r].session
    IN /\ Free(Dispatcher) /\ request[r].at \in {"head", "content"}
       /\ \/ session[s].channel = "closed" /\ UNCHANGED <<session, faults>>
          \/ /\ session[s].channel = "open" /\ faults < MaxFaults
             /\ session' = [session EXCEPT ![s].channel = "closed"]
             /\ faults' = faults + 1
          \/ /\ session[s].channel = "open" /\ Cardinality(InFlight(s)) > 1
             /\ UNCHANGED <<session, faults>>
       /\ \/ UNCHANGED load
          \/ /\ request[r].at = "content"
             /\ load' = [load EXCEPT ![request[r].load] = Written(r, @)]
       /\ Fails(Dispatcher, r)
       /\ UNCHANGED <<opened, table, operating, lock, made, raced>>

----------------------------------------------------------------------------
(* The task queue runs the responders of the downloads.                      *)
AgainAppending(ld) == Tried(ld)
Again(ld) == Tried([ld EXCEPT !.content = {}])
Completed(r, ld) == IF ld.redirected THEN ld ELSE Done(ld, r)
Report ==
    /\ Free(Queue) /\ reports # <<>>
    /\ reports' = Tail(reports)
    /\ LET r == Head(reports).r
           how == Head(reports).how
           d == request[r].load
           again == how = "failed" /\ load[d].tries < 3
           told == [request EXCEPT ![r].at = "reported"]
       IN IF again /\ ~Over(d) /\ made < MaxRequests
          THEN /\ made' = made + 1
               /\ request' = Asked(d, told)
               /\ load' = [load EXCEPT ![d] = Again(@)]
               /\ Goto(Queue, "ask", made + 1, None)
          ELSE /\ request' = told
               /\ load' = [load EXCEPT ![d] = IF how = "done" THEN Completed(r, @)
                                              ELSE IF again /\ Over(d) THEN Crashed(@)
                                              ELSE Failed(@)]
               /\ UNCHANGED <<made, call>>
    /\ UNCHANGED <<sessionVars, faults, raced>>

----------------------------------------------------------------------------
(* The manager closes sessions: its thread the idle and the dead ones, the   *)
(* program all of them.                                                      *)
Unused(s) == ~session[s].busy /\ session[s].waiting = <<>>
Expire(s) ==
    /\ Free(Timer) /\ lock = None /\ operating /\ s \in table
    /\ Unused(s) \/ ~Living(s)
    /\ lock' = Timer
    /\ Goto(Timer, "clode", None, s)
    /\ UNCHANGED <<session, opened, table, operating, request, made, reports, load,
                   faults, raced>>

CloseExpired ==
    /\ At(Timer, "clode")
    /\ Stop(call[Timer].s, "closed", "cancelled")
    /\ table' = table \ {call[Timer].s}
    /\ lock' = None
    /\ Return(Timer)
    /\ UNCHANGED <<opened, operating, made, load, faults, raced>>

CloseManager(t) ==
    /\ Free(t) /\ lock = None /\ operating
    /\ lock' = t /\ operating' = FALSE
    /\ Goto(t, "closing", None, None)
    /\ UNCHANGED <<session, opened, table, request, made, reports, load, faults, raced>>

CloseNext(t) ==
    /\ At(t, "closing")
    /\ IF table = {}
       THEN lock' = None /\ Return(t) /\ UNCHANGED <<session, table, reports, request>>
       ELSE \E s \in table : /\ \A s2 \in table : s <= s2
                             /\ Stop(s, "closed", "cancelled")
                             /\ table' = table \ {s}
                             /\ UNCHANGED <<lock, call>>
    /\ UNCHANGED <<opened, operating, made, load, faults, raced>>

----------------------------------------------------------------------------
Carry(a) == Ask(a) \/ Require(a) \/ Resume(a) \/ Siste(a)
Network == \/ \E s \in Sessions : Connected(s) \/ ConnectFails(s)
           \/ \E r \in Requests : HeadRead(r) \/ BodyRead(r) \/ ExchangeFails(r) \/ Proceed(r)

Next ==
    \/ \E t \in Threads, d \in Downloads : Start(t, d)
    \/ \E a \in Actors : Carry(a)
    \/ Network
    \/ Report
    \/ \E s \in Sessions : Expire(s)
    \/ CloseExpired
    \/ \E t \in Threads : CloseManager(t) \/ CloseNext(t)

(* Threads run, the network answers or fails, and what has begun goes on;    *)
(* nobody has to start or to close anything.                                 *)
Fairness ==
    /\ \A a \in Actors : WF_vars(Carry(a))
    /\ WF_vars(Network) /\ WF_vars(Report) /\ WF_vars(CloseExpired)
    /\ \A t \in Threads : WF_vars(CloseNext(t))

Spec == Init /\ [][Next]_vars /\ Fairness

----------------------------------------------------------------------------
(* Properties.                                                               *)
Asking(a) == call[a].at \in {"ask", "require"}

(* A request is in one place: carried by one caller, once in one queue, or    *)
(* once among the reports; none is dropped on the way and none told twice.    *)
CarriedOnce ==
    /\ \A a \in Actors : Asking(a) => call[a].r \in Requests /\ request[call[a].r].at = "made"
    /\ \A a, b \in Actors : Asking(a) /\ Asking(b) /\ call[a].r = call[b].r => a = b
    /\ \A r \in Requests : request[r].at = "made" => \E a \in Actors : Asking(a) /\ call[a].r = r
WaitingOnce ==
    /\ \A s \in Sessions : \A i \in 1 .. Len(session[s].waiting) :
          request[session[s].waiting[i]].at = "waiting" /\ request[session[s].waiting[i]].session = s
    /\ \A s \in Sessions : \A i, k \in 1 .. Len(session[s].waiting) :
          session[s].waiting[i] = session[s].waiting[k] => i = k
    /\ \A r \in Requests : request[r].at = "waiting" =>
          \E i \in 1 .. Len(session[request[r].session].waiting) :
              session[request[r].session].waiting[i] = r
ToldOnce ==
    /\ \A i \in 1 .. Len(reports) : request[reports[i].r].at = "told"
    /\ \A i, k \in 1 .. Len(reports) : reports[i].r = reports[k].r => i = k
    /\ \A r \in Requests : request[r].at = "told" => \E i \in 1 .. Len(reports) : reports[i].r = r
InPlace == CarriedOnce /\ WaitingOnce /\ ToldOnce

(* A request waits only in a living session, and there somebody is going to   *)
(* send it: a request under way or a connection being made, whose handlers    *)
(* resume, a caller between the two halves of require, or one about to stop   *)
(* the session.                                                               *)
Stopping(s) == \E a \in Actors : At(a, "siste") /\ call[a].s = s
NobodyForgotten == \A s \in Sessions :
    /\ Living(s) /\ session[s].waiting # <<>> => session[s].busy \/ Resuming(s) # {} \/ Stopping(s)
    /\ Living(s) /\ session[s].busy => \/ session[s].channel = "connecting" \/ InFlight(s) # {}
                                       \/ Resuming(s) # {} \/ Stopping(s)
    /\ ~Living(s) => session[s].waiting = <<>>

(* One request is under way on a connection, unless two callers of require    *)
(* were both told to resume an idle session.                                  *)
OneAtATime == \A s \in Sessions \ raced : \A q, r \in InFlight(s) : q = r

(* The answer given to a request is the answer to that request, unless its    *)
(* session was resumed twice at once.                                         *)
AnswersOwn == \A r \in Requests :
    request[r].answer \in {None, r} \/ request[r].session \in raced

Sound(d) == load[d].final \in Requests =>
    /\ request[load[d].final].code = "ok"
    /\ load[d].content \subseteq {load[d].final}
(* The host a request was made for has answered it, unless require had to be  *)
(* called again after the manager had taken the address.                      *)
OfItsHost(r) == \A s \in Sessions :
    request[r].session = s /\ session[s].local => request[r].taken > 1
(* A download that was never redirected ends with the answer of its last      *)
(* request, its stream holds the content of that answer and of no earlier     *)
(* try, and nothing uses it after it let go of the stream and the manager.    *)
(* The answer is of the host asked for, however many sessions failed under    *)
(* earlier tries, unless a session died between the two calls of require      *)
(* (http_sessio.xv:163): then it may be of localhost.                         *)
DownloadsSound == \A d \in Downloads : ~load[d].moved =>
    /\ load[d].state # "crashed"
    /\ Over(d) => Sound(d)
    /\ load[d].final \in Requests => OfItsHost(load[d].final)
(* The same of every download: its status is the final one.                   *)
FinalStatus == \A d \in Downloads : Over(d) => Sound(d)

Lost(d) == \E r \in Requests : request[r].load = d /\ request[r].at = "lost"
(* Whoever waits for a download is woken in the end, unless the session was   *)
(* closed or stopped by another while a request of it was under way: the      *)
(* session has then forgotten the queue its outcome would be told to.         *)
DownloadsEnd == []<>(\A d \in Downloads : load[d].state = "running" => Lost(d))
=============================================================================

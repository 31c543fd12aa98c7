------------------------ MODULE RemoteCallsInvariant ------------------------
(***************************************************************************)
(* The inductive invariant of remote calls.  What a service knows of its   *)
(* own calls depends on what is under way between the two ends: a call on  *)
(* the wire, in the other end's queue or being served, and the answer on   *)
(* the wire or in the service's queue.  Unless a refused caller was        *)
(* overtaken, one thing at most is under way, it is of the call that waits *)
(* and has not been stored already, and as long as the service is open the *)
(* caller that waits is the one that has the turn.                         *)
(***************************************************************************)
EXTENDS RemoteCalls

Answers == {m \in Message : m.kind = "answer"}
Stages == {"idle", "initia", "exordi", "ended", "send", "wait", "woken", "refused", "take", "read"}

TypeOK ==
    /\ up \in BOOLEAN /\ canale \in [Ends -> BOOLEAN] /\ wire \in [Ends -> Seq(Message)]
    /\ reading \in [Ends -> BOOLEAN] /\ sent \in [Ends -> BOOLEAN] /\ broken \in [Ends -> BOOLEAN]
    /\ cauda \in [Ends -> Seq(Message \cup {ClosingTask})]
    /\ serving \in [Ends -> Ident \cup {None}]
    /\ inv \in [Ends -> Nat] /\ resp \in [Ends -> BOOLEAN] /\ status \in [Ends -> BOOLEAN]
    /\ data \in [Ends -> Answers \cup {None}] /\ origo \in [Ends -> Answers \cup {None}]
    /\ labos \in [Ends -> BOOLEAN] /\ closings \in [Ends -> Nat]
    /\ calls \in [Actors -> Nat] /\ call \in [Actors -> [at : Stages, n : Nat]]
    /\ result \in [Actors -> [n : Nat, how : {"none", "ok", "error", "broken"},
                              answer : Answers \cup {None}]]
    /\ crowded \subseteq Ends

----------------------------------------------------------------------------
(* What is under way for service e.                                         *)
One(q, kind) == \A i, k \in 1 .. Len(q) : q[i].kind = kind /\ q[k].kind = kind => i = k
Ids(q, kind) == {q[i].id : i \in {k \in 1 .. Len(q) : q[k].kind = kind}}

Some(x) == {x} \ {None}

Legs == {"called", "queued", "served", "answered", "returned"}
Way(e, leg) ==
    CASE leg = "called" -> Ids(wire[Other(e)], "call")
      [] leg = "queued" -> Ids(cauda[Other(e)], "call")
      [] leg = "served" -> Some(serving[Other(e)])
      [] leg = "answered" -> Ids(wire[e], "answer")
      [] leg = "returned" -> Ids(cauda[e], "answer")
UnderWay(e) == UNION {Way(e, leg) : leg \in Legs}

OneEach(e) == /\ One(wire[Other(e)], "call") /\ One(cauda[Other(e)], "call")
              /\ One(wire[e], "answer") /\ One(cauda[e], "answer")
Exclusive(e) == \A leg, other \in Legs : Way(e, leg) # {} /\ Way(e, other) # {} => leg = other
OneUnderWay(e) == OneEach(e) /\ Exclusive(e)

StoredFor(e) == {m.id : m \in Some(data[e])}

----------------------------------------------------------------------------
Of(e) == {x \in Actors : Home(x) = e}
In(x, stages) == call[x].at \in stages
Sending == {"send", "wait", "woken", "refused", "take", "read"}
Turning == {"exordi", "send", "wait", "woken", "take", "read"}

(* The calls under way and the answer kept are of the service's callers,    *)
(* and of calls they have made; a call not sent yet is not among them.      *)
Numbered == \A e \in Ends : \A id \in UnderWay(e) \cup StoredFor(e) :
    /\ Home(id.by) = e /\ id.n <= call[id.by].n
    /\ In(id.by, {"initia", "exordi", "send"}) => id.n < call[id.by].n

ClosedFirst ==
    /\ \A e \in Ends : broken[e] => ~canale[e]
    /\ \A x \in Actors : At(x, "ended") => ~canale[Home(x)]

(* A service, open or closed.                                               *)
OneSender(e) == \A x, y \in Of(e) : In(x, Sending) /\ In(y, Sending) => x = y
QuietWhile(e) == \A x \in Of(e) : In(x, {"send", "take", "read"}) => UnderWay(e) = {}
OwnUnderWay(e) == \A x \in Of(e) : In(x, {"wait", "woken", "refused"}) =>
                      /\ UnderWay(e) \subseteq {Id(x)}
                      /\ Id(x) \in StoredFor(e) => UnderWay(e) = {}
Told(e) == \A x \in Of(e) :
    In(x, {"woken", "refused"}) \/ (In(x, {"send", "wait"}) /\ resp[e]) =>
        status[e] \/ data[e] = Answer(Id(x), FALSE)
Takes(e) == \A x \in Of(e) : At(x, "take") => data[e] = Answer(Id(x), FALSE)
Reads(e) == \A x \in Of(e) : At(x, "read") => origo[e] \in {None, Answer(Id(x), FALSE)}
AnswerComes(e) == /\ OneUnderWay(e) /\ OneSender(e) /\ QuietWhile(e) /\ OwnUnderWay(e)
                  /\ Told(e) /\ Takes(e) /\ Reads(e)

(* An open service.                                                         *)
OneTurner(e) == \A x, y \in Of(e) : In(x, Turning) /\ In(y, Turning) => x = y
TurnFree(e) == \A x \in Of(e) : ~In(x, Turning)
TurnCounted(e) == inv[e] = IF TurnFree(e) THEN 1 ELSE 0
SignalForOne(e) == resp[e] => \E x \in Of(e) : In(x, {"wait", "woken", "take", "read"})
Awaited(e) == UnderWay(e) # {} => ~resp[e] /\ \E x \in Of(e) : At(x, "wait")
Kept(e) == \A x \in Of(e) : In(x, {"woken", "refused"}) \/ (At(x, "wait") /\ resp[e]) =>
               data[e] = Answer(Id(x), status[e])
RefusedAlone(e) == \A x \in Of(e) : At(x, "refused") => status[e] /\ TurnFree(e)
ReadsOwn(e) == \A x \in Of(e) : At(x, "read") => origo[e] = Answer(Id(x), FALSE)
OneTurn(e) == /\ OneTurner(e) /\ TurnCounted(e) /\ SignalForOne(e) /\ Awaited(e)
              /\ Kept(e) /\ RefusedAlone(e) /\ ReadsOwn(e)

Turns == \A e \in Ends : e \notin crowded => AnswerComes(e) /\ (canale[e] => OneTurn(e))

Core == TypeOK /\ Numbered /\ ClosedFirst /\ Turns /\ AnswersOwn
IInv == Core /\ OneCall
=============================================================================

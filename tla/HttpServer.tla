----------------------------- MODULE HttpServer -----------------------------
(***************************************************************************)
(* The HTTP server of the library (xv_lib/http_servus.xv).                 *)
(*                                                                         *)
(* An acceptor waits at each listener and makes a processor of every       *)
(* connection.  A processor is a job that runs whenever the operation it   *)
(* waits for is finished: it reads the head of a request, hands it to the  *)
(* pool to be parsed and announced to an extension, reads the body, asks   *)
(* the extension for the answer (in the pool), writes it and reads the     *)
(* next head.  Nobody holds a processor but the operation, the job or the  *)
(* thread that is busy with it; the counter labores says how many          *)
(* acceptors and processors there are, and clode waits until there are     *)
(* none.                                                                   *)
(*                                                                         *)
(* Bytes, headers and paths are left out: what a head says is chosen when  *)
(* it is parsed, how much is still to be read or written when it matters.  *)
(* The lock of the table of channels is held over no wait.  Extensions     *)
(* take their time, may throw, and do not close their own server.  The     *)
(* calls made of them for the request under way are kept as a history; the *)
(* last of them tells who the responsor is.                                *)
(***************************************************************************)
EXTENDS Integers, Sequences, FiniteSets

CONSTANTS Listeners,
          Connections,  \* bound: connections ever accepted
          Workers,      \* threads of the pool
          MaxAnnounced, \* bound: announcements of one request
          Dispatcher,   \* the thread of the network engine
          None

Runners == Workers \cup {Dispatcher}

ASSUME Distinct == /\ Dispatcher \notin Workers
                   /\ None \notin Connections
ASSUME BoundNat == MaxAnnounced \in Nat
ASSUME Finite == IsFiniteSet(Connections) /\ IsFiniteSet(Listeners)

VARIABLES
    phase,     \* the program's call of clode: "open", "raised", "deaf" (the
               \* listeners are closed), "waiting" (the channels are),
               \* "draining" (servus_finitus_est seen), "returned"
    listener,  \* [Listeners -> "open", "closing", "gone"]
    labores,
    finished,  \* servus_finitus_est
    canalia,   \* connections in the table of channels
    processor, \* [Connections -> fields of _processor]
    pool,      \* queue of the pool
    runner     \* [Runners -> the processor a thread is busy with, and where]

vars == <<phase, listener, labores, finished, canalia, processor, pool, runner>>

----------------------------------------------------------------------------
Unborn == [life |-> "unborn", modus |-> "head", io |-> "none", failed |-> FALSE,
           job |-> "none", open |-> FALSE, last |-> FALSE, calls |-> <<>>]
Born == [Unborn EXCEPT !.life = "alive", !.open = TRUE]
Gone == [Unborn EXCEPT !.life = "dead"]
Idle == [p |-> None, at |-> "idle"]

Init ==
    /\ phase = "open"
    /\ listener = [l \in Listeners |-> "open"]
    /\ labores = 1 + Cardinality(Listeners)
    /\ finished = FALSE
    /\ canalia = {}
    /\ processor = [c \in Connections |-> Unborn]
    /\ pool = <<>>
    /\ runner = [a \in Runners |-> Idle]

(* servus_closus_est, raised first of all by clode.                          *)
ClosedLast == phase \in {"draining", "returned"}
Closed == phase # "open"

At(a, at) == runner[a].at = at
Of(a) == runner[a].p
Goto(a, p, at) == runner' = [runner EXCEPT ![a] = [p |-> p, at |-> at]]
Leave(a) == runner' = [runner EXCEPT ![a] = Idle]
Becomes(p, new) == processor' = [processor EXCEPT ![p] = new]

(* decrema(): the last one raises servus_finitus_est.                        *)
Decrema == /\ labores' = labores - 1
           /\ finished' = (finished \/ labores = 1)

(* The process has fallen over a null pointer: nothing moves any more.       *)
Running == \A a \in Runners : ~At(a, "fallen")

(* The thread lets go of a processor nothing waits for: its destructor.      *)
Quit(a) ==
    /\ Becomes(Of(a), Gone)
    /\ Decrema
    /\ Leave(a)

----------------------------------------------------------------------------
(* _acceptor.exeque with a new channel: a processor, and its exordi().       *)
AcceptConnection(l, c) ==
    /\ At(Dispatcher, "idle") /\ listener[l] # "gone"
    /\ processor[c].life = "unborn"
    /\ labores' = labores + 1
    /\ Becomes(c, Born)
    /\ canalia' = canalia \cup {c}
    /\ Goto(Dispatcher, c, "procede")
    /\ UNCHANGED <<phase, listener, finished, pool>>

(* The engine drops the accept of a closed listener, and with it the acceptor. *)
AcceptorEnds(l) ==
    /\ At(Dispatcher, "idle") /\ listener[l] = "closing"
    /\ listener' = [listener EXCEPT ![l] = "gone"]
    /\ Decrema
    /\ UNCHANGED <<phase, canalia, processor, pool, runner>>

----------------------------------------------------------------------------
(* procede(): nothing once the server is closing; else the next operation.   *)
Procede(a) ==
    /\ At(a, "procede")
    /\ IF Closed THEN Quit(a)
       ELSE Goto(a, Of(a), "submit") /\ UNCHANGED <<processor, labores, finished>>
    /\ UNCHANGED <<phase, listener, canalia, pool>>

Reading == {"head", "body", "chunk", "piece"}
Submit(a) ==
    LET p == Of(a)
        pr == processor[p]
    IN /\ At(a, "submit")
       /\ \/ /\ pr.modus = "work"
             /\ pool' = Append(pool, p)
             /\ Becomes(p, [pr EXCEPT !.job = "exeque"])
             /\ Leave(a)
          \/ /\ pr.modus # "work" /\ pr.open
             /\ Becomes(p, [pr EXCEPT !.io = IF pr.modus \in Reading THEN "read" ELSE "write"])
             /\ Leave(a) /\ UNCHANGED pool
          \/ /\ pr.modus # "work" /\ ~pr.open
             /\ Goto(a, p, "clode") /\ UNCHANGED <<processor, pool>>
       /\ UNCHANGED <<phase, listener, labores, finished, canalia>>

(* clode() of a processor; then the thread lets go of it.                    *)
CloseSelf(a) ==
    /\ At(a, "clode")
    /\ Becomes(Of(a), Gone)
    /\ canalia' = canalia \ {Of(a)}
    /\ Decrema
    /\ Leave(a)
    /\ UNCHANGED <<phase, listener, pool>>

(* The network: an operation of an open channel may finish or fail, one of a *)
(* closed channel fails.  A request is over when its connection has failed.  *)
Finished(p, failed) ==
    /\ At(Dispatcher, "idle") /\ processor[p].io # "none"
    /\ Becomes(p, [processor[p] EXCEPT !.io = "none", !.failed = failed,
                                       !.calls = IF failed THEN <<>> ELSE @])
    /\ Goto(Dispatcher, p, "exeque")
    /\ UNCHANGED <<phase, listener, labores, finished, canalia, pool>>
Succeeds(p) == processor[p].open /\ Finished(p, FALSE)
Breaks(p) == processor[p].open /\ Finished(p, TRUE)
Cancelled(p) == ~processor[p].open /\ Finished(p, TRUE)

----------------------------------------------------------------------------
(* exeque(): one mode after another.  Each of these is entered only while    *)
(* the server is open and the operation succeeded.                           *)
Going(a, modus) == At(a, "exeque") /\ ~Closed /\ ~processor[Of(a)].failed
                   /\ processor[Of(a)].modus = modus
Unmoved == UNCHANGED <<phase, listener, labores, finished, canalia>>

ExequeEnds(a) ==
    /\ At(a, "exeque")
    /\ \/ Closed /\ Quit(a)
       \/ /\ ~Closed /\ processor[Of(a)].failed
          /\ Goto(a, Of(a), "clode")
          /\ UNCHANGED <<processor, labores, finished>>
    /\ UNCHANGED <<phase, listener, canalia, pool>>

(* A call of the extension to, or of the handler of errors.                  *)
Called(pr, to, what) == [pr EXCEPT !.calls = Append(@, [to |-> to, what |-> what])]
Responsor(pr) == pr.calls[Len(pr.calls)].to

(* responde_fatale: the request is announced to the handler of errors, which *)
(* may have it already.                                                      *)
Fatal(a, closing) ==
    /\ Becomes(Of(a), Called([processor[Of(a)] EXCEPT !.last = @ \/ closing],
                             "errors", "announced"))
    /\ Goto(a, Of(a), "errorInit")

(* Mode 00: the head is whole and goes to the pool, is too long, or the peer *)
(* has left.                                                                 *)
HandedOn(a) == Goto(a, Of(a), "procede")
Handed(a) == Leave(a)
HeadRead(a) ==
    LET p == Of(a)
    IN /\ Going(a, "head")
       /\ \/ /\ pool' = Append(pool, p)
             /\ Becomes(p, [processor[p] EXCEPT !.job = "parse"])
             /\ Handed(a)
          \/ Fatal(a, TRUE) /\ UNCHANGED pool
          \/ Goto(a, p, "clode") /\ UNCHANGED <<processor, pool>>
       /\ Unmoved

Continue(a, modus) ==
    /\ Becomes(Of(a), [processor[Of(a)] EXCEPT !.modus = modus])
    /\ Goto(a, Of(a), "procede")

(* Modes 01, 02 and 03: the body, whole or in pieces.  Every over-long        *)
(* length of a piece is announced as an error, and the reading begins anew.  *)
BodyRead(a) ==
    /\ \/ Going(a, "body") /\ Continue(a, "work")
       \/ Going(a, "chunk") /\ \/ Continue(a, "piece")
                               \/ Len(processor[Of(a)].calls) < MaxAnnounced /\ Fatal(a, TRUE)
       \/ Going(a, "piece") /\ \E modus \in {"chunk", "work"} : Continue(a, modus)
    /\ UNCHANGED pool /\ Unmoved

(* procede_data_in: where the body is, if the request has one.  A length     *)
(* that is none throws; where a length is missing the null pointer is read.  *)
DataIn(a) == \/ \E modus \in {"body", "chunk", "work"} : Continue(a, modus)
             \/ \E at \in {"clode", "fallen"} : Goto(a, Of(a), at) /\ UNCHANGED processor

(* Mode 30: the interim answer is written.                                   *)
ExpectWritten(a) ==
    /\ Going(a, "expect") /\ DataIn(a)
    /\ UNCHANGED pool /\ Unmoved

(* Mode 10, in the pool: the extension is asked for the answer.              *)
Work(a) ==
    /\ Going(a, "work")
    /\ Becomes(Of(a), Called(processor[Of(a)], Responsor(processor[Of(a)]), "asked"))
    /\ Goto(a, Of(a), "accept")
    /\ UNCHANGED pool /\ Unmoved

(* Modes 20 and 21: the head of the answer is written, then its body; then   *)
(* the connection is closed or reads the next head.  Whether the answer says *)
(* "close", for the peer or the extension, is chosen here, unless the server *)
(* has decided it before.                                                    *)
Cleared(pr) == [pr EXCEPT !.modus = "head", !.last = FALSE, !.calls = <<>>]
AnswerWritten(a) ==
    LET p == Of(a)
    IN /\ \/ Going(a, "answer") /\ Continue(a, "content")
          \/ /\ Going(a, "answer") \/ Going(a, "content")
             /\ \/ Goto(a, p, "clode") /\ UNCHANGED processor
                \/ /\ ~processor[p].last
                   /\ Becomes(p, Cleared(processor[p])) /\ Goto(a, p, "procede")
       /\ UNCHANGED pool /\ Unmoved

----------------------------------------------------------------------------
(* The pool.                                                                 *)
Take(w) ==
    /\ w \in Workers /\ At(w, "idle") /\ pool # <<>>
    /\ LET p == Head(pool)
       IN /\ Goto(w, p, processor[p].job)
          /\ Becomes(p, [processor[p] EXCEPT !.job = "none"])
    /\ pool' = Tail(pool)
    /\ Unmoved

(* The block that parses a head does not look at servus_closus_est.  The     *)
(* head is bad (the connection will be closed), its path has no extension,   *)
(* or it is announced to its extension; it may ask for the connection to be  *)
(* closed after the answer.                                                  *)
Parse(w) ==
    LET p == Of(w)
    IN /\ At(w, "parse")
       /\ \/ \E closing \in BOOLEAN : Fatal(w, closing)
          \/ /\ Becomes(p, Called(processor[p], "extension", "announced"))
             /\ Goto(w, p, "init")
       /\ UNCHANGED pool /\ Unmoved

(* requisitum_servi_initum_est returns or throws.  A peer that waits for     *)
(* leave to send the body is given it, or refused it (417) by the status the *)
(* extension has set.                                                        *)
InitReturns(w) ==
    /\ At(w, "init")
    /\ DataIn(w) \/ \E modus \in {"expect", "answer"} : Continue(w, modus)
    /\ UNCHANGED pool /\ Unmoved
InitThrows(w) ==
    /\ At(w, "init") /\ Fatal(w, FALSE)
    /\ UNCHANGED pool /\ Unmoved
ErrorInitReturns(a) ==
    /\ At(a, "errorInit") /\ DataIn(a)
    /\ UNCHANGED pool /\ Unmoved

(* requisitum_servi_acceptum_est returns, or throws and the handler of       *)
(* errors is asked in its place, a second time if it threw itself; what that *)
(* call throws is ignored.                                                   *)
AcceptReturns(w) ==
    /\ At(w, "accept") \/ At(w, "errorAccept")
    /\ Continue(w, "answer")
    /\ UNCHANGED pool /\ Unmoved
SubstituteNone(pr) == Responsor(pr)
Substitute(pr) == "errors"
AcceptThrows(w) ==
    /\ At(w, "accept")
    /\ Becomes(Of(w), Called(processor[Of(w)], Substitute(processor[Of(w)]), "asked"))
    /\ Goto(w, Of(w), "errorAccept")
    /\ UNCHANGED pool /\ Unmoved

----------------------------------------------------------------------------
(* clode() of the server.                                                    *)
RaiseClosed ==
    /\ phase = "open" /\ phase' = "raised"
    /\ Decrema
    /\ UNCHANGED <<listener, canalia, processor, pool, runner>>

CloseListener(l) ==
    /\ phase = "raised" /\ listener[l] = "open"
    /\ listener' = [listener EXCEPT ![l] = "closing"]
    /\ phase' = IF \E k \in Listeners \ {l} : listener[k] = "open" THEN phase ELSE "deaf"
    /\ UNCHANGED <<labores, finished, canalia, processor, pool, runner>>

CloseChannels ==
    /\ phase = "deaf" /\ phase' = "waiting"
    /\ processor' = [c \in Connections |-> IF c \in canalia THEN [processor[c] EXCEPT !.open = FALSE]
                                           ELSE processor[c]]
    /\ UNCHANGED <<listener, labores, finished, canalia, pool, runner>>

EverybodyGoneNow == TRUE
EverybodyGone == finished
SeeFinished ==
    /\ phase = "waiting" /\ EverybodyGone
    /\ phase' = "draining"
    /\ UNCHANGED <<listener, labores, finished, canalia, processor, pool, runner>>

CloseReturns ==
    /\ phase = "draining" /\ pool = <<>> /\ \A w \in Workers : At(w, "idle")
    /\ phase' = "returned"
    /\ UNCHANGED <<listener, labores, finished, canalia, processor, pool, runner>>

Closing == (\E l \in Listeners : CloseListener(l)) \/ CloseChannels \/ SeeFinished \/ CloseReturns

----------------------------------------------------------------------------
Run(a) == \/ Procede(a) \/ Submit(a) \/ CloseSelf(a) \/ ExequeEnds(a)
          \/ HeadRead(a) \/ BodyRead(a) \/ ExpectWritten(a) \/ Work(a) \/ AnswerWritten(a)
          \/ Take(a) \/ Parse(a) \/ InitReturns(a) \/ InitThrows(a) \/ ErrorInitReturns(a)
          \/ AcceptReturns(a) \/ AcceptThrows(a)

Next ==
    /\ Running
    /\ \/ \E l \in Listeners, c \in Connections : AcceptConnection(l, c)
       \/ \E l \in Listeners : AcceptorEnds(l)
       \/ \E c \in Connections : Succeeds(c) \/ Breaks(c) \/ Cancelled(c)
       \/ \E a \in Runners : Run(a)
       \/ RaiseClosed \/ Closing

(* Threads run and extensions return; whatever else the engine has to do, it *)
(* fails sooner or later something pending on a closed channel or listener.  *)
(* Peers may be silent for ever, and nobody has to close the server.         *)
Dropping == (\E c \in Connections : Cancelled(c)) \/ (\E l \in Listeners : AcceptorEnds(l))
Fairness ==
    /\ \A a \in Runners : WF_vars(Running /\ Run(a))
    /\ SF_vars(Running /\ Dropping)
    /\ WF_vars(Running /\ Closing)

Spec == Init /\ [][Next]_vars /\ Fairness

----------------------------------------------------------------------------
(* Properties.                                                               *)
Alive == {c \in Connections : processor[c].life = "alive"}
Handled(c) == {a \in Runners : Of(a) = c}
Queued(c) == {i \in 1 .. Len(pool) : pool[i] = c}

(* A living processor is held by exactly one operation, job or thread, and a *)
(* dead one by none.                                                         *)
HeldOnce == \A c \in Connections :
    Cardinality(Handled(c)) + Cardinality(Queued(c))
        + (IF processor[c].io # "none" THEN 1 ELSE 0) = IF c \in Alive THEN 1 ELSE 0

(* labores counts the processors, the acceptors and the server itself, and   *)
(* servus_finitus_est is raised when, and only when, all are gone for good.  *)
Counted ==
    /\ labores = Cardinality(Alive) + Cardinality({l \in Listeners : listener[l] # "gone"})
                 + (IF phase = "open" THEN 1 ELSE 0)
    /\ finished <=> labores = 0

(* A connection whose channel is open can be found by clode; when clode has  *)
(* been through the table, whatever is still open waits for nothing.         *)
Findable == \A c \in Alive :
    /\ c \in canalia
    /\ phase \in {"waiting", "draining", "returned"} /\ processor[c].io # "none" => ~processor[c].open

IInv == HeldOnce /\ Counted /\ Findable

(* When clode has returned, no thread is inside an extension and none will   *)
(* be: the program may destroy its extensions.                               *)
QuietAfterClose == phase = "returned" => /\ \A a \in Runners : At(a, "idle")
                                         /\ pool = <<>> /\ Alive = {}
                                         /\ \A l \in Listeners : listener[l] = "gone"

(* clode returns, whatever the peers do, unless the process falls.           *)
ClodeEnds == phase # "open" ~> phase = "returned" \/ ~Running

(* Extensions are called as the protocol of extensions says.                 *)
Protocol == INSTANCE ExtensionProtocol WITH
    calls <- [c \in Connections |-> processor[c].calls],
    closed <- (phase = "returned")
ImplementsProtocol == Protocol!Spec
=============================================================================

--------------------------- MODULE HttpServerProofs ---------------------------
(***************************************************************************)
(* Proofs about the HTTP server, for any number of connections, listeners  *)
(* and threads of the pool.  Everything a thread does with a processor is  *)
(* one of five moves: it stays with it, puts it into the pool, leaves it   *)
(* to the network, ends it, or takes one from the pool.                    *)
(***************************************************************************)
EXTENDS HttpServerInvariant, FiniteSetTheorems, SequenceTheorems, TLAPS

LEMMA AppendFacts ==
    ASSUME NEW S, NEW q \in Seq(S), NEW e \in S
    PROVE  /\ Append(q, e) \in Seq(S)
           /\ Len(q) \in Nat /\ Len(Append(q, e)) = Len(q) + 1
           /\ \A i \in 1 .. Len(q) : Append(q, e)[i] = q[i]
           /\ Append(q, e)[Len(q) + 1] = e
  BY AppendProperties, LenProperties

LEMMA TailFacts ==
    ASSUME NEW S, NEW q \in Seq(S), q # <<>>
    PROVE  /\ Len(q) \in Nat \ {0}
           /\ Head(q) \in S /\ Head(q) = q[1]
           /\ Tail(q) \in Seq(S)
           /\ Len(Tail(q)) = Len(q) - 1
           /\ \A i \in 1 .. Len(q) - 1 : Tail(q)[i] = q[i + 1]
  BY HeadTailProperties, LenProperties, EmptySeq

----------------------------------------------------------------------------
(* The calls made for a request.                                           *)

LEMMA CallsGrow ==
    ASSUME NEW q \in Seq(Calls), OnlyAnnounced(q), NEW to \in {"extension", "errors"}
    PROVE  /\ Begun(Append(q, [to |-> to, what |-> "announced"]))
           /\ AskedOnce(Append(q, [to |-> to, what |-> "asked"]))
<1>1. ASSUME NEW what \in {"announced", "asked"}
      PROVE  LET e == [to |-> to, what |-> what]
             IN  /\ Append(q, e) # <<>> /\ Len(Append(q, e)) = Len(q) + 1
                 /\ \A i \in 1 .. Len(q) : Append(q, e)[i] = q[i]
                 /\ Append(q, e)[Len(q) + 1].what = what
                 /\ Len(q) \in Nat
  <2>. DEFINE e == [to |-> to, what |-> what]
  <2>1. e \in Calls /\ e.what = what
    BY <1>1 DEF Calls
  <2>. HIDE DEF e
  <2>2. /\ Append(q, e) \in Seq(Calls) /\ Len(q) \in Nat /\ Len(Append(q, e)) = Len(q) + 1
        /\ \A i \in 1 .. Len(q) : Append(q, e)[i] = q[i]
        /\ Append(q, e)[Len(q) + 1] = e
    BY <2>1, AppendFacts
  <2>3. Append(q, e) # <<>>
    BY <2>2, EmptySeq
  <2>. QED
    BY <2>1, <2>2, <2>3 DEF e
<1>2. Begun(Append(q, [to |-> to, what |-> "announced"]))
  <2>. DEFINE r == Append(q, [to |-> to, what |-> "announced"])
  <2>1. /\ r # <<>> /\ Len(r) = Len(q) + 1 /\ \A i \in 1 .. Len(q) : r[i] = q[i]
        /\ r[Len(q) + 1].what = "announced" /\ Len(q) \in Nat
    BY <1>1
  <2>. HIDE DEF r
  <2>2. \A i \in 1 .. Len(q) : q[i].what = "announced"
    BY DEF OnlyAnnounced
  <2>3. \A i \in 1 .. Len(r) : i \in 1 .. Len(q) \/ i = Len(q) + 1
    BY <2>1
  <2>4. Begun(r)
    BY <2>1, <2>2, <2>3 DEF Begun, OnlyAnnounced
  <2>. QED
    BY <2>4 DEF r
<1>3. AskedOnce(Append(q, [to |-> to, what |-> "asked"]))
  <2>. DEFINE r == Append(q, [to |-> to, what |-> "asked"])
  <2>1. /\ r # <<>> /\ Len(r) = Len(q) + 1 /\ \A i \in 1 .. Len(q) : r[i] = q[i]
        /\ r[Len(q) + 1].what = "asked" /\ Len(q) \in Nat
    BY <1>1
  <2>. HIDE DEF r
  <2>2. \A i \in 1 .. Len(q) : q[i].what = "announced"
    BY DEF OnlyAnnounced
  <2>3. ASSUME NEW i \in 1 .. Len(r) PROVE r[i].what = "asked" <=> i = Len(r)
    <3>1. CASE i = Len(r)
      BY <2>1, <3>1
    <3>2. CASE i # Len(r)
      <4>1. i \in 1 .. Len(q)
        BY <2>1, <3>2
      <4>2. r[i].what = "announced"
        BY <2>1, <2>2, <4>1
      <4>. QED
        BY <3>2, <4>2
    <3>. QED
      BY <3>1, <3>2
  <2>4. AskedOnce(r)
    BY <2>1, <2>3 DEF AskedOnce
  <2>. QED
    BY <2>4 DEF r
<1>. QED
  BY <1>2, <1>3

LEMMA LatestTyped ==
    ASSUME NEW q \in Seq(Calls), q # <<>>
    PROVE  q[Len(q)].to \in {"extension", "errors"}
<1>1. Len(q) \in Nat /\ Len(q) # 0
  BY LenProperties, EmptySeq
<1>2. q[Len(q)] \in Calls
  BY <1>1, ElementOfSeq
<1>. QED
  BY <1>2 DEF Calls

LEMMA NoneYet == OnlyAnnounced(<<>>)
  BY EmptySeq DEF OnlyAnnounced

\* A call changes nothing of a processor but the history.
LEMMA CalledFacts ==
    ASSUME NEW pr \in Processor, NEW to \in {"extension", "errors"},
           NEW what \in {"announced", "asked"}
    PROVE  /\ Called(pr, to, what) \in Processor
           /\ Called(pr, to, what).calls = Append(pr.calls, [to |-> to, what |-> what])
           /\ Called(pr, to, what).life = pr.life /\ Called(pr, to, what).open = pr.open
           /\ Called(pr, to, what).io = pr.io
<1>. DEFINE q == Append(pr.calls, [to |-> to, what |-> what])
<1>1. q \in Seq(Calls)
  BY AppendFacts DEF Processor, Calls
<1>2. Called(pr, to, what) = [pr EXCEPT !.calls = q]
  BY DEF Called
<1>. HIDE DEF q
<1>3. [pr EXCEPT !.calls = q] \in Processor
  BY <1>1 DEF Processor
<1>4. /\ [pr EXCEPT !.calls = q].calls = q /\ [pr EXCEPT !.calls = q].life = pr.life
      /\ [pr EXCEPT !.calls = q].open = pr.open /\ [pr EXCEPT !.calls = q].io = pr.io
  BY DEF Processor
<1>. QED
  BY <1>2, <1>3, <1>4 DEF q

----------------------------------------------------------------------------
(* The moves.                                                              *)

\* What may become of a request in one step, by the protocol of extensions.
Grows(old, new, to, what) == new.calls = Append(old.calls, [to |-> to, what |-> what])
Serves(old, new) ==
    \/ new.calls = old.calls
    \/ old.calls = <<>> /\ Grows(old, new, "extension", "announced")
    \/ OnlyAnnounced(old.calls) /\ Grows(old, new, "errors", "announced")
    \/ Begun(old.calls) /\ Grows(old, new, Responsor(old), "asked")
    \/ AskedOnce(old.calls) /\ Grows(old, new, "errors", "asked")
    \/ new.calls = <<>>

Lives(old, new) == new.life = old.life /\ new.open = old.open

Stays(a) ==
    /\ \E at \in Places \ {"idle"}, new \in Processor :
         /\ Lives(processor[Of(a)], new) /\ new.io = processor[Of(a)].io
         /\ Serves(processor[Of(a)], new)
         /\ Fits(at, new)
         /\ at = "submit" => phase = "open"
         /\ Becomes(Of(a), new) /\ Goto(a, Of(a), at)
    /\ UNCHANGED pool /\ Unmoved

ToPool(a) ==
    /\ \E new \in Processor :
         /\ Lives(processor[Of(a)], new) /\ new.io = processor[Of(a)].io
         /\ Serves(processor[Of(a)], new)
         /\ JobFits(new)
         /\ Becomes(Of(a), new)
    /\ pool' = Append(pool, Of(a)) /\ Leave(a) /\ Unmoved

ToNetwork(a) ==
    /\ At(a, "submit") /\ processor[Of(a)].open
    /\ \E new \in Processor :
         /\ Lives(processor[Of(a)], new) /\ new.io # "none"
         /\ Serves(processor[Of(a)], new)
         /\ ByMode(new)
         /\ Becomes(Of(a), new)
    /\ Leave(a) /\ UNCHANGED pool /\ Unmoved

Ends(a) ==
    /\ \E new \in Processor :
         /\ new.life = "dead" /\ new.io = processor[Of(a)].io
         /\ new.calls = <<>>
         /\ Becomes(Of(a), new)
    /\ canalia' \in {canalia, canalia \ {Of(a)}}
    /\ Decrema /\ Leave(a) /\ UNCHANGED <<phase, listener, pool>>

LEMMA Holding ==
    ASSUME HInv, NEW a \in Runners, ~At(a, "idle")
    PROVE  /\ Of(a) \in Connections /\ Of(a) # None
           /\ processor[Of(a)] \in Processor
           /\ processor[Of(a)].life = "alive" /\ processor[Of(a)].io = "none"
           /\ Fits(runner[a].at, processor[Of(a)])
           /\ runner[a].at \in Places
  BY DEF HInv, TypeOK, Holders, Staged, Alive, At, Of

LEMMA Same ==
    ASSUME TypeOK, NEW p \in Connections
    PROVE  /\ UNCHANGED processor => Becomes(p, processor[p])
           /\ Lives(processor[p], processor[p]) /\ Serves(processor[p], processor[p])
           /\ processor[p] \in Processor
  BY DEF TypeOK, Becomes, Lives, Serves

\* A step that changes no more than where the thread is.
LEMMA JustGoes ==
    ASSUME HInv, NEW a \in Runners, ~At(a, "idle"), NEW at \in Places \ {"idle"},
           Fits(at, processor[Of(a)]), at = "submit" => phase = "open",
           Goto(a, Of(a), at), UNCHANGED <<processor, pool>>, Unmoved
    PROVE  Stays(a)
<1>1. TypeOK /\ Of(a) \in Connections
  BY Holding DEF HInv
<1>. QED
  BY <1>1, Same DEF Stays

----------------------------------------------------------------------------
(* Which action is which move.                                             *)

\* Nothing is left of a processor that is let go of.
LEMMA GoneFacts ==
    /\ Gone \in Processor /\ Gone.life = "dead" /\ Gone.io = "none" /\ Gone.calls = <<>>
    /\ Unborn \in Processor /\ Unborn.life = "unborn" /\ Unborn.io = "none" /\ Unborn.calls = <<>>
<1>1. <<>> \in Seq(Calls)
  BY EmptySeq
<1>2. Unborn \in Processor
  BY <1>1 DEF Unborn, Processor, Modes
<1>3. Unborn.life = "unborn" /\ Unborn.io = "none" /\ Unborn.calls = <<>>
  BY DEF Unborn
<1>4. Gone \in Processor /\ Gone.life = "dead" /\ Gone.io = "none" /\ Gone.calls = <<>>
  BY <1>2, <1>3 DEF Gone, Processor
<1>. QED
  BY <1>2, <1>3, <1>4

LEMMA ProcedeMoves ==
    ASSUME HInv, NEW a \in Runners, Procede(a)
    PROVE  Stays(a) \/ Ends(a)
<1>0. ~At(a, "idle") /\ At(a, "procede")
  BY DEF Procede, At
<1>1. CASE Closed
  <2>1. Quit(a) /\ UNCHANGED <<phase, listener, canalia, pool>>
    BY <1>1 DEF Procede
  <2>. QED
    BY <1>0, <2>1, Holding, GoneFacts DEF Quit, Ends
<1>2. CASE ~Closed
  <2>1. Goto(a, Of(a), "submit") /\ UNCHANGED <<processor, pool>> /\ Unmoved /\ phase = "open"
    BY <1>2 DEF Procede, Unmoved, Closed
  <2>2. Fits("submit", processor[Of(a)])
    BY <1>0, Holding DEF Fits, At
  <2>. QED
    BY <1>0, <2>1, <2>2, JustGoes DEF Places
<1>. QED
  BY <1>1, <1>2

LEMMA SubmitMoves ==
    ASSUME HInv, NEW a \in Runners, Submit(a)
    PROVE  Stays(a) \/ ToPool(a) \/ ToNetwork(a)
<1>. DEFINE pr == processor[Of(a)]
<1>0. ~At(a, "idle") /\ At(a, "submit") /\ Unmoved
  BY DEF Submit, At, Unmoved
<1>1. pr \in Processor /\ ByMode(pr)
  BY <1>0, Holding DEF Fits, At
<1>2. CASE /\ pool' = Append(pool, Of(a))
           /\ Becomes(Of(a), [pr EXCEPT !.job = "exeque"])
           /\ Leave(a)
  <2>. DEFINE new == [pr EXCEPT !.job = "exeque"]
  <2>1. new \in Processor /\ Lives(pr, new) /\ new.io = pr.io /\ Serves(pr, new)
    BY <1>1 DEF Processor, Lives, Serves
  <2>2. JobFits(new)
    BY <1>1 DEF Processor, JobFits, Fits, ByMode
  <2>. QED
    BY <1>0, <1>2, <2>1, <2>2 DEF ToPool
<1>3. CASE /\ pr.open
           /\ Becomes(Of(a), [pr EXCEPT !.io = IF pr.modus \in Reading THEN "read" ELSE "write"])
           /\ Leave(a) /\ UNCHANGED pool
  <2>. DEFINE new == [pr EXCEPT !.io = IF pr.modus \in Reading THEN "read" ELSE "write"]
  <2>1. new \in Processor /\ Lives(pr, new) /\ new.io # "none" /\ Serves(pr, new)
    BY <1>1 DEF Processor, Lives, Serves
  <2>2. ByMode(new)
    BY <1>1 DEF Processor, ByMode
  <2>. QED
    BY <1>0, <1>3, <2>1, <2>2 DEF ToNetwork
<1>4. CASE Goto(a, Of(a), "clode") /\ UNCHANGED <<processor, pool>>
  BY <1>0, <1>4, JustGoes DEF Places, Fits
<1>. QED
  BY <1>2, <1>3, <1>4 DEF Submit

LEMMA CloseSelfMoves ==
    ASSUME HInv, NEW a \in Runners, CloseSelf(a)
    PROVE  Ends(a)
<1>0. ~At(a, "idle")
  BY DEF CloseSelf, At
<1>. QED
  BY <1>0, Holding, GoneFacts DEF CloseSelf, Ends

LEMMA ExequeEndsMoves ==
    ASSUME HInv, NEW a \in Runners, ExequeEnds(a)
    PROVE  Stays(a) \/ Ends(a)
<1>0. ~At(a, "idle") /\ UNCHANGED <<phase, listener, canalia, pool>>
  BY DEF ExequeEnds, At
<1>1. CASE Quit(a)
  BY <1>0, <1>1, Holding, GoneFacts DEF Quit, Ends
<1>2. CASE Goto(a, Of(a), "clode") /\ UNCHANGED <<processor, labores, finished>>
  BY <1>0, <1>2, JustGoes DEF Places, Fits, Unmoved
<1>. QED
  BY <1>1, <1>2 DEF ExequeEnds

\* The handler of errors is announced a request whose answer nobody has been
\* asked for.
LEMMA FatalMoves ==
    ASSUME HInv, NEW a \in Runners, ~At(a, "idle"), NEW closing \in BOOLEAN, Fatal(a, closing),
           OnlyAnnounced(processor[Of(a)].calls),
           UNCHANGED pool, Unmoved
    PROVE  Stays(a)
<1>. DEFINE pr == processor[Of(a)]
            closed == [pr EXCEPT !.last = @ \/ closing]
            new == Called(closed, "errors", "announced")
<1>1. pr \in Processor
  BY Holding
<1>2. /\ closed \in Processor /\ closed.calls = pr.calls /\ closed.life = pr.life
      /\ closed.open = pr.open /\ closed.io = pr.io
  BY <1>1 DEF Processor
<1>3. Becomes(Of(a), new) /\ Goto(a, Of(a), "errorInit")
  BY DEF Fatal
<1>. HIDE DEF closed
<1>4. /\ new \in Processor /\ Lives(pr, new) /\ new.io = pr.io
      /\ new.calls = Append(pr.calls, [to |-> "errors", what |-> "announced"])
  BY <1>2, CalledFacts DEF Lives
<1>5. pr.calls \in Seq(Calls)
  BY <1>1 DEF Processor
<1>. HIDE DEF new
<1>6. Serves(pr, new)
  BY <1>4 DEF Serves, Grows
<1>7. Fits("errorInit", new)
  BY <1>4, <1>5, CallsGrow DEF Fits
<1>. QED
  BY <1>3, <1>4, <1>6, <1>7 DEF Stays, Places

\* A processor goes on to another mode while its request is being served.
LEMMA ContinueMoves ==
    ASSUME HInv, NEW a \in Runners, ~At(a, "idle"), NEW modus \in Modes \ {"head"},
           Continue(a, modus),
           Begun(processor[Of(a)].calls) \/ modus \in {"answer", "content"},
           UNCHANGED pool, Unmoved
    PROVE  Stays(a)
<1>. DEFINE pr == processor[Of(a)]
            new == [pr EXCEPT !.modus = modus]
<1>1. pr \in Processor
  BY Holding
<1>2. new \in Processor /\ Lives(pr, new) /\ new.io = pr.io /\ Serves(pr, new)
  BY <1>1 DEF Processor, Lives, Serves
<1>3. Fits("procede", new)
  BY <1>1 DEF Processor, Fits, ByMode, Modes
<1>4. Becomes(Of(a), new) /\ Goto(a, Of(a), "procede")
  BY DEF Continue
<1>. QED
  BY <1>2, <1>3, <1>4 DEF Stays, Places

LEMMA DataInMoves ==
    ASSUME HInv, NEW a \in Runners, ~At(a, "idle"), DataIn(a),
           Begun(processor[Of(a)].calls),
           UNCHANGED pool, Unmoved
    PROVE  Stays(a)
<1>1. CASE \E modus \in {"body", "chunk", "work"} : Continue(a, modus)
  BY <1>1, ContinueMoves DEF Modes
<1>2. CASE \E at \in {"clode", "fallen"} : Goto(a, Of(a), at) /\ UNCHANGED processor
  BY <1>2, JustGoes DEF Places, Fits
<1>. QED
  BY <1>1, <1>2 DEF DataIn

LEMMA GoingFacts ==
    ASSUME HInv, NEW a \in Runners, NEW modus \in Modes, Going(a, modus)
    PROVE  /\ ~At(a, "idle") /\ processor[Of(a)] \in Processor
           /\ processor[Of(a)].modus = modus /\ ~processor[Of(a)].failed
           /\ ByMode(processor[Of(a)])
  BY Holding DEF Going, At, Fits

LEMMA HeadReadMoves ==
    ASSUME HInv, NEW a \in Runners, HeadRead(a)
    PROVE  Stays(a) \/ ToPool(a)
<1>. DEFINE pr == processor[Of(a)]
<1>0. Going(a, "head") /\ Unmoved
  BY DEF HeadRead
<1>1. ~At(a, "idle") /\ pr \in Processor /\ pr.calls = <<>>
  BY <1>0, GoingFacts DEF Modes, ByMode
<1>2. CASE /\ pool' = Append(pool, Of(a))
           /\ Becomes(Of(a), [pr EXCEPT !.job = "parse"])
           /\ Handed(a)
  <2>. DEFINE new == [pr EXCEPT !.job = "parse"]
  <2>1. new \in Processor /\ Lives(pr, new) /\ new.io = pr.io /\ Serves(pr, new)
    BY <1>1 DEF Processor, Lives, Serves
  <2>2. JobFits(new)
    BY <1>1 DEF Processor, JobFits, Fits
  <2>. QED
    BY <1>0, <1>2, <2>1, <2>2 DEF ToPool, Handed
<1>3. CASE Fatal(a, TRUE) /\ UNCHANGED pool
  BY <1>0, <1>1, <1>3, NoneYet, FatalMoves
<1>4. CASE Goto(a, Of(a), "clode") /\ UNCHANGED <<processor, pool>>
  BY <1>0, <1>1, <1>4, JustGoes DEF Places, Fits
<1>. QED
  BY <1>2, <1>3, <1>4 DEF HeadRead

LEMMA BodyMoves ==
    ASSUME HInv, NEW a \in Runners, BodyRead(a) \/ ExpectWritten(a)
    PROVE  Stays(a)
<1>1. UNCHANGED pool /\ Unmoved
  BY DEF BodyRead, ExpectWritten
<1>2. ASSUME NEW m \in {"body", "chunk", "piece", "expect"}, Going(a, m)
      PROVE  ~At(a, "idle") /\ Begun(processor[Of(a)].calls)
  BY <1>2, GoingFacts DEF Modes, ByMode
<1>3. CASE Going(a, "body") /\ Continue(a, "work")
  BY <1>1, <1>2, <1>3, ContinueMoves DEF Modes
<1>4. CASE Going(a, "chunk") /\ (Continue(a, "piece") \/ Fatal(a, TRUE))
  BY <1>1, <1>2, <1>4, ContinueMoves, FatalMoves DEF Modes, Begun
<1>5. CASE Going(a, "piece") /\ \E modus \in {"chunk", "work"} : Continue(a, modus)
  BY <1>1, <1>2, <1>5, ContinueMoves DEF Modes
<1>6. CASE Going(a, "expect") /\ DataIn(a)
  BY <1>1, <1>2, <1>6, DataInMoves
<1>. QED
  BY <1>3, <1>4, <1>5, <1>6 DEF BodyRead, ExpectWritten

LEMMA WorkMoves ==
    ASSUME HInv, NEW a \in Runners, Work(a)
    PROVE  Stays(a)
<1>. DEFINE pr == processor[Of(a)]
            new == Called(pr, Responsor(pr), "asked")
<1>1. pr \in Processor /\ Begun(pr.calls)
  BY GoingFacts DEF Work, Modes, ByMode
<1>2. pr.calls \in Seq(Calls) /\ OnlyAnnounced(pr.calls) /\ pr.calls # <<>>
  BY <1>1 DEF Processor, Begun
<1>3. Responsor(pr) \in {"extension", "errors"}
  BY <1>2, LatestTyped DEF Responsor
<1>4. /\ new \in Processor /\ Lives(pr, new) /\ new.io = pr.io
      /\ new.calls = Append(pr.calls, [to |-> Responsor(pr), what |-> "asked"])
  BY <1>1, <1>3, CalledFacts DEF Lives
<1>5. Becomes(Of(a), new) /\ Goto(a, Of(a), "accept") /\ UNCHANGED pool /\ Unmoved
  BY DEF Work
<1>. HIDE DEF new
<1>6. Serves(pr, new)
  BY <1>1, <1>4 DEF Serves, Grows
<1>7. Fits("accept", new)
  BY <1>2, <1>3, <1>4, CallsGrow DEF Fits
<1>. QED
  BY <1>4, <1>5, <1>6, <1>7 DEF Stays, Places

LEMMA AnswerMoves ==
    ASSUME HInv, NEW a \in Runners, AnswerWritten(a)
    PROVE  Stays(a)
<1>. DEFINE pr == processor[Of(a)]
<1>0. UNCHANGED pool /\ Unmoved /\ (Going(a, "answer") \/ Going(a, "content"))
  BY DEF AnswerWritten
<1>1. ~At(a, "idle") /\ pr \in Processor
  BY <1>0, GoingFacts DEF Modes
<1>2. CASE Continue(a, "content")
  BY <1>0, <1>1, <1>2, ContinueMoves DEF Modes
<1>3. CASE Goto(a, Of(a), "clode") /\ UNCHANGED processor
  BY <1>0, <1>1, <1>3, JustGoes DEF Places, Fits
<1>4. CASE Becomes(Of(a), Cleared(pr)) /\ Goto(a, Of(a), "procede")
  <2>. DEFINE new == Cleared(pr)
  <2>1. /\ new \in Processor /\ Lives(pr, new) /\ new.io = pr.io
        /\ new.modus = "head" /\ new.calls = <<>>
    <3>1. new = [pr EXCEPT !.modus = "head", !.last = FALSE, !.calls = <<>>]
      BY DEF Cleared
    <3>. HIDE DEF new
    <3>2. "head" \in Modes /\ <<>> \in Seq(Calls)
      BY EmptySeq DEF Modes
    <3>3. new \in Processor
      BY <1>1, <3>1, <3>2 DEF Processor
    <3>. QED
      BY <1>1, <3>1, <3>3 DEF Processor, Lives
  <2>2. Serves(pr, new) /\ Fits("procede", new)
    <3>. HIDE DEF new
    <3>. QED
      BY <2>1 DEF Serves, Fits, ByMode
  <2>. QED
    BY <1>0, <1>4, <2>1, <2>2 DEF Stays, Places
<1>. QED
  BY <1>2, <1>3, <1>4 DEF AnswerWritten

LEMMA ParseMoves ==
    ASSUME HInv, NEW a \in Runners, Parse(a)
    PROVE  Stays(a)
<1>. DEFINE pr == processor[Of(a)]
<1>0. ~At(a, "idle") /\ UNCHANGED pool /\ Unmoved
  BY DEF Parse, At
<1>1. pr \in Processor /\ pr.calls = <<>>
  BY <1>0, Holding DEF Parse, At, Fits
<1>2. CASE \E closing \in BOOLEAN : Fatal(a, closing)
  BY <1>0, <1>1, <1>2, NoneYet, FatalMoves
<1>3. CASE Becomes(Of(a), Called(pr, "extension", "announced")) /\ Goto(a, Of(a), "init")
  <2>. DEFINE new == Called(pr, "extension", "announced")
  <2>1. /\ new \in Processor /\ Lives(pr, new) /\ new.io = pr.io
        /\ new.calls = Append(pr.calls, [to |-> "extension", what |-> "announced"])
    BY <1>1, CalledFacts DEF Lives
  <2>2. pr.calls \in Seq(Calls) /\ OnlyAnnounced(pr.calls)
    BY <1>1, NoneYet DEF Processor
  <2>3. Becomes(Of(a), new)
    BY <1>3
  <2>. HIDE DEF new
  <2>4. Serves(pr, new)
    BY <1>1, <2>1 DEF Serves, Grows
  <2>5. Fits("init", new)
    BY <2>1, <2>2, CallsGrow DEF Fits
  <2>. QED
    BY <1>0, <1>3, <2>1, <2>3, <2>4, <2>5 DEF Stays, Places
<1>. QED
  BY <1>2, <1>3 DEF Parse

LEMMA ExtensionMoves ==
    ASSUME HInv, NEW a \in Runners,
           \/ InitReturns(a) \/ InitThrows(a) \/ ErrorInitReturns(a)
           \/ AcceptReturns(a) \/ AcceptThrows(a)
    PROVE  Stays(a)
<1>. DEFINE pr == processor[Of(a)]
<1>0. ~At(a, "idle") /\ UNCHANGED pool /\ Unmoved
  BY DEF InitReturns, InitThrows, ErrorInitReturns, AcceptReturns, AcceptThrows, At
<1>1. pr \in Processor /\ Fits(runner[a].at, pr)
  BY <1>0, Holding
<1>2. CASE InitReturns(a)
  <2>1. Begun(pr.calls)
    BY <1>1, <1>2 DEF InitReturns, At, Fits
  <2>2. CASE DataIn(a)
    BY <1>0, <2>1, <2>2, DataInMoves
  <2>3. CASE \E modus \in {"expect", "answer"} : Continue(a, modus)
    BY <1>0, <2>1, <2>3, ContinueMoves DEF Modes
  <2>. QED
    BY <1>2, <2>2, <2>3 DEF InitReturns
<1>3. CASE InitThrows(a)
  <2>1. OnlyAnnounced(pr.calls)
    BY <1>1, <1>3 DEF InitThrows, At, Fits, Begun
  <2>. QED
    BY <1>0, <1>3, <2>1, FatalMoves DEF InitThrows
<1>4. CASE ErrorInitReturns(a)
  <2>1. Begun(pr.calls)
    BY <1>1, <1>4 DEF ErrorInitReturns, At, Fits
  <2>. QED
    BY <1>0, <1>4, <2>1, DataInMoves DEF ErrorInitReturns
<1>5. CASE AcceptReturns(a)
  BY <1>0, <1>5, ContinueMoves DEF AcceptReturns, Modes
<1>6. CASE AcceptThrows(a)
  <2>. DEFINE new == Called(pr, "errors", "asked")
  <2>1. AskedOnce(pr.calls)
    BY <1>1, <1>6 DEF AcceptThrows, At, Fits
  <2>2. /\ new \in Processor /\ Lives(pr, new) /\ new.io = pr.io
        /\ new.calls = Append(pr.calls, [to |-> "errors", what |-> "asked"])
    BY <1>1, CalledFacts DEF Lives
  <2>3. Becomes(Of(a), new) /\ Goto(a, Of(a), "errorAccept")
    BY <1>6 DEF AcceptThrows, Substitute
  <2>. HIDE DEF new
  <2>4. Serves(pr, new)
    BY <2>1, <2>2 DEF Serves, Grows
  <2>5. Fits("errorAccept", new)
    BY DEF Fits
  <2>. QED
    BY <1>0, <2>2, <2>3, <2>4, <2>5 DEF Stays, Places
<1>. QED
  BY <1>2, <1>3, <1>4, <1>5, <1>6

LEMMA RunMoves ==
    ASSUME HInv, NEW a \in Runners, Run(a), ~Take(a)
    PROVE  ~At(a, "idle") /\ (Stays(a) \/ ToPool(a) \/ ToNetwork(a) \/ Ends(a))
<1>1. ~At(a, "idle")
  BY DEF Run, Procede, Submit, CloseSelf, ExequeEnds, HeadRead, BodyRead, ExpectWritten, Work,
         AnswerWritten, Going, Parse, InitReturns, InitThrows, ErrorInitReturns, AcceptReturns,
         AcceptThrows, At
<1>. QED
  BY <1>1, ProcedeMoves, SubmitMoves, CloseSelfMoves, ExequeEndsMoves, HeadReadMoves, BodyMoves,
     WorkMoves, AnswerMoves, ParseMoves, ExtensionMoves DEF Run
----------------------------------------------------------------------------
(* What a move of one processor leaves alone.                              *)

LEMMA Become ==
    ASSUME TypeOK, NEW p \in Connections, NEW new \in Processor, Becomes(p, new)
    PROVE  /\ processor' \in [Connections -> Processor]
           /\ processor'[p] = new
           /\ \A c \in Connections \ {p} : processor'[c] = processor[c]
  BY DEF TypeOK, Becomes

LEMMA GoesTo ==
    ASSUME TypeOK, NEW a \in Runners, NEW p \in Connections \cup {None}, NEW at \in Places,
           Goto(a, p, at)
    PROVE  /\ runner' \in [Runners -> [p : Connections \cup {None}, at : Places]]
           /\ Of(a)' = p /\ runner'[a].at = at
           /\ \A b \in Runners \ {a} : runner'[b] = runner[b]
  BY DEF TypeOK, Goto, Of

LEMMA LeavesIt ==
    ASSUME TypeOK, NEW a \in Runners, Leave(a)
    PROVE  /\ runner' \in [Runners -> [p : Connections \cup {None}, at : Places]]
           /\ Of(a)' = None /\ runner'[a].at = "idle"
           /\ \A b \in Runners \ {a} : runner'[b] = runner[b]
  BY DEF TypeOK, Leave, Of, Idle, Places

LEMMA PoolTyped ==
    ASSUME TypeOK
    PROVE  /\ Len(pool) \in Nat
           /\ \A i \in 1 .. Len(pool) : pool[i] \in Connections
  BY LenProperties, ElementOfSeq DEF TypeOK

LEMMA StaysSafe ==
    ASSUME HInv, NEW a \in Runners, ~At(a, "idle"), Stays(a)
    PROVE  HInv'
<1>0. TypeOK /\ Holders /\ Jobs /\ Pending /\ Found /\ Counted /\ Reachable /\ Drained /\ Staged
  BY DEF HInv
<1>. DEFINE p == Of(a)
<1>1. PICK at \in Places \ {"idle"}, new \in Processor :
         /\ Lives(processor[p], new) /\ new.io = processor[p].io
         /\ Fits(at, new)
         /\ at = "submit" => phase = "open"
         /\ Becomes(p, new) /\ Goto(a, p, at)
  BY DEF Stays
<1>2. UNCHANGED <<pool, phase, listener, labores, finished, canalia>>
  BY DEF Stays, Unmoved
<1>3. p \in Connections /\ p # None /\ p \in Alive /\ processor[p].io = "none"
  BY Holding DEF Alive
<1>4. /\ processor' \in [Connections -> Processor]
      /\ processor'[p] = new
      /\ \A c \in Connections \ {p} : processor'[c] = processor[c]
  BY <1>0, <1>1, <1>3, Become
<1>5. /\ runner' \in [Runners -> [p : Connections \cup {None}, at : Places]]
      /\ Of(a)' = p /\ runner'[a].at = at
      /\ \A b \in Runners \ {a} : runner'[b] = runner[b]
  BY <1>0, <1>1, <1>3, GoesTo
<1>. HIDE DEF p
<1>6. \A c \in Connections : /\ processor'[c].life = processor[c].life
                             /\ processor'[c].open = processor[c].open
                             /\ processor'[c].io = processor[c].io
  BY <1>1, <1>4 DEF Lives
<1>7. Alive' = Alive
  BY <1>6 DEF Alive
<1>8. \A b \in Runners : Of(b)' = Of(b) /\ (At(b, "idle")' <=> At(b, "idle"))
  BY <1>1, <1>5 DEF Of, At, p
<1>9. \A b \in Runners \ {a} : Of(b) # p
  BY <1>0, <1>3 DEF Holders, p
<1>10. \A i \in 1 .. Len(pool) : pool[i] \in Connections \ {p}
  BY <1>0, PoolTyped DEF Jobs, p
<1>11. TypeOK'
  BY <1>0, <1>2, <1>4, <1>5 DEF TypeOK
<1>12. Holders'
  BY <1>0, <1>3, <1>6, <1>7, <1>8, <1>9 DEF Holders, p, Alive
<1>13. Jobs'
  BY <1>0, <1>2, <1>6, <1>7, <1>8, <1>10 DEF Jobs
<1>14. Pending'
  BY <1>0, <1>6, <1>7 DEF Pending
<1>15. Found'
  BY <1>0, <1>2, <1>6, <1>7, <1>8 DEF Found, Alive
<1>16. Counted'
  BY <1>0, <1>2, <1>7 DEF Counted
<1>17. Reachable'
  <2>1. SUFFICES ASSUME NEW c \in Alive,
                        phase \in {"waiting", "draining", "returned"},
                        processor[c].io # "none" \/ Submitting(c)'
                 PROVE  ~processor[c].open
    BY <1>0, <1>2, <1>6, <1>7 DEF Reachable, Alive
  <2>2. CASE processor[c].io # "none"
    BY <1>0, <2>1, <2>2 DEF Reachable
  <2>3. CASE Submitting(c)'
    <3>1. PICK b \in Runners : Of(b)' = c /\ At(b, "submit")'
      BY <2>3 DEF Submitting
    <3>2. b # a
      BY <1>1, <1>5, <2>1, <3>1 DEF At
    <3>3. Of(b) = c /\ At(b, "submit")
      BY <1>5, <1>8, <3>1, <3>2 DEF At
    <3>. QED
      BY <1>0, <2>1, <3>3 DEF Reachable, Submitting
  <2>. QED
    BY <2>1, <2>2, <2>3
<1>18. Drained'
  BY <1>0, <1>2 DEF Drained
<1>19. Staged'
  <2>1. ASSUME NEW b \in Runners, Of(b)' # None PROVE Fits(runner[b].at, processor[Of(b)])'
    <3>1. CASE b = a
      BY <1>1, <1>4, <1>5, <3>1 DEF Fits, ByMode
    <3>2. CASE b # a
      <4>1. Of(b) \in Connections \ {p} /\ Of(b) # None
        BY <1>0, <1>8, <1>9, <2>1, <3>2 DEF TypeOK, Of
      <4>2. processor'[Of(b)'] = processor[Of(b)] /\ runner'[b] = runner[b]
        BY <1>4, <1>5, <1>8, <3>2, <4>1
      <4>3. Fits(runner[b].at, processor[Of(b)])
        BY <1>0, <4>1 DEF Staged
      <4>. QED
        BY <4>2, <4>3 DEF Fits, ByMode
    <3>. QED
      BY <3>1, <3>2
  <2>2. ASSUME NEW c \in Connections, processor'[c].io # "none" PROVE ByMode(processor[c])'
    <3>1. c # p
      BY <1>3, <1>6, <2>2
    <3>. QED
      BY <1>0, <1>4, <2>2, <3>1 DEF Staged, ByMode
  <2>3. ASSUME NEW i \in 1 .. Len(pool) PROVE JobFits(processor[pool[i]])'
    BY <1>0, <1>2, <1>4, <1>10 DEF Staged, JobFits, Fits, ByMode, Begun, AskedOnce,
       OnlyAnnounced
  <2>. QED
    BY <1>2, <2>1, <2>2, <2>3 DEF Staged
<1>. QED
  BY <1>11, <1>12, <1>13, <1>14, <1>15, <1>16, <1>17, <1>18, <1>19 DEF HInv
LEMMA RunnerTyped ==
    ASSUME TypeOK
    PROVE  \A b \in Runners : runner[b].p \in Connections \cup {None} /\ runner[b].at \in Places
  BY DEF TypeOK

USE DEF Of, At

LEMMA ToPoolSafe ==
    ASSUME HInv, NEW a \in Runners, ~At(a, "idle"), ToPool(a)
    PROVE  HInv'
<1>0. TypeOK /\ Holders /\ Jobs /\ Pending /\ Found /\ Counted /\ Reachable /\ Drained /\ Staged
  BY DEF HInv
<1>. DEFINE p == Of(a)
            n == Len(pool)
<1>1. PICK new \in Processor :
         /\ Lives(processor[p], new) /\ new.io = processor[p].io
         /\ JobFits(new)
         /\ Becomes(p, new)
  BY DEF ToPool
<1>2. /\ UNCHANGED <<phase, listener, labores, finished, canalia>>
      /\ pool' = Append(pool, p) /\ Leave(a)
  BY DEF ToPool, Unmoved
<1>3. p \in Connections /\ p # None /\ p \in Alive /\ processor[p].io = "none"
  BY Holding DEF Alive
<1>4. /\ processor' \in [Connections -> Processor]
      /\ processor'[p] = new
      /\ \A c \in Connections \ {p} : processor'[c] = processor[c]
  BY <1>0, <1>1, <1>3, Become
<1>5. /\ runner' \in [Runners -> [p : Connections \cup {None}, at : Places]]
      /\ Of(a)' = None /\ runner'[a].at = "idle"
      /\ \A b \in Runners \ {a} : runner'[b] = runner[b]
  BY <1>0, <1>2, LeavesIt
<1>6. /\ pool' \in Seq(Connections) /\ n \in Nat /\ Len(pool') = n + 1
      /\ \A i \in 1 .. n : pool'[i] = pool[i]
      /\ pool'[n + 1] = p
  BY <1>0, <1>2, <1>3, AppendFacts DEF TypeOK
<1>. HIDE DEF p, n
<1>7. \A c \in Connections : /\ processor'[c].life = processor[c].life
                             /\ processor'[c].open = processor[c].open
                             /\ processor'[c].io = processor[c].io
  BY <1>1, <1>4 DEF Lives
<1>8. Alive' = Alive
  BY <1>7 DEF Alive
<1>9. \A b \in Runners \ {a} : /\ Of(b)' = Of(b) /\ Of(b) # p
                               /\ At(b, "idle")' <=> At(b, "idle")
  BY <1>0, <1>3, <1>5 DEF Of, At, Holders, p
<1>10. \A i \in 1 .. n : pool[i] \in Connections \ {p}
  BY <1>0, PoolTyped DEF Jobs, p, n
<1>11. TypeOK'
  BY <1>0, <1>2, <1>4, <1>5, <1>6 DEF TypeOK
<1>12. Holders'
  BY <1>0, <1>5, <1>7, <1>8, <1>9 DEF Holders, Alive, At
<1>13. Jobs'
  <2>1. ASSUME NEW i \in 1 .. Len(pool')
        PROVE  /\ pool'[i] \in Alive /\ processor'[pool'[i]].io = "none"
               /\ \A b \in Runners : Of(b)' # pool'[i]
    <3>1. CASE i = n + 1
      <4>1. pool'[i] = p
        BY <1>6, <3>1
      <4>2. \A b \in Runners : Of(b)' # p
        BY <1>3, <1>5, <1>9
      <4>. QED
        BY <1>3, <1>7, <4>1, <4>2
    <3>2. CASE i # n + 1
      <4>1. i \in 1 .. n
        BY <1>6, <3>2
      <4>2. /\ pool[i] \in Alive /\ processor[pool[i]].io = "none"
            /\ \A b \in Runners : Of(b) # pool[i]
        BY <1>0, <4>1 DEF Jobs, n
      <4>3. pool[i] # None
        BY <1>10, <4>1, Distinct
      <4>. QED
        BY <1>5, <1>6, <1>7, <1>9, <1>10, <4>1, <4>2, <4>3
    <3>. QED
      BY <3>1, <3>2
  <2>2. ASSUME NEW i \in 1 .. Len(pool'), NEW j \in 1 .. Len(pool'), pool'[i] = pool'[j]
        PROVE  i = j
    <3>1. (i \in 1 .. n \/ i = n + 1) /\ (j \in 1 .. n \/ j = n + 1)
      BY <1>6
    <3>2. \A k \in 1 .. n : pool'[k] = pool[k] /\ pool[k] # p
      BY <1>6, <1>10
    <3>. QED
      BY <1>0, <1>6, <2>2, <3>1, <3>2 DEF Jobs, n
  <2>. QED
    BY <1>8, <2>1, <2>2 DEF Jobs
<1>14. Pending'
  BY <1>0, <1>7, <1>8 DEF Pending
<1>15. Found'
  <2>1. ASSUME NEW c \in Alive
        PROVE  \/ processor'[c].io # "none"
               \/ \E b \in Runners : Of(b)' = c
               \/ \E i \in 1 .. Len(pool') : pool'[i] = c
    <3>1. CASE c = p
      BY <1>6, <3>1
    <3>2. CASE c # p
      <4>1. \/ processor[c].io # "none"
            \/ \E b \in Runners \ {a} : Of(b) = c
            \/ \E i \in 1 .. n : pool[i] = c
        BY <1>0, <2>1, <3>2 DEF Found, p, n
      <4>2. 1 .. n \subseteq 1 .. Len(pool')
        BY <1>6
      <4>3. ASSUME NEW b \in Runners \ {a}, Of(b) = c PROVE Of(b)' = c
        BY <1>9, <4>3
      <4>. QED
        BY <1>6, <1>7, <4>1, <4>2, <4>3 DEF Alive
    <3>. QED
      BY <3>1, <3>2
  <2>. QED
    BY <1>8, <2>1 DEF Found
<1>16. Counted'
  BY <1>0, <1>2, <1>8 DEF Counted
<1>17. Reachable'
  <2>1. \A c \in Alive : Submitting(c)' => Submitting(c)
    BY <1>5, <1>9 DEF Submitting, At
  <2>. QED
    BY <1>0, <1>2, <1>7, <1>8, <2>1 DEF Reachable, Alive
<1>18. Drained'
  BY <1>0, <1>2 DEF Drained
<1>19. Staged'
  <2>1. ASSUME NEW b \in Runners, Of(b)' # None PROVE Fits(runner[b].at, processor[Of(b)])'
    <3>1. b # a /\ Of(b)' = Of(b)
      BY <1>5, <1>9, <2>1
    <3>2. Of(b) \in Connections \ {p} /\ Of(b) # None
      <4>1. Of(b) # None /\ Of(b) # p
        BY <1>9, <2>1, <3>1
      <4>. QED
        BY <1>0, <4>1, RunnerTyped
    <3>3. processor'[Of(b)'] = processor[Of(b)] /\ runner'[b] = runner[b]
      BY <1>4, <1>5, <3>1, <3>2
    <3>4. Fits(runner[b].at, processor[Of(b)])
      BY <1>0, <3>2 DEF Staged
    <3>. QED
      BY <3>3, <3>4 DEF Fits, ByMode
  <2>2. ASSUME NEW c \in Connections, processor'[c].io # "none" PROVE ByMode(processor[c])'
    <3>1. c # p
      BY <1>3, <1>7, <2>2
    <3>. QED
      BY <1>0, <1>4, <2>2, <3>1 DEF Staged, ByMode
  <2>3. ASSUME NEW i \in 1 .. Len(pool') PROVE JobFits(processor'[pool'[i]])
    <3>1. CASE i = n + 1
      BY <1>1, <1>4, <1>6, <3>1
    <3>2. CASE i # n + 1
      <4>1. i \in 1 .. n
        BY <1>6, <3>2
      <4>2. processor'[pool'[i]] = processor[pool[i]]
        BY <1>4, <1>6, <1>10, <4>1
      <4>. QED
        BY <1>0, <4>1, <4>2 DEF Staged, n
    <3>. QED
      BY <3>1, <3>2
  <2>. QED
    BY <2>1, <2>2, <2>3 DEF Staged, JobFits, Fits, ByMode, Begun, AskedOnce,
       OnlyAnnounced
<1>. QED
  BY <1>11, <1>12, <1>13, <1>14, <1>15, <1>16, <1>17, <1>18, <1>19 DEF HInv

LEMMA ToNetworkSafe ==
    ASSUME HInv, NEW a \in Runners, ~At(a, "idle"), ToNetwork(a)
    PROVE  HInv'
<1>0. TypeOK /\ Holders /\ Jobs /\ Pending /\ Found /\ Counted /\ Reachable /\ Drained /\ Staged
  BY DEF HInv
<1>. DEFINE p == Of(a)
<1>1. PICK new \in Processor :
         /\ Lives(processor[p], new) /\ new.io # "none"
         /\ ByMode(new)
         /\ Becomes(p, new)
  BY DEF ToNetwork
<1>2. /\ UNCHANGED <<pool, phase, listener, labores, finished, canalia>>
      /\ Leave(a) /\ At(a, "submit") /\ processor[p].open
  BY DEF ToNetwork, Unmoved
<1>3. p \in Connections /\ p # None /\ p \in Alive /\ processor[p].io = "none"
  BY Holding DEF Alive
<1>4. /\ processor' \in [Connections -> Processor]
      /\ processor'[p] = new
      /\ \A c \in Connections \ {p} : processor'[c] = processor[c]
  BY <1>0, <1>1, <1>3, Become
<1>5. /\ runner' \in [Runners -> [p : Connections \cup {None}, at : Places]]
      /\ Of(a)' = None /\ runner'[a].at = "idle"
      /\ \A b \in Runners \ {a} : runner'[b] = runner[b]
  BY <1>0, <1>2, LeavesIt
<1>6. phase \notin {"waiting", "draining", "returned"}
  BY <1>0, <1>2, <1>3 DEF Reachable, Submitting
<1>. HIDE DEF p
<1>7. \A c \in Connections : /\ processor'[c].life = processor[c].life
                             /\ processor'[c].open = processor[c].open
  BY <1>1, <1>4 DEF Lives
<1>8. Alive' = Alive
  BY <1>7 DEF Alive
<1>9. \A b \in Runners \ {a} : /\ Of(b)' = Of(b) /\ Of(b) # p
                               /\ At(b, "idle")' <=> At(b, "idle")
  BY <1>0, <1>3, <1>5 DEF Of, At, Holders, p
<1>10. \A i \in 1 .. Len(pool) : pool[i] \in Connections \ {p}
  BY <1>0, PoolTyped DEF Jobs, p
<1>11. TypeOK'
  BY <1>0, <1>2, <1>4, <1>5 DEF TypeOK
<1>12. Holders'
  <2>1. ASSUME NEW b \in Runners, Of(b)' # None PROVE Of(b)' \in Alive /\ processor'[Of(b)'].io = "none"
    <3>1. b # a
      BY <1>5, <2>1
    <3>2. Of(b)' = Of(b) /\ Of(b) # p
      BY <1>9, <3>1
    <3>3. Of(b) \in Alive /\ processor[Of(b)].io = "none"
      BY <1>0, <2>1, <3>2 DEF Holders
    <3>. QED
      BY <1>4, <3>2, <3>3 DEF Alive
  <2>. QED
    BY <1>0, <1>5, <1>8, <1>9, <2>1 DEF Holders, At
<1>13. Jobs'
  <2>1. ASSUME NEW i \in 1 .. Len(pool)
        PROVE  /\ pool[i] \in Alive /\ processor'[pool[i]].io = "none"
               /\ \A b \in Runners : Of(b)' # pool[i]
    <3>1. /\ pool[i] \in Alive /\ processor[pool[i]].io = "none"
          /\ \A b \in Runners : Of(b) # pool[i]
      BY <1>0 DEF Jobs
    <3>2. pool[i] # None
      BY <1>10, Distinct
    <3>. QED
      BY <1>4, <1>5, <1>9, <1>10, <3>1, <3>2
  <2>. QED
    BY <1>0, <1>2, <1>8, <2>1 DEF Jobs
<1>14. Pending'
  BY <1>0, <1>3, <1>4, <1>8 DEF Pending
<1>15. Found'
  <2>1. ASSUME NEW c \in Alive
        PROVE  \/ processor'[c].io # "none"
               \/ \E b \in Runners : Of(b)' = c
               \/ \E i \in 1 .. Len(pool) : pool[i] = c
    <3>1. CASE c = p
      BY <1>1, <1>4, <3>1
    <3>2. CASE c # p
      <4>1. \/ processor[c].io # "none"
            \/ \E b \in Runners \ {a} : Of(b) = c
            \/ \E i \in 1 .. Len(pool) : pool[i] = c
        BY <1>0, <2>1, <3>2 DEF Found, p
      <4>3. ASSUME NEW b \in Runners \ {a}, Of(b) = c PROVE Of(b)' = c
        BY <1>9, <4>3
      <4>. QED
        BY <1>4, <3>2, <4>1, <4>3 DEF Alive
    <3>. QED
      BY <3>1, <3>2
  <2>. QED
    BY <1>2, <1>8, <2>1 DEF Found
<1>16. Counted'
  BY <1>0, <1>2, <1>8 DEF Counted
<1>17. Reachable'
  BY <1>0, <1>2, <1>6, <1>8 DEF Reachable
<1>18. Drained'
  BY <1>0, <1>2 DEF Drained
<1>19. Staged'
  <2>1. ASSUME NEW b \in Runners, Of(b)' # None PROVE Fits(runner'[b].at, processor'[Of(b)'])
    <3>1. b # a /\ Of(b)' = Of(b)
      BY <1>5, <1>9, <2>1
    <3>2. Of(b) \in Connections \ {p} /\ Of(b) # None
      <4>1. Of(b) # None /\ Of(b) # p
        BY <1>9, <2>1, <3>1
      <4>. QED
        BY <1>0, <4>1, RunnerTyped
    <3>3. processor'[Of(b)'] = processor[Of(b)] /\ runner'[b] = runner[b]
      BY <1>4, <1>5, <3>1, <3>2
    <3>. QED
      BY <1>0, <3>2, <3>3 DEF Staged
  <2>2. ASSUME NEW c \in Connections, processor'[c].io # "none" PROVE ByMode(processor'[c])
    BY <1>0, <1>1, <1>4, <2>2 DEF Staged
  <2>3. ASSUME NEW i \in 1 .. Len(pool) PROVE JobFits(processor'[pool[i]])
    BY <1>0, <1>4, <1>10 DEF Staged
  <2>. QED
    BY <1>2, <2>1, <2>2, <2>3 DEF Staged, JobFits, Fits, ByMode, Begun, AskedOnce,
       OnlyAnnounced
<1>. QED
  BY <1>11, <1>12, <1>13, <1>14, <1>15, <1>16, <1>17, <1>18, <1>19 DEF HInv

(* Counting: everybody is counted once and for all.                        *)
LEMMA CountFacts ==
    ASSUME Counted, listener \in [Listeners -> {"open", "closing", "gone"}]
    PROVE  /\ IsFiniteSet(Alive) /\ Cardinality(Alive) \in Nat
           /\ LET L == {l \in Listeners : listener[l] # "gone"}
              IN IsFiniteSet(L) /\ Cardinality(L) \in Nat
           /\ labores \in Nat
           /\ finished => Alive = {} /\ \A l \in Listeners : listener[l] = "gone"
<1>. DEFINE L == {l \in Listeners : listener[l] # "gone"}
<1>1. IsFiniteSet(Alive) /\ Cardinality(Alive) \in Nat
  BY Finite, FS_Subset, FS_CardinalityType DEF Alive
<1>2. IsFiniteSet(L) /\ Cardinality(L) \in Nat
  BY Finite, FS_Subset, FS_CardinalityType
<1>3. labores = Cardinality(Alive) + Cardinality(L) + (IF phase = "open" THEN 1 ELSE 0)
  BY DEF Counted
<1>4. labores \in Nat
  BY <1>1, <1>2, <1>3
<1>5. ASSUME finished PROVE Alive = {} /\ L = {}
  <2>1. labores = 0
    BY <1>5 DEF Counted
  <2>2. Cardinality(Alive) = 0 /\ Cardinality(L) = 0
    BY <1>1, <1>2, <1>3, <2>1
  <2>. QED
    BY <1>1, <1>2, <2>2, FS_EmptySet
<1>. QED
  BY <1>1, <1>2, <1>4, <1>5

(* A step of thread a with processor p disturbs no other thread and no     *)
(* other processor.                                                        *)
LEMMA OthersKeep ==
    ASSUME HInv, NEW a \in Runners, NEW p \in Connections,
           \A b \in Runners \ {a} : runner'[b] = runner[b] /\ Of(b) # p,
           \A c \in Connections \ {p} : processor'[c] = processor[c]
    PROVE  \A b \in Runners \ {a} :
              /\ Of(b)' = Of(b)
              /\ Of(b) # None =>
                    /\ Of(b) \in Alive /\ Of(b) # p
                    /\ processor'[Of(b)'].io = "none" /\ processor'[Of(b)'].life = "alive"
                    /\ Fits(runner'[b].at, processor'[Of(b)'])
<1>0. TypeOK /\ Holders /\ Staged
  BY DEF HInv
<1>1. SUFFICES ASSUME NEW b \in Runners \ {a}, Of(b) # None
               PROVE  /\ Of(b) \in Alive /\ Of(b) # p
                      /\ processor'[Of(b)].io = "none" /\ processor'[Of(b)].life = "alive"
                      /\ Fits(runner[b].at, processor'[Of(b)])
  OBVIOUS
<1>2. Of(b) \in Connections \ {p}
  BY <1>0, <1>1, RunnerTyped
<1>3. Of(b) \in Alive /\ processor[Of(b)].io = "none"
  BY <1>0, <1>1 DEF Holders
<1>. QED
  BY <1>0, <1>1, <1>2, <1>3 DEF Staged, Alive

LEMMA EndsSafe ==
    ASSUME HInv, NEW a \in Runners, ~At(a, "idle"), Ends(a)
    PROVE  HInv'
<1>0. TypeOK /\ Holders /\ Jobs /\ Pending /\ Found /\ Counted /\ Reachable /\ Drained /\ Staged
  BY DEF HInv
<1>. DEFINE p == Of(a)
<1>1. PICK new \in Processor :
         /\ new.life = "dead" /\ new.io = processor[p].io
         /\ Becomes(p, new)
  BY DEF Ends
<1>2. /\ UNCHANGED <<pool, phase, listener>>
      /\ canalia' \in {canalia, canalia \ {p}}
      /\ Decrema /\ Leave(a)
  BY DEF Ends
<1>3. p \in Connections /\ p # None /\ p \in Alive /\ processor[p].io = "none"
  BY Holding DEF Alive
<1>4. /\ processor' \in [Connections -> Processor]
      /\ processor'[p] = new
      /\ \A c \in Connections \ {p} : processor'[c] = processor[c]
  BY <1>0, <1>1, <1>3, Become
<1>5. /\ runner' \in [Runners -> [p : Connections \cup {None}, at : Places]]
      /\ Of(a)' = None /\ runner'[a].at = "idle"
      /\ \A b \in Runners \ {a} : runner'[b] = runner[b]
  BY <1>0, <1>2, LeavesIt
<1>6. \A b \in Runners \ {a} : Of(b) # p
  BY <1>0, <1>3 DEF Holders
<1>. HIDE DEF p
<1>7. Alive' = Alive \ {p}
  BY <1>1, <1>4 DEF Alive
<1>8. \A b \in Runners \ {a} :
        /\ Of(b)' = Of(b)
        /\ Of(b) # None =>
              /\ Of(b) \in Alive /\ Of(b) # p
              /\ processor'[Of(b)'].io = "none" /\ processor'[Of(b)'].life = "alive"
              /\ Fits(runner'[b].at, processor'[Of(b)'])
  BY <1>3, <1>4, <1>5, <1>6, OthersKeep
<1>9. \A i \in 1 .. Len(pool) : pool[i] \in Connections \ {p}
  BY <1>0, PoolTyped DEF Jobs, p
<1>10. labores \in Nat /\ Cardinality(Alive) \in Nat /\ IsFiniteSet(Alive)
  BY <1>0, CountFacts DEF TypeOK
<1>11. TypeOK'
  BY <1>0, <1>2, <1>4, <1>5, <1>10 DEF TypeOK, Decrema
<1>12. Holders'
  <2>1. \A b \in Runners : Of(b)' # None => b # a /\ Of(b)' = Of(b) /\ Of(b) # None
    BY <1>5, <1>8
  <2>2. \A b \in Runners : Of(b)' # None => Of(b)' \in Alive' /\ processor'[Of(b)'].io = "none"
    BY <1>7, <1>8, <2>1
  <2>3. \A b \in Runners : At(b, "idle")' <=> Of(b)' = None
    BY <1>0, <1>5 DEF Holders
  <2>4. \A b, d \in Runners : Of(b)' # None /\ Of(b)' = Of(d)' => b = d
    BY <1>0, <2>1 DEF Holders
  <2>. QED
    BY <2>2, <2>3, <2>4 DEF Holders
<1>13. Jobs'
  <2>1. ASSUME NEW i \in 1 .. Len(pool)
        PROVE  /\ pool[i] \in Alive' /\ processor'[pool[i]].io = "none"
               /\ \A b \in Runners : Of(b)' # pool[i]
    <3>1. /\ pool[i] \in Alive /\ processor[pool[i]].io = "none"
          /\ \A b \in Runners : Of(b) # pool[i]
      BY <1>0 DEF Jobs
    <3>2. pool[i] # None
      BY <1>9, Distinct
    <3>. QED
      BY <1>4, <1>5, <1>7, <1>8, <1>9, <3>1, <3>2
  <2>. QED
    BY <1>0, <1>2, <2>1 DEF Jobs
<1>14. Pending'
  BY <1>0, <1>1, <1>3, <1>4, <1>7 DEF Pending
<1>15. Found'
  <2>1. ASSUME NEW c \in Alive, c # p
        PROVE  \/ processor'[c].io # "none"
               \/ \E b \in Runners : Of(b)' = c
               \/ \E i \in 1 .. Len(pool) : pool[i] = c
    <3>1. \/ processor[c].io # "none"
          \/ \E b \in Runners \ {a} : Of(b) = c
          \/ \E i \in 1 .. Len(pool) : pool[i] = c
      BY <1>0, <2>1 DEF Found, p
    <3>. QED
      BY <1>4, <1>8, <2>1, <3>1 DEF Alive
  <2>. QED
    BY <1>2, <1>7, <2>1 DEF Found
<1>16. Counted'
  <2>. DEFINE m == Cardinality({l \in Listeners : listener[l] # "gone"})
              k == IF phase = "open" THEN 1 ELSE 0
  <2>1. Cardinality(Alive') = Cardinality(Alive) - 1
    BY <1>3, <1>7, <1>10, FS_RemoveElement
  <2>2. labores = Cardinality(Alive) + m + k /\ (finished <=> labores = 0) /\ finished \in BOOLEAN
    BY <1>0 DEF Counted, TypeOK
  <2>3. m \in Nat
    BY <1>0, CountFacts DEF TypeOK
  <2>4. labores' = labores - 1 /\ finished' = (finished \/ labores = 1)
    BY <1>2 DEF Decrema
  <2>5. m' = m /\ k' = k
    BY <1>2
  <2>6. Cardinality(Alive) # 0
    BY <1>3, <1>10, FS_EmptySet
  <2>7. ~finished
    BY <1>10, <2>2, <2>3, <2>6
  <2>. HIDE DEF m, k
  <2>8. labores' = Cardinality(Alive') + m + k
    BY <1>10, <2>1, <2>2, <2>3, <2>4 DEF k
  <2>9. finished' <=> labores' = 0
    <3>1. finished' <=> labores = 1
      BY <2>4, <2>7, Zenon
    <3>2. labores' = 0 <=> labores = 1
      BY <1>10, <2>4
    <3>. QED
      BY <3>1, <3>2
  <2>. QED
    BY <1>7, <2>5, <2>8, <2>9 DEF Counted, m, k
<1>17. Reachable'
  <2>1. ASSUME NEW c \in Alive, c # p, Submitting(c)' PROVE Submitting(c)
    <3>1. PICK b \in Runners : Of(b)' = c /\ At(b, "submit")'
      BY <2>1 DEF Submitting
    <3>2. b # a
      BY <1>5, <3>1
    <3>. QED
      BY <1>5, <1>8, <3>1, <3>2 DEF Submitting
  <2>2. Alive' \subseteq canalia'
    BY <1>0, <1>2, <1>7 DEF Reachable
  <2>3. \A c \in Alive' : c \in Alive /\ c # p /\ processor'[c] = processor[c]
    BY <1>4, <1>7 DEF Alive
  <2>. QED
    BY <1>0, <1>2, <2>1, <2>2, <2>3 DEF Reachable
<1>18. Drained'
  BY <1>0, <1>2 DEF Drained, Decrema
<1>19. Staged'
  <2>1. ASSUME NEW b \in Runners, Of(b)' # None PROVE Fits(runner'[b].at, processor'[Of(b)'])
    <3>1. b # a
      BY <1>5, <2>1
    <3>. QED
      BY <1>8, <2>1, <3>1
  <2>2. ASSUME NEW c \in Connections, processor'[c].io # "none" PROVE ByMode(processor'[c])
    BY <1>0, <1>1, <1>3, <1>4, <2>2 DEF Staged
  <2>3. ASSUME NEW i \in 1 .. Len(pool) PROVE JobFits(processor'[pool[i]])
    BY <1>0, <1>4, <1>9 DEF Staged
  <2>. QED
    BY <1>2, <2>1, <2>2, <2>3 DEF Staged, JobFits, Fits, ByMode, Begun, AskedOnce,
       OnlyAnnounced
<1>. QED
  BY <1>11, <1>12, <1>13, <1>14, <1>15, <1>16, <1>17, <1>18, <1>19 DEF HInv

LEMMA FinishedSafe ==
    ASSUME HInv, NEW p \in Connections, NEW failed \in BOOLEAN, Finished(p, failed)
    PROVE  HInv'
<1>0. TypeOK /\ Holders /\ Jobs /\ Pending /\ Found /\ Counted /\ Reachable /\ Drained /\ Staged
  BY DEF HInv
<1>. DEFINE a == Dispatcher
            q == IF failed THEN <<>> ELSE processor[p].calls
            new == [processor[p] EXCEPT !.io = "none", !.failed = failed, !.calls = q]
<1>1. /\ a \in Runners /\ At(a, "idle") /\ processor[p].io # "none"
      /\ Becomes(p, new) /\ Goto(a, p, "exeque")
      /\ UNCHANGED <<phase, listener, labores, finished, canalia, pool>>
  BY DEF Finished, Runners
<1>2. processor[p] \in Processor
  BY <1>0 DEF TypeOK
<1>3. /\ new \in Processor /\ Lives(processor[p], new) /\ new.io = "none"
      /\ new.failed = failed /\ new.calls = q /\ new.modus = processor[p].modus
  <2>1. q \in Seq(Calls)
    BY <1>2, EmptySeq DEF Processor
  <2>. HIDE DEF q
  <2>. QED
    BY <1>2, <2>1 DEF Processor, Lives
<1>4. Fits("exeque", new)
  <2>1. ByMode(processor[p])
    BY <1>0, <1>1 DEF Staged
  <2>2. q = IF failed THEN <<>> ELSE processor[p].calls
    OBVIOUS
  <2>. HIDE DEF q, new
  <2>. QED
    BY <1>3, <2>1, <2>2 DEF Fits, ByMode
<1>. HIDE DEF new
<1>5. /\ processor' \in [Connections -> Processor]
      /\ processor'[p] = new
      /\ \A c \in Connections \ {p} : processor'[c] = processor[c]
  BY <1>0, <1>1, <1>3, Become
<1>6. /\ runner' \in [Runners -> [p : Connections \cup {None}, at : Places]]
      /\ Of(a)' = p /\ runner'[a].at = "exeque"
      /\ \A b \in Runners \ {a} : runner'[b] = runner[b]
  BY <1>0, <1>1, GoesTo DEF Places
<1>. HIDE DEF a
<1>7. p # None /\ p \in Alive /\ Of(a) = None
  BY <1>0, <1>1, Distinct DEF Holders, Pending
<1>8. \A b \in Runners : Of(b) # p
  BY <1>0, <1>1, <1>7 DEF Holders
<1>9. Alive' = Alive
  BY <1>3, <1>5 DEF Alive, Lives
<1>10. \A b \in Runners \ {a} :
        /\ Of(b)' = Of(b)
        /\ Of(b) # None =>
              /\ Of(b) \in Alive /\ Of(b) # p
              /\ processor'[Of(b)'].io = "none" /\ processor'[Of(b)'].life = "alive"
              /\ Fits(runner'[b].at, processor'[Of(b)'])
  BY <1>1, <1>5, <1>6, <1>8, OthersKeep
<1>11. \A i \in 1 .. Len(pool) : pool[i] \in Connections \ {p}
  BY <1>0, <1>1, PoolTyped DEF Jobs
<1>12. TypeOK'
  BY <1>0, <1>1, <1>5, <1>6 DEF TypeOK
<1>13. Holders'
  <2>1. \A b \in Runners : Of(b)' # None => Of(b)' \in Alive' /\ processor'[Of(b)'].io = "none"
    BY <1>3, <1>5, <1>6, <1>7, <1>9, <1>10
  <2>2. \A b \in Runners : At(b, "idle")' <=> Of(b)' = None
    BY <1>0, <1>6, <1>7 DEF Holders
  <2>3. \A b, d \in Runners : Of(b)' # None /\ Of(b)' = Of(d)' => b = d
    BY <1>0, <1>6, <1>8, <1>10 DEF Holders
  <2>. QED
    BY <2>1, <2>2, <2>3 DEF Holders
<1>14. Jobs'
  <2>1. ASSUME NEW i \in 1 .. Len(pool)
        PROVE  /\ pool[i] \in Alive /\ processor'[pool[i]].io = "none"
               /\ \A b \in Runners : Of(b)' # pool[i]
    BY <1>0, <1>5, <1>6, <1>10, <1>11 DEF Jobs
  <2>. QED
    BY <1>0, <1>1, <1>9, <2>1 DEF Jobs
<1>15. Pending'
  BY <1>0, <1>3, <1>5, <1>9 DEF Pending
<1>16. Found'
  <2>1. ASSUME NEW c \in Alive
        PROVE  \/ processor'[c].io # "none"
               \/ \E b \in Runners : Of(b)' = c
               \/ \E i \in 1 .. Len(pool) : pool[i] = c
    <3>1. CASE c = p
      BY <1>1, <1>6, <3>1
    <3>2. CASE c # p
      <4>1. c \in Connections /\ c # None
        BY Distinct DEF Alive
      <4>2. \/ processor[c].io # "none"
            \/ \E b \in Runners \ {a} : Of(b) = c
            \/ \E i \in 1 .. Len(pool) : pool[i] = c
        BY <1>0, <1>7, <4>1 DEF Found
      <4>. QED
        BY <1>5, <1>10, <3>2, <4>1, <4>2
    <3>. QED
      BY <3>1, <3>2
  <2>. QED
    BY <1>1, <1>9, <2>1 DEF Found
<1>17. Counted'
  BY <1>0, <1>1, <1>9 DEF Counted
<1>18. Reachable'
  <2>1. ASSUME NEW c \in Alive, Submitting(c)' PROVE c # p /\ Submitting(c)
    <3>1. PICK b \in Runners : Of(b)' = c /\ At(b, "submit")'
      BY <2>1 DEF Submitting
    <3>2. b # a
      BY <1>6, <3>1
    <3>. QED
      BY <1>6, <1>8, <1>10, <3>1, <3>2 DEF Submitting
  <2>2. \A c \in Alive : /\ processor'[c].open = processor[c].open
                         /\ processor'[c].io # "none" => processor[c].io # "none"
    BY <1>3, <1>5 DEF Alive, Lives
  <2>. QED
    BY <1>0, <1>1, <1>9, <2>1, <2>2 DEF Reachable
<1>19. Drained'
  BY <1>0, <1>1 DEF Drained
<1>20. Staged'
  <2>1. ASSUME NEW b \in Runners, Of(b)' # None PROVE Fits(runner'[b].at, processor'[Of(b)'])
    BY <1>4, <1>5, <1>6, <1>10, <2>1
  <2>2. ASSUME NEW c \in Connections, processor'[c].io # "none" PROVE ByMode(processor'[c])
    BY <1>0, <1>3, <1>5, <2>2 DEF Staged
  <2>3. ASSUME NEW i \in 1 .. Len(pool) PROVE JobFits(processor'[pool[i]])
    BY <1>0, <1>5, <1>11 DEF Staged
  <2>. QED
    BY <1>1, <2>1, <2>2, <2>3 DEF Staged, JobFits, Fits, ByMode, Begun, AskedOnce,
       OnlyAnnounced
<1>. QED
  BY <1>12, <1>13, <1>14, <1>15, <1>16, <1>17, <1>18, <1>19, <1>20 DEF HInv

LEMMA TakeSafe ==
    ASSUME HInv, NEW a \in Runners, Take(a)
    PROVE  HInv'
<1>0. TypeOK /\ Holders /\ Jobs /\ Pending /\ Found /\ Counted /\ Reachable /\ Drained /\ Staged
  BY DEF HInv
<1>. DEFINE p == pool[1]
            n == Len(pool) - 1
            new == [processor[p] EXCEPT !.job = "none"]
<1>1. /\ n \in Nat /\ Len(pool) = n + 1 /\ Head(pool) = p /\ p \in Connections
      /\ pool' \in Seq(Connections) /\ Len(pool') = n
      /\ \A i \in 1 .. n : pool'[i] = pool[i + 1]
  BY <1>0, TailFacts DEF TypeOK, Take
<1>2. /\ At(a, "idle") /\ Goto(a, p, processor[p].job) /\ Becomes(p, new)
      /\ UNCHANGED <<phase, listener, labores, finished, canalia>>
  BY <1>1 DEF Take, Unmoved
<1>3. processor[p] \in Processor /\ JobFits(processor[p])
  BY <1>0, <1>1 DEF TypeOK, Staged
<1>4. new \in Processor /\ Lives(processor[p], new) /\ new.io = processor[p].io
  BY <1>3 DEF Processor, Lives
<1>. DEFINE at == processor[p].job
<1>5. Fits(at, new) /\ at \in {"parse", "exeque"}
  BY <1>3 DEF Processor, JobFits, Fits, ByMode
<1>. HIDE DEF new, at
<1>6. /\ processor' \in [Connections -> Processor]
      /\ processor'[p] = new
      /\ \A c \in Connections \ {p} : processor'[c] = processor[c]
  BY <1>0, <1>1, <1>2, <1>4, Become
<1>7. /\ runner' \in [Runners -> [p : Connections \cup {None}, at : Places]]
      /\ Of(a)' = p /\ runner'[a].at = at
      /\ \A b \in Runners \ {a} : runner'[b] = runner[b]
  BY <1>0, <1>1, <1>2, <1>5, GoesTo DEF Places, at
<1>8. /\ p # None /\ p \in Alive /\ Of(a) = None /\ processor[p].io = "none"
      /\ \A b \in Runners : Of(b) # p
      /\ \A i \in 1 .. n : pool[i + 1] # p
  <2>1. \A i \in 1 .. n : i + 1 \in 1 .. Len(pool) /\ i + 1 # 1
    BY <1>1
  <2>2. 1 \in 1 .. Len(pool)
    BY <1>1
  <2>. QED
    BY <1>0, <1>1, <1>2, <2>1, <2>2, Distinct DEF Holders, Jobs
<1>9. \A i \in 1 .. n : i + 1 \in 1 .. Len(pool)
  BY <1>1
<1>. HIDE DEF p, n
<1>10. Alive' = Alive
  BY <1>4, <1>6 DEF Alive, Lives
<1>11. \A b \in Runners \ {a} :
        /\ Of(b)' = Of(b)
        /\ Of(b) # None =>
              /\ Of(b) \in Alive /\ Of(b) # p
              /\ processor'[Of(b)'].io = "none" /\ processor'[Of(b)'].life = "alive"
              /\ Fits(runner'[b].at, processor'[Of(b)'])
  BY <1>1, <1>6, <1>7, <1>8, OthersKeep
<1>12. \A i \in 1 .. n : pool'[i] = pool[i + 1] /\ pool'[i] \in Connections \ {p}
  BY <1>0, <1>1, <1>8, <1>9, PoolTyped
<1>13. TypeOK'
  BY <1>0, <1>1, <1>2, <1>6, <1>7 DEF TypeOK
<1>14. Holders'
  <2>1. \A b \in Runners : Of(b)' # None => Of(b)' \in Alive' /\ processor'[Of(b)'].io = "none"
    BY <1>4, <1>6, <1>7, <1>8, <1>10, <1>11
  <2>2. \A b \in Runners : At(b, "idle")' <=> Of(b)' = None
    BY <1>0, <1>5, <1>7, <1>8 DEF Holders
  <2>3. \A b, d \in Runners : Of(b)' # None /\ Of(b)' = Of(d)' => b = d
    BY <1>0, <1>7, <1>8, <1>11 DEF Holders
  <2>. QED
    BY <2>1, <2>2, <2>3 DEF Holders
<1>15. Jobs'
  <2>1. ASSUME NEW i \in 1 .. n
        PROVE  /\ pool'[i] \in Alive /\ processor'[pool'[i]].io = "none"
               /\ \A b \in Runners : Of(b)' # pool'[i]
    BY <1>0, <1>6, <1>7, <1>9, <1>11, <1>12 DEF Jobs
  <2>2. ASSUME NEW i \in 1 .. n, NEW j \in 1 .. n, pool'[i] = pool'[j]
        PROVE  i = j
    <3>1. i + 1 = j + 1
      BY <1>0, <1>9, <1>12, <2>2 DEF Jobs
    <3>. QED
      BY <1>1, <3>1
  <2>. QED
    BY <1>1, <1>10, <2>1, <2>2 DEF Jobs
<1>16. Pending'
  BY <1>0, <1>4, <1>6, <1>8, <1>10 DEF Pending
<1>17. Found'
  <2>1. ASSUME NEW c \in Alive
        PROVE  \/ processor'[c].io # "none"
               \/ \E b \in Runners : Of(b)' = c
               \/ \E i \in 1 .. n : pool'[i] = c
    <3>1. CASE c = p
      BY <1>7, <3>1
    <3>2. CASE c # p
      <4>1. c \in Connections /\ c # None
        BY Distinct DEF Alive
      <4>2. \/ processor[c].io # "none"
            \/ \E b \in Runners \ {a} : Of(b) = c
            \/ \E i \in 1 .. Len(pool) : pool[i] = c
        BY <1>0, <1>8, <4>1 DEF Found
      <4>3. ASSUME NEW i \in 1 .. Len(pool), pool[i] = c PROVE \E j \in 1 .. n : pool'[j] = c
        <5>1. i # 1
          BY <3>2, <4>3 DEF p
        <5>2. i - 1 \in 1 .. n /\ (i - 1) + 1 = i
          BY <1>1, <5>1
        <5>. QED
          BY <1>12, <4>3, <5>2
      <4>. QED
        BY <1>6, <1>11, <3>2, <4>1, <4>2, <4>3
    <3>. QED
      BY <3>1, <3>2
  <2>. QED
    BY <1>1, <1>10, <2>1 DEF Found
<1>18. Counted'
  BY <1>0, <1>2, <1>10 DEF Counted
<1>19. Reachable'
  <2>1. ASSUME NEW c \in Alive, Submitting(c)' PROVE Submitting(c)
    <3>1. PICK b \in Runners : Of(b)' = c /\ At(b, "submit")'
      BY <2>1 DEF Submitting
    <3>2. b # a
      BY <1>5, <1>7, <3>1
    <3>. QED
      BY <1>7, <1>11, <3>1, <3>2 DEF Submitting
  <2>2. \A c \in Alive : /\ processor'[c].open = processor[c].open
                         /\ processor'[c].io = processor[c].io
    BY <1>4, <1>6 DEF Alive, Lives
  <2>. QED
    BY <1>0, <1>2, <1>10, <2>1, <2>2 DEF Reachable
<1>20. Drained'
  BY <1>0, <1>2 DEF Drained
<1>21. Staged'
  <2>1. ASSUME NEW b \in Runners, Of(b)' # None PROVE Fits(runner'[b].at, processor'[Of(b)'])
    BY <1>5, <1>6, <1>7, <1>11, <2>1
  <2>2. ASSUME NEW c \in Connections, processor'[c].io # "none" PROVE ByMode(processor'[c])
    BY <1>0, <1>4, <1>6, <1>8, <2>2 DEF Staged
  <2>3. ASSUME NEW i \in 1 .. n PROVE JobFits(processor'[pool'[i]])
    BY <1>0, <1>6, <1>9, <1>12 DEF Staged
  <2>. QED
    BY <1>1, <2>1, <2>2, <2>3 DEF Staged, JobFits, Fits, ByMode, Begun, AskedOnce,
       OnlyAnnounced
<1>. QED
  BY <1>13, <1>14, <1>15, <1>16, <1>17, <1>18, <1>19, <1>20, <1>21 DEF HInv

LEMMA AcceptSafe ==
    ASSUME HInv, NEW l \in Listeners, NEW p \in Connections, AcceptConnection(l, p)
    PROVE  HInv'
<1>0. TypeOK /\ Holders /\ Jobs /\ Pending /\ Found /\ Counted /\ Reachable /\ Drained /\ Staged
  BY DEF HInv
<1>. DEFINE a == Dispatcher
<1>1. /\ a \in Runners /\ At(a, "idle") /\ listener[l] # "gone" /\ processor[p].life = "unborn"
      /\ labores' = labores + 1 /\ Becomes(p, Born)
      /\ canalia' = canalia \cup {p} /\ Goto(a, p, "procede")
      /\ UNCHANGED <<phase, listener, finished, pool>>
  BY DEF AcceptConnection, Runners
<1>2. /\ Born \in Processor /\ Born.life = "alive" /\ Born.io = "none" /\ Born.open
      /\ Fits("procede", Born)
  <2>. HIDE DEF a
  <2>1. /\ Born \in Processor /\ Born.life = "alive" /\ Born.io = "none" /\ Born.open
        /\ Born.modus = "head" /\ Born.calls = <<>>
    BY GoneFacts DEF Born, Processor, Unborn
  <2>. QED
    BY <2>1 DEF Fits, ByMode
<1>3. /\ processor' \in [Connections -> Processor]
      /\ processor'[p] = Born
      /\ \A c \in Connections \ {p} : processor'[c] = processor[c]
  BY <1>0, <1>1, <1>2, Become
<1>4. /\ runner' \in [Runners -> [p : Connections \cup {None}, at : Places]]
      /\ Of(a)' = p /\ runner'[a].at = "procede"
      /\ \A b \in Runners \ {a} : runner'[b] = runner[b]
  BY <1>0, <1>1, GoesTo DEF Places
<1>. HIDE DEF a
<1>5. p \notin Alive /\ p # None /\ Of(a) = None /\ processor[p].io = "none"
  BY <1>0, <1>1, Distinct DEF Alive, Holders, Pending, TypeOK, Processor
<1>6. \A b \in Runners : Of(b) # p
  BY <1>0, <1>5 DEF Holders
<1>7. Alive' = Alive \cup {p}
  BY <1>2, <1>3 DEF Alive
<1>8. \A b \in Runners \ {a} :
        /\ Of(b)' = Of(b)
        /\ Of(b) # None =>
              /\ Of(b) \in Alive /\ Of(b) # p
              /\ processor'[Of(b)'].io = "none" /\ processor'[Of(b)'].life = "alive"
              /\ Fits(runner'[b].at, processor'[Of(b)'])
  BY <1>1, <1>3, <1>4, <1>6, OthersKeep
<1>9. \A i \in 1 .. Len(pool) : pool[i] \in Connections \ {p}
  BY <1>0, <1>5, PoolTyped DEF Jobs
<1>10. labores \in Nat /\ Cardinality(Alive) \in Nat /\ IsFiniteSet(Alive)
  BY <1>0, CountFacts DEF TypeOK
<1>11. TypeOK'
  BY <1>0, <1>1, <1>3, <1>4, <1>10 DEF TypeOK
<1>12. Holders'
  <2>1. \A b \in Runners : Of(b)' # None => Of(b)' \in Alive' /\ processor'[Of(b)'].io = "none"
    BY <1>2, <1>3, <1>4, <1>7, <1>8
  <2>2. \A b \in Runners : At(b, "idle")' <=> Of(b)' = None
    BY <1>0, <1>4, <1>5 DEF Holders
  <2>3. \A b, d \in Runners : Of(b)' # None /\ Of(b)' = Of(d)' => b = d
    BY <1>0, <1>4, <1>6, <1>8 DEF Holders
  <2>. QED
    BY <2>1, <2>2, <2>3 DEF Holders
<1>13. Jobs'
  <2>1. ASSUME NEW i \in 1 .. Len(pool)
        PROVE  /\ pool[i] \in Alive' /\ processor'[pool[i]].io = "none"
               /\ \A b \in Runners : Of(b)' # pool[i]
    BY <1>0, <1>3, <1>4, <1>7, <1>8, <1>9 DEF Jobs
  <2>. QED
    BY <1>0, <1>1, <2>1 DEF Jobs
<1>14. Pending'
  BY <1>0, <1>2, <1>3, <1>7 DEF Pending
<1>15. Found'
  <2>1. ASSUME NEW c \in Alive
        PROVE  \/ processor'[c].io # "none"
               \/ \E b \in Runners : Of(b)' = c
               \/ \E i \in 1 .. Len(pool) : pool[i] = c
    <3>1. c \in Connections \ {p} /\ c # None
      BY <1>5, Distinct DEF Alive
    <3>2. \/ processor[c].io # "none"
          \/ \E b \in Runners \ {a} : Of(b) = c
          \/ \E i \in 1 .. Len(pool) : pool[i] = c
      BY <1>0, <1>5, <3>1 DEF Found
    <3>. QED
      BY <1>3, <1>8, <3>1, <3>2
  <2>. QED
    BY <1>1, <1>4, <1>7, <2>1 DEF Found
<1>16. Counted'
  <2>. DEFINE L == {k \in Listeners : listener[k] # "gone"}
              k == IF phase = "open" THEN 1 ELSE 0
  <2>1. Cardinality(Alive') = Cardinality(Alive) + 1
    BY <1>5, <1>7, <1>10, FS_AddElement
  <2>2. labores = Cardinality(Alive) + Cardinality(L) + k /\ (finished <=> labores = 0)
    BY <1>0 DEF Counted
  <2>3. IsFiniteSet(L) /\ Cardinality(L) \in Nat /\ l \in L
    BY <1>0, <1>1, CountFacts DEF TypeOK
  <2>4. Cardinality(L) # 0
    BY <2>3, FS_EmptySet
  <2>5. L' = L /\ k' = k
    BY <1>1
  <2>. HIDE DEF L
  <2>6. labores' = Cardinality(Alive') + Cardinality(L) + k
    BY <1>1, <1>10, <2>1, <2>2, <2>3
  <2>7. labores # 0 /\ labores' # 0
    BY <1>1, <1>10, <2>2, <2>3, <2>4
  <2>8. finished' <=> labores' = 0
    BY <1>1, <2>2, <2>7
  <2>. QED
    BY <2>5, <2>6, <2>8 DEF Counted, L
<1>17. Reachable'
  <2>1. ASSUME NEW c \in Alive, Submitting(c)' PROVE Submitting(c)
    <3>1. PICK b \in Runners : Of(b)' = c /\ At(b, "submit")'
      BY <2>1 DEF Submitting
    <3>2. b # a
      BY <1>4, <3>1
    <3>. QED
      BY <1>4, <1>8, <3>1, <3>2 DEF Submitting
  <2>2. ~Submitting(p)'
    BY <1>4, <1>6, <1>8 DEF Submitting
  <2>3. Alive' \subseteq canalia'
    BY <1>0, <1>1, <1>7 DEF Reachable
  <2>4. \A c \in Alive : processor'[c] = processor[c]
    BY <1>3, <1>5 DEF Alive
  <2>. QED
    BY <1>0, <1>1, <1>2, <1>3, <1>7, <2>1, <2>2, <2>3, <2>4 DEF Reachable
<1>18. Drained'
  BY <1>0, <1>1 DEF Drained
<1>19. Staged'
  <2>1. ASSUME NEW b \in Runners, Of(b)' # None PROVE Fits(runner'[b].at, processor'[Of(b)'])
    BY <1>2, <1>3, <1>4, <1>8, <2>1
  <2>2. ASSUME NEW c \in Connections, processor'[c].io # "none" PROVE ByMode(processor'[c])
    BY <1>0, <1>2, <1>3, <2>2 DEF Staged
  <2>3. ASSUME NEW i \in 1 .. Len(pool) PROVE JobFits(processor'[pool[i]])
    BY <1>0, <1>3, <1>9 DEF Staged
  <2>. QED
    BY <1>1, <2>1, <2>2, <2>3 DEF Staged, JobFits, Fits, ByMode, Begun, AskedOnce,
       OnlyAnnounced
<1>. QED
  BY <1>11, <1>12, <1>13, <1>14, <1>15, <1>16, <1>17, <1>18, <1>19 DEF HInv

(* A step that changes only how far clode is, and the listeners.           *)
LEMMA ClosingSafe ==
    ASSUME HInv, UNCHANGED <<canalia, processor, pool, runner>>,
           TypeOK', Counted', Drained',
           phase' \in {"waiting", "draining", "returned"}
              => phase \in {"waiting", "draining", "returned"}
    PROVE  HInv'
<1>0. Holders /\ Jobs /\ Pending /\ Found /\ Reachable /\ Staged
  BY DEF HInv
<1>1. Alive' = Alive
  BY DEF Alive
<1>2. Holders' /\ Jobs' /\ Pending' /\ Found'
  BY <1>0, <1>1 DEF Holders, Jobs, Pending, Found
<1>3. \A c \in Alive : Submitting(c)' <=> Submitting(c)
  BY DEF Submitting
<1>4. Reachable'
  BY <1>0, <1>1, <1>3 DEF Reachable
<1>5. Staged'
  BY <1>0 DEF Staged, JobFits, Fits, ByMode, Begun, AskedOnce,
       OnlyAnnounced
<1>. QED
  BY <1>2, <1>4, <1>5 DEF HInv

LEMMA AcceptorEndsSafe ==
    ASSUME HInv, NEW l \in Listeners, AcceptorEnds(l)
    PROVE  HInv'
<1>0. TypeOK /\ Counted /\ Drained
  BY DEF HInv
<1>1. /\ listener[l] = "closing" /\ listener' = [listener EXCEPT ![l] = "gone"]
      /\ labores' = labores - 1 /\ finished' = (finished \/ labores = 1)
      /\ UNCHANGED <<phase, canalia, processor, pool, runner>>
  BY DEF AcceptorEnds, Decrema
<1>. DEFINE L == {k \in Listeners : listener[k] # "gone"}
            n == IF phase = "open" THEN 1 ELSE 0
<1>2. TypeOK'
  BY <1>0, <1>1 DEF TypeOK
<1>3. Counted'
  <2>1. L' = L \ {l} /\ l \in L /\ n' = n /\ Alive' = Alive
    BY <1>0, <1>1 DEF TypeOK, Alive
  <2>2. IsFiniteSet(L) /\ Cardinality(L) \in Nat /\ Cardinality(Alive) \in Nat
    BY <1>0, CountFacts DEF TypeOK
  <2>3. labores = Cardinality(Alive) + Cardinality(L) + n /\ (finished <=> labores = 0)
    BY <1>0 DEF Counted
  <2>. HIDE DEF L
  <2>4. Cardinality(L \ {l}) = Cardinality(L) - 1 /\ Cardinality(L) # 0
    BY <2>1, <2>2, FS_RemoveElement, FS_EmptySet
  <2>5. labores \in Nat /\ labores # 0
    BY <2>2, <2>3, <2>4
  <2>6. finished' <=> labores = 1
    BY <1>1, <2>3, <2>5, Zenon
  <2>7. (labores' = 0 <=> labores = 1) /\ labores' = Cardinality(Alive) + Cardinality(L \ {l}) + n
    BY <1>1, <2>2, <2>3, <2>4, <2>5
  <2>. QED
    BY <2>1, <2>6, <2>7 DEF Counted, L
<1>4. Drained'
  BY <1>0, <1>1 DEF Drained
<1>. QED
  BY <1>1, <1>2, <1>3, <1>4, ClosingSafe

LEMMA RaiseClosedSafe ==
    ASSUME HInv, RaiseClosed
    PROVE  HInv'
<1>0. TypeOK /\ Counted
  BY DEF HInv
<1>1. /\ phase = "open" /\ phase' = "raised"
      /\ labores' = labores - 1 /\ finished' = (finished \/ labores = 1)
      /\ UNCHANGED <<listener, canalia, processor, pool, runner>>
  BY DEF RaiseClosed, Decrema
<1>. DEFINE L == {k \in Listeners : listener[k] # "gone"}
<1>2. TypeOK'
  BY <1>0, <1>1 DEF TypeOK
<1>3. Counted'
  <2>1. L' = L /\ Alive' = Alive
    BY <1>1 DEF Alive
  <2>2. Cardinality(L) \in Nat /\ Cardinality(Alive) \in Nat
    BY <1>0, CountFacts DEF TypeOK
  <2>3. labores = Cardinality(Alive) + Cardinality(L) + 1 /\ (finished <=> labores = 0)
    BY <1>0, <1>1 DEF Counted
  <2>. HIDE DEF L
  <2>4. labores \in Nat /\ labores # 0
    BY <2>2, <2>3
  <2>5. finished' <=> labores = 1
    BY <1>1, <2>3, <2>4, Zenon
  <2>6. (labores' = 0 <=> labores = 1) /\ labores' = Cardinality(Alive) + Cardinality(L) + 0
    BY <1>1, <2>2, <2>3, <2>4
  <2>. QED
    BY <1>1, <2>1, <2>5, <2>6 DEF Counted, L
<1>4. Drained'
  BY <1>1 DEF Drained
<1>. QED
  BY <1>1, <1>2, <1>3, <1>4, ClosingSafe

LEMMA CloseListenerSafe ==
    ASSUME HInv, NEW l \in Listeners, CloseListener(l)
    PROVE  HInv'
<1>0. TypeOK /\ Counted
  BY DEF HInv
<1>1. /\ phase = "raised" /\ phase' \in {"raised", "deaf"} /\ listener[l] = "open"
      /\ listener' = [listener EXCEPT ![l] = "closing"]
      /\ UNCHANGED <<labores, finished, canalia, processor, pool, runner>>
  BY DEF CloseListener
<1>2. TypeOK'
  BY <1>0, <1>1 DEF TypeOK
<1>3. {k \in Listeners : listener'[k] # "gone"} = {k \in Listeners : listener[k] # "gone"}
  BY <1>0, <1>1 DEF TypeOK
<1>4. Alive' = Alive
  BY <1>1 DEF Alive
<1>5. Counted'
  BY <1>0, <1>1, <1>3, <1>4 DEF Counted
<1>6. Drained'
  BY <1>1 DEF Drained
<1>. QED
  BY <1>1, <1>2, <1>5, <1>6, ClosingSafe

LEMMA CloseChannelsSafe ==
    ASSUME HInv, CloseChannels
    PROVE  HInv'
<1>0. TypeOK /\ Holders /\ Jobs /\ Pending /\ Found /\ Counted /\ Reachable /\ Drained /\ Staged
  BY DEF HInv
<1>1. /\ phase = "deaf" /\ phase' = "waiting"
      /\ UNCHANGED <<listener, labores, finished, canalia, pool, runner>>
  BY DEF CloseChannels
<1>2. \A c \in Connections :
        processor'[c] = IF c \in canalia THEN [processor[c] EXCEPT !.open = FALSE] ELSE processor[c]
  BY DEF CloseChannels
<1>3. \A c \in Connections : [processor[c] EXCEPT !.open = FALSE] \in Processor
  <2>1. ASSUME NEW p \in Processor PROVE [p EXCEPT !.open = FALSE] \in Processor
    BY DEF Processor
  <2>2. \A c \in Connections : processor[c] \in Processor
    BY <1>0 DEF TypeOK
  <2>. QED
    BY <2>1, <2>2
<1>4. /\ processor' \in [Connections -> Processor]
      /\ \A c \in Connections :
            /\ processor'[c].life = processor[c].life /\ processor'[c].io = processor[c].io
            /\ processor'[c].modus = processor[c].modus /\ processor'[c].job = processor[c].job
            /\ processor'[c].calls = processor[c].calls /\ processor'[c].failed = processor[c].failed
            /\ c \in canalia => ~processor'[c].open
  <2>1. processor' = [c \in Connections |->
            IF c \in canalia THEN [processor[c] EXCEPT !.open = FALSE] ELSE processor[c]]
    BY DEF CloseChannels
  <2>2. processor' \in [Connections -> Processor]
    BY <1>0, <1>3, <2>1 DEF TypeOK
  <2>3. ASSUME NEW c \in Connections
        PROVE  /\ processor'[c].life = processor[c].life /\ processor'[c].io = processor[c].io
               /\ processor'[c].modus = processor[c].modus /\ processor'[c].job = processor[c].job
               /\ processor'[c].calls = processor[c].calls /\ processor'[c].failed = processor[c].failed
               /\ c \in canalia => ~processor'[c].open
    <3>1. processor[c] \in Processor
      BY <1>0 DEF TypeOK
    <3>. QED
      BY <1>2, <3>1 DEF Processor
  <2>. QED
    BY <2>2, <2>3
<1>5. Alive' = Alive
  BY <1>4 DEF Alive
<1>6. \A i \in 1 .. Len(pool) : pool[i] \in Connections
  BY <1>0, PoolTyped
<1>7. TypeOK'
  BY <1>0, <1>1, <1>4 DEF TypeOK
<1>8. Holders'
  <2>1. \A b \in Runners : Of(b) # None => Of(b) \in Alive /\ processor'[Of(b)].io = "none"
    BY <1>0, <1>4 DEF Holders, Alive
  <2>. QED
    BY <1>0, <1>1, <1>5, <2>1 DEF Holders
<1>9. Jobs'
  <2>1. \A i \in 1 .. Len(pool) : processor'[pool[i]].io = "none"
    BY <1>0, <1>4, <1>6 DEF Jobs
  <2>. QED
    BY <1>0, <1>1, <1>5, <2>1 DEF Jobs
<1>10. Pending'
  BY <1>0, <1>4, <1>5 DEF Pending
<1>11. Found'
  BY <1>0, <1>1, <1>4, <1>5 DEF Found, Alive
<1>12. Counted'
  BY <1>0, <1>1, <1>5 DEF Counted
<1>13. Reachable'
  BY <1>0, <1>1, <1>4, <1>5 DEF Reachable, Alive
<1>14. Drained'
  BY <1>1 DEF Drained
<1>15. Staged'
  <2>1. \A c \in Connections, at \in Places \cup {"none"} :
          /\ Fits(at, processor[c]) <=> Fits(at, processor'[c])
          /\ ByMode(processor[c]) <=> ByMode(processor'[c])
    BY <1>4 DEF Fits, ByMode
  <2>2. \A c \in Connections : JobFits(processor[c]) <=> JobFits(processor'[c])
    <3>1. {"parse", "exeque"} \subseteq Places
      BY DEF Places
    <3>. QED
      BY <1>4, <2>1, <3>1 DEF JobFits
  <2>3. \A b \in Runners : Of(b) # None => Of(b) \in Connections /\ runner[b].at \in Places
    BY <1>0, RunnerTyped
  <2>4. \A b \in Runners : Of(b) # None => Fits(runner[b].at, processor'[Of(b)])
    BY <1>0, <2>1, <2>3 DEF Staged
  <2>5. \A c \in Connections : processor'[c].io # "none" => ByMode(processor'[c])
    BY <1>0, <1>4, <2>1 DEF Staged
  <2>6. \A i \in 1 .. Len(pool) : JobFits(processor'[pool[i]])
    BY <1>0, <1>6, <2>2 DEF Staged
  <2>. QED
    BY <1>1, <2>4, <2>5, <2>6 DEF Staged, JobFits, Fits, ByMode, Begun, AskedOnce,
       OnlyAnnounced
<1>. QED
  BY <1>7, <1>8, <1>9, <1>10, <1>11, <1>12, <1>13, <1>14, <1>15 DEF HInv

LEMMA ClodeWaitsSafe ==
    ASSUME HInv, SeeFinished \/ CloseReturns \/ UNCHANGED vars
    PROVE  HInv'
<1>0. TypeOK /\ Counted /\ Drained
  BY DEF HInv
<1>1. UNCHANGED <<listener, labores, finished, canalia, processor, pool, runner>>
  BY DEF SeeFinished, CloseReturns, vars
<1>2. \/ phase' = phase
      \/ phase = "waiting" /\ phase' = "draining" /\ finished
      \/ phase = "draining" /\ phase' = "returned"
  BY DEF SeeFinished, EverybodyGone, CloseReturns, vars
<1>3. TypeOK' /\ Drained'
  BY <1>0, <1>1, <1>2 DEF TypeOK, Drained
<1>4. Counted'
  <2>1. phase' = "open" <=> phase = "open"
    BY <1>2
  <2>2. Alive' = Alive
    BY <1>1 DEF Alive
  <2>. QED
    BY <1>0, <1>1, <2>1, <2>2 DEF Counted
<1>. QED
  BY <1>1, <1>2, <1>3, <1>4, ClosingSafe

----------------------------------------------------------------------------
(* The invariant.                                                          *)

LEMMA InitSafe == Init => HInv
<1>. SUFFICES ASSUME Init PROVE HInv
  OBVIOUS
<1>1. /\ phase = "open" /\ listener = [l \in Listeners |-> "open"]
      /\ labores = 1 + Cardinality(Listeners) /\ finished = FALSE /\ canalia = {}
      /\ processor = [c \in Connections |-> Unborn] /\ pool = <<>>
      /\ runner = [a \in Runners |-> Idle]
  BY DEF Init
<1>2. Unborn \in Processor /\ Unborn.life = "unborn" /\ Unborn.io = "none"
  BY GoneFacts
<1>3. Idle = [p |-> None, at |-> "idle"]
  BY DEF Idle
<1>4. Alive = {} /\ Len(pool) = 0 /\ pool \in Seq(Connections)
  BY <1>1, <1>2, EmptySeq DEF Alive
<1>5. Cardinality(Listeners) \in Nat
  BY Finite, FS_CardinalityType
<1>6. TypeOK
  <2>1. processor \in [Connections -> Processor]
    BY <1>1, <1>2
  <2>2. runner \in [Runners -> [p : Connections \cup {None}, at : Places]]
    BY <1>1, <1>3 DEF Places
  <2>3. labores \in Int
    BY <1>1, <1>5
  <2>. QED
    BY <1>1, <1>4, <2>1, <2>2, <2>3 DEF TypeOK
<1>7. Holders
  BY <1>1, <1>3 DEF Holders
<1>8. Jobs /\ Pending /\ Found
  BY <1>1, <1>2, <1>4 DEF Jobs, Pending, Found
<1>9. Counted
  <2>1. {l \in Listeners : listener[l] # "gone"} = Listeners
    BY <1>1
  <2>2. Cardinality(Alive) = 0
    BY <1>4, FS_EmptySet
  <2>3. labores = Cardinality(Alive) + Cardinality(Listeners) + 1 /\ labores # 0
    BY <1>1, <1>5, <2>2
  <2>. QED
    BY <1>1, <2>1, <2>3 DEF Counted
<1>10. Reachable /\ Drained
  BY <1>1, <1>4 DEF Reachable, Drained
<1>11. Staged
  BY <1>1, <1>2, <1>3, <1>4 DEF Staged
<1>. QED
  BY <1>6, <1>7, <1>8, <1>9, <1>10, <1>11 DEF HInv

LEMMA NextSafe == HInv /\ [Next]_vars => HInv'
<1>. SUFFICES ASSUME HInv, [Next]_vars PROVE HInv'
  OBVIOUS
<1>1. ASSUME NEW l \in Listeners, NEW c \in Connections, AcceptConnection(l, c) PROVE HInv'
  BY <1>1, AcceptSafe
<1>2. ASSUME NEW l \in Listeners, AcceptorEnds(l) PROVE HInv'
  BY <1>2, AcceptorEndsSafe
<1>3. ASSUME NEW c \in Connections, Succeeds(c) \/ Breaks(c) \/ Cancelled(c) PROVE HInv'
  BY <1>3, FinishedSafe DEF Succeeds, Breaks, Cancelled
<1>4. ASSUME NEW a \in Runners, Run(a) PROVE HInv'
  <2>1. CASE Take(a)
    BY <2>1, TakeSafe
  <2>2. CASE ~Take(a)
    BY <1>4, <2>2, RunMoves, StaysSafe, ToPoolSafe, ToNetworkSafe, EndsSafe
  <2>. QED
    BY <2>1, <2>2
<1>5. CASE RaiseClosed
  BY <1>5, RaiseClosedSafe
<1>6. CASE Closing
  BY <1>6, CloseListenerSafe, CloseChannelsSafe, ClodeWaitsSafe DEF Closing
<1>7. CASE UNCHANGED vars
  BY <1>7, ClodeWaitsSafe
<1>. QED
  BY <1>1, <1>2, <1>3, <1>4, <1>5, <1>6, <1>7 DEF Next

(* Who holds what, what is counted, what clode can find and how far each   *)
(* extension has been asked: everything the server's promises rest on.     *)
THEOREM Invariance == Spec => []HInv
  BY InitSafe, NextSafe, PTL DEF Spec

LEMMA HoldersCounted == HInv => HeldOnce
<1>. SUFFICES ASSUME HInv, NEW c \in Connections
              PROVE  Cardinality(Handled(c)) + Cardinality(Queued(c))
                        + (IF processor[c].io # "none" THEN 1 ELSE 0) = IF c \in Alive THEN 1 ELSE 0
  BY DEF HeldOnce
<1>0. Holders /\ Jobs /\ Pending /\ Found
  BY DEF HInv
<1>1. c # None /\ Cardinality({}) = 0
  BY Distinct, FS_EmptySet
<1>2. \A a \in Handled(c) : a \in Runners /\ Of(a) = c
  BY DEF Handled
<1>3. \A i \in Queued(c) : i \in 1 .. Len(pool) /\ pool[i] = c
  BY DEF Queued
<1>4. CASE c \notin Alive
  <2>1. Handled(c) = {} /\ Queued(c) = {} /\ processor[c].io = "none"
    BY <1>0, <1>1, <1>2, <1>3, <1>4 DEF Holders, Jobs, Pending
  <2>. QED
    BY <1>1, <1>4, <2>1
<1>5. CASE c \in Alive /\ processor[c].io # "none"
  <2>1. Handled(c) = {} /\ Queued(c) = {}
    BY <1>0, <1>1, <1>2, <1>3, <1>5 DEF Holders, Jobs
  <2>. QED
    BY <1>1, <1>5, <2>1
<1>6. ASSUME c \in Alive, NEW a \in Runners, Of(a) = c
      PROVE  Cardinality(Handled(c)) + Cardinality(Queued(c))
                + (IF processor[c].io # "none" THEN 1 ELSE 0) = 1
  <2>1. Handled(c) = {a}
    BY <1>0, <1>1, <1>6 DEF Holders, Handled
  <2>2. Queued(c) = {} /\ processor[c].io = "none"
    BY <1>0, <1>1, <1>3, <1>6 DEF Holders, Jobs
  <2>3. Cardinality({a}) = 1
    BY FS_Singleton
  <2>. QED
    BY <1>1, <2>1, <2>2, <2>3
<1>7. ASSUME c \in Alive, NEW i \in 1 .. Len(pool), pool[i] = c
      PROVE  Cardinality(Handled(c)) + Cardinality(Queued(c))
                + (IF processor[c].io # "none" THEN 1 ELSE 0) = 1
  <2>1. Queued(c) = {i}
    BY <1>0, <1>7 DEF Jobs, Queued
  <2>2. Handled(c) = {} /\ processor[c].io = "none"
    BY <1>0, <1>2, <1>7 DEF Jobs
  <2>3. Cardinality({i}) = 1
    BY FS_Singleton
  <2>. QED
    BY <1>1, <2>1, <2>2, <2>3
<1>. QED
  BY <1>0, <1>4, <1>5, <1>6, <1>7 DEF Found

(* A living processor is held by exactly one operation, job or thread;     *)
(* labores counts processors, acceptors and the server, and                *)
(* servus_finitus_est is raised exactly when it has come to nothing; clode *)
(* finds every living processor's channel.                                 *)
THEOREM HeldCountedFound == Spec => []IInv
<1>1. HInv => IInv
  <2>1. HInv => Counted /\ Findable
    BY DEF HInv, Reachable, Findable
  <2>. QED
    BY <2>1, HoldersCounted DEF IInv
<1>. QED
  BY <1>1, Invariance, PTL

LEMMA NobodyAfterClose == HInv => QuietAfterClose
<1>. SUFFICES ASSUME HInv, phase = "returned"
              PROVE  /\ \A a \in Runners : At(a, "idle")
                     /\ pool = <<>> /\ Alive = {}
                     /\ \A l \in Listeners : listener[l] = "gone"
  BY DEF QuietAfterClose
<1>0. TypeOK /\ Holders /\ Jobs /\ Counted /\ Drained
  BY DEF HInv
<1>1. finished
  BY <1>0 DEF Drained
<1>2. Alive = {} /\ \A l \in Listeners : listener[l] = "gone"
  BY <1>0, <1>1, CountFacts DEF TypeOK
<1>3. \A a \in Runners : At(a, "idle")
  BY <1>0, <1>2 DEF Holders
<1>4. pool = <<>>
  <2>1. \A i \in 1 .. Len(pool) : FALSE
    BY <1>0, <1>2 DEF Jobs
  <2>2. pool \in Seq(Connections) /\ Len(pool) \in Nat
    BY <1>0, PoolTyped DEF TypeOK
  <2>3. Len(pool) = 0
    BY <2>1, <2>2
  <2>. QED
    BY <2>2, <2>3, EmptySeq
<1>. QED
  BY <1>2, <1>3, <1>4

(* When clode has returned no thread of the pool is busy with a request,   *)
(* none is queued, and no processor or acceptor is left: the program may   *)
(* destroy its extensions.                                                 *)
THEOREM ExtensionsQuiet == Spec => []QuietAfterClose
  BY Invariance, NobodyAfterClose, PTL

----------------------------------------------------------------------------
(* The refinement.                                                         *)

LEMMA MoveSimulation ==
    ASSUME HInv, NEW p \in Connections, NEW new, Becomes(p, new), UNCHANGED phase,
           Serves(processor[p], new), phase # "returned" \/ new.calls = <<>>
    PROVE  [Protocol!Next]_(Protocol!evars)
<1>. DEFINE calls == [c \in Connections |-> processor[c].calls]
            closed == phase = "returned"
            q == processor[p].calls
<1>0. processor \in [Connections -> Processor] /\ q \in Seq(Calls)
  BY DEF HInv, TypeOK, Processor
<1>1. /\ processor'[p] = new
      /\ \A c \in Connections \ {p} : processor'[c] = processor[c]
  BY <1>0 DEF Becomes
<1>2. calls' = [calls EXCEPT ![p] = new.calls]
  <2>1. \A c \in Connections :
          processor'[c].calls = IF c = p THEN new.calls ELSE processor[c].calls
    BY <1>1
  <2>. QED
    BY <2>1
<1>3. UNCHANGED closed
  OBVIOUS
<1>4. calls[p] = q
  OBVIOUS
<1>5. \A i \in 1 .. Len(q) : q[i].what = "asked" => q[i].what # "announced"
  OBVIOUS
<1>6. OnlyAnnounced(q) => Protocol!Asked(p) = {}
  BY <1>4 DEF OnlyAnnounced, Protocol!Asked
<1>7. ASSUME NEW to, NEW what, Grows(processor[p], new, to, what), phase # "returned"
      PROVE  Protocol!Call(p, to, what)
  <2>1. calls' = [calls EXCEPT ![p] = Append(q, [to |-> to, what |-> what])]
    BY <1>2, <1>7 DEF Grows
  <2>2. calls' = [calls EXCEPT ![p] = Append(@, [to |-> to, what |-> what])]
    BY <1>4, <2>1
  <2>. QED
    BY <1>3, <1>7, <2>2 DEF Protocol!Call
<1>8. CASE new.calls = q
  <2>1. calls' = calls
    BY <1>2, <1>4, <1>8
  <2>. QED
    BY <1>3, <2>1 DEF Protocol!evars
<1>9. CASE new.calls = <<>>
  <2>1. Protocol!Finish(p)
    BY <1>2, <1>3, <1>9 DEF Protocol!Finish
  <2>. QED
    BY <2>1 DEF Protocol!Next
<1>10. CASE q = <<>> /\ phase # "returned" /\ Grows(processor[p], new, "extension", "announced")
  <2>1. Protocol!Announce(p)
    BY <1>4, <1>7, <1>10 DEF Protocol!Announce
  <2>. QED
    BY <2>1 DEF Protocol!Next
<1>11. CASE /\ OnlyAnnounced(q) /\ phase # "returned"
            /\ Grows(processor[p], new, "errors", "announced")
  <2>1. Protocol!AnnounceError(p)
    BY <1>6, <1>7, <1>11 DEF Protocol!AnnounceError
  <2>. QED
    BY <2>1 DEF Protocol!Next
<1>12. CASE /\ Begun(q) /\ phase # "returned"
            /\ Grows(processor[p], new, Responsor(processor[p]), "asked")
  <2>1. Responsor(processor[p]) = Protocol!Latest(p).to
    BY <1>4 DEF Responsor, Protocol!Latest
  <2>2. Protocol!Call(p, Protocol!Latest(p).to, "asked")
    BY <1>7, <1>12, <2>1
  <2>3. Protocol!Ask(p)
    BY <1>4, <1>6, <1>12, <2>2 DEF Protocol!Ask, Begun
  <2>. QED
    BY <2>3 DEF Protocol!Next
<1>13. CASE AskedOnce(q) /\ phase # "returned" /\ Grows(processor[p], new, "errors", "asked")
  <2>1. Len(q) \in Nat /\ Len(q) # 0
    BY <1>0, <1>13, LenProperties, EmptySeq DEF AskedOnce
  <2>2. Protocol!Asked(p) = {Len(q)}
    BY <1>4, <1>13, <2>1 DEF AskedOnce, Protocol!Asked
  <2>3. Protocol!AskInPlace(p)
    BY <1>4, <1>7, <1>13, <2>2 DEF Protocol!AskInPlace
  <2>. QED
    BY <2>3 DEF Protocol!Next
<1>. QED
  BY <1>8, <1>9, <1>10, <1>11, <1>12, <1>13 DEF Serves

LEMMA StepSimulation ==
    ASSUME HInv, [Next]_vars
    PROVE  [Protocol!Next]_(Protocol!evars)
<1>0. TypeOK /\ QuietAfterClose
  BY NobodyAfterClose DEF HInv
<1>1. ASSUME NEW l \in Listeners, NEW c \in Connections, AcceptConnection(l, c)
      PROVE  [Protocol!Next]_(Protocol!evars)
  <2>1. Becomes(c, Born) /\ UNCHANGED phase /\ Born.calls = <<>>
    BY <1>1 DEF AcceptConnection, Born, Unborn
  <2>. QED
    BY <2>1, MoveSimulation DEF Serves
<1>2. ASSUME NEW c \in Connections, NEW failed \in BOOLEAN, Finished(c, failed)
      PROVE  [Protocol!Next]_(Protocol!evars)
  <2>. DEFINE q == IF failed THEN <<>> ELSE processor[c].calls
              new == [processor[c] EXCEPT !.io = "none", !.failed = failed, !.calls = q]
  <2>1. processor[c] \in Processor
    BY <1>0 DEF TypeOK
  <2>2. new.calls = processor[c].calls \/ new.calls = <<>>
    BY <2>1 DEF Processor
  <2>3. Becomes(c, new) /\ UNCHANGED phase /\ processor[c].io # "none"
    BY <1>2 DEF Finished
  <2>. HIDE DEF new
  <2>4. phase # "returned"
    BY <1>0, <2>3 DEF QuietAfterClose, HInv, Pending
  <2>. QED
    BY <2>2, <2>3, <2>4, MoveSimulation DEF Serves
<1>3. ASSUME NEW a \in Runners, Run(a) PROVE [Protocol!Next]_(Protocol!evars)
  <2>1. CASE Take(a)
    <3>. DEFINE p == Head(pool)
                new == [processor[p] EXCEPT !.job = "none"]
    <3>1. p \in Connections /\ processor[p] \in Processor
      BY <1>0, <2>1, TailFacts DEF TypeOK, Take
    <3>2. new.calls = processor[p].calls
      BY <3>1 DEF Processor
    <3>3. Becomes(p, new) /\ UNCHANGED phase /\ pool # <<>>
      BY <2>1 DEF Take, Unmoved
    <3>4. phase # "returned"
      BY <1>0, <3>3 DEF QuietAfterClose
    <3>. HIDE DEF new, p
    <3>. QED
      BY <3>1, <3>2, <3>3, <3>4, MoveSimulation DEF Serves
  <2>2. CASE ~Take(a)
    <3>1. ~At(a, "idle") /\ (Stays(a) \/ ToPool(a) \/ ToNetwork(a) \/ Ends(a))
      BY <1>3, <2>2, RunMoves
    <3>2. Of(a) \in Connections /\ phase # "returned"
      BY <1>0, <3>1, Holding DEF QuietAfterClose
    <3>3. UNCHANGED phase
      BY <3>1 DEF Stays, ToPool, ToNetwork, Ends, Unmoved
    <3>4. CASE Ends(a)
      BY <3>2, <3>3, <3>4, MoveSimulation DEF Ends, Serves
    <3>5. CASE Stays(a) \/ ToPool(a) \/ ToNetwork(a)
      <4>1. PICK new \in Processor : Becomes(Of(a), new) /\ Serves(processor[Of(a)], new)
        BY <3>5 DEF Stays, ToPool, ToNetwork
      <4>. QED
        BY <3>2, <3>3, <4>1, MoveSimulation
    <3>. QED
      BY <3>1, <3>4, <3>5
  <2>. QED
    BY <2>1, <2>2
<1>4. CASE CloseChannels
  <2>1. \A c \in Connections : processor[c] \in Processor
    BY <1>0 DEF TypeOK
  <2>2. \A c \in Connections : processor'[c].calls = processor[c].calls
    BY <1>4, <2>1 DEF CloseChannels, Processor
  <2>3. (phase' = "returned") = (phase = "returned")
    BY <1>4 DEF CloseChannels
  <2>. QED
    BY <2>2, <2>3 DEF Protocol!evars
<1>5. CASE UNCHANGED processor /\ ((phase' = "returned") = (phase = "returned"))
  BY <1>5 DEF Protocol!evars
<1>6. CASE CloseReturns
  <2>1. UNCHANGED processor /\ phase' = "returned"
    BY <1>6 DEF CloseReturns
  <2>2. Protocol!Close
    BY <2>1 DEF Protocol!Close
  <2>. QED
    BY <2>2 DEF Protocol!Next
<1>7. ASSUME NEW l \in Listeners, AcceptorEnds(l) \/ CloseListener(l)
      PROVE  UNCHANGED processor /\ ((phase' = "returned") = (phase = "returned"))
  BY <1>7 DEF AcceptorEnds, CloseListener
<1>8. ASSUME RaiseClosed \/ SeeFinished \/ UNCHANGED vars
      PROVE  UNCHANGED processor /\ ((phase' = "returned") = (phase = "returned"))
  BY <1>8 DEF RaiseClosed, SeeFinished, vars
<1>. QED
  BY <1>1, <1>2, <1>3, <1>4, <1>5, <1>6, <1>7, <1>8
     DEF Next, Closing, Succeeds, Breaks, Cancelled

(* Every call of an extension or of the handler of errors, repeated ones   *)
(* included, is one their protocol allows at that moment, whatever         *)
(* arrives, breaks or throws, and none is made once clode has returned:    *)
(* the server implements ExtensionProtocol.                                *)
THEOREM Implementation == Spec => ImplementsProtocol
<1>1. Init => Protocol!Init
  BY DEF Init, Protocol!Init, Unborn
<1>2. HInv /\ [Next]_vars => [Protocol!Next]_(Protocol!evars)
  BY StepSimulation
<1>3. Spec => Protocol!Init /\ [][Protocol!Next]_(Protocol!evars)
  BY <1>1, <1>2, Invariance, PTL DEF Spec
<1>. QED
  BY <1>3 DEF ImplementsProtocol, Protocol!Spec
=============================================================================

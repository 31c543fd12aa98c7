-------------------------- MODULE RemoteCallsProofs --------------------------
(***************************************************************************)
(* Proofs about remote calls, for any threads and any number of calls.     *)
(***************************************************************************)
EXTENDS RemoteCallsInvariant, FiniteSetTheorems, SequenceTheorems, TLAPS

LEMMA AppendFacts ==
    ASSUME NEW S, NEW q \in Seq(S), NEW e \in S
    PROVE  /\ Append(q, e) \in Seq(S)
           /\ Len(q) \in Nat /\ Len(Append(q, e)) = Len(q) + 1
           /\ \A i \in 1 .. Len(q) : Append(q, e)[i] = q[i]
           /\ Append(q, e)[Len(q) + 1] = e
  BY AppendProperties, LenProperties

LEMMA TailFacts ==
    ASSUME NEW S, NEW q \in Seq(S), q # <<>>
    PROVE  /\ Len(q) \in Nat \ {0}
           /\ Head(q) \in S /\ Head(q) = q[1]
           /\ Tail(q) \in Seq(S)
           /\ Len(Tail(q)) = Len(q) - 1
           /\ \A i \in 1 .. Len(q) - 1 : Tail(q)[i] = q[i + 1]
  BY HeadTailProperties, LenProperties, EmptySeq

\* The two ends.
LEMMA Ends2 ==
    ASSUME NEW e \in Ends
    PROVE  /\ Other(e) \in Ends /\ Other(e) # e /\ Other(Other(e)) = e
           /\ \A f \in Ends : f = e \/ f = Other(e)
<1>0. PICK a \in Ends : \E b \in Ends \ {a} : Ends = {a, b}
  BY Shape
<1>1. PICK b \in Ends \ {a} : Ends = {a, b}
  BY <1>0
<1>2. \A f \in Ends : Other(f) \in Ends /\ Other(f) # f
  BY <1>1 DEF Other
<1>. QED
  BY <1>1, <1>2

LEMMA Homes == \A x \in Actors : Home(x) \in Ends
  BY Shape DEF Home, Actors

----------------------------------------------------------------------------
(* Queues of messages: what of one kind is in them.                        *)

LEMMA IdsOfAppend ==
    ASSUME NEW S, NEW q \in Seq(S), NEW m \in S, NEW kind
    PROVE  /\ m.kind = kind => Ids(Append(q, m), kind) = Ids(q, kind) \cup {m.id}
           /\ m.kind # kind => Ids(Append(q, m), kind) = Ids(q, kind)
           /\ One(q, kind) /\ (m.kind = kind => Ids(q, kind) = {}) => One(Append(q, m), kind)
<1>. DEFINE p == Append(q, m)
            n == Len(q) + 1
<1>1. /\ Len(q) \in Nat /\ Len(p) = n
      /\ \A i \in 1 .. Len(q) : p[i] = q[i] /\ i # n
      /\ p[n] = m
      /\ n \in 1 .. Len(p)
      /\ \A i \in 1 .. Len(p) : i \in 1 .. Len(q) \/ i = n
      /\ \A i \in 1 .. Len(q) : i \in 1 .. Len(p)
  BY AppendFacts
<1>. HIDE DEF p, n
<1>2. \A x : x \in Ids(p, kind) <=> x \in Ids(q, kind) \/ (m.kind = kind /\ x = m.id)
  BY <1>1 DEF Ids
<1>3. One(q, kind) /\ (m.kind = kind => Ids(q, kind) = {}) => One(p, kind)
  <2>. SUFFICES ASSUME One(q, kind), m.kind = kind => Ids(q, kind) = {},
                       NEW i \in 1 .. Len(p), NEW k \in 1 .. Len(p), p[i].kind = kind, p[k].kind = kind
                PROVE  i = k
    BY DEF One
  <2>1. m.kind = kind => \A j \in 1 .. Len(q) : q[j].kind # kind
    BY DEF Ids
  <2>2. CASE i \in 1 .. Len(q) /\ k \in 1 .. Len(q)
    BY <1>1, <2>2 DEF One
  <2>3. CASE i = n \/ k = n
    BY <1>1, <2>1, <2>3
  <2>. QED
    BY <1>1, <2>2, <2>3
<1>4. /\ m.kind = kind => Ids(p, kind) = Ids(q, kind) \cup {m.id}
      /\ m.kind # kind => Ids(p, kind) = Ids(q, kind)
  BY <1>2
<1>. QED
  BY <1>3, <1>4 DEF p

LEMMA IdsOfTail ==
    ASSUME NEW S, NEW q \in Seq(S), q # <<>>, NEW kind
    PROVE  /\ Ids(Tail(q), kind) \subseteq Ids(q, kind)
           /\ Head(q).kind = kind => Head(q).id \in Ids(q, kind)
           /\ One(q, kind) => One(Tail(q), kind)
           /\ One(q, kind) /\ Head(q).kind = kind =>
                Ids(q, kind) = {Head(q).id} /\ Ids(Tail(q), kind) = {}
<1>. DEFINE p == Tail(q)
            h == Head(q)
<1>1. /\ Len(q) \in Nat \ {0} /\ Len(p) = Len(q) - 1
      /\ h = q[1] /\ 1 \in 1 .. Len(q)
      /\ \A i \in 1 .. Len(p) : p[i] = q[i + 1] /\ i + 1 \in 1 .. Len(q) /\ i + 1 # 1 /\ i \in Nat
  BY TailFacts
<1>. HIDE DEF p, h
<1>2. Ids(p, kind) \subseteq Ids(q, kind) /\ (h.kind = kind => h.id \in Ids(q, kind))
  BY <1>1 DEF Ids
<1>3. One(q, kind) => One(p, kind)
  <2>. SUFFICES ASSUME One(q, kind), NEW i \in 1 .. Len(p), NEW k \in 1 .. Len(p),
                       p[i].kind = kind, p[k].kind = kind
                PROVE  i = k
    BY DEF One
  <2>1. i + 1 = k + 1
    BY <1>1 DEF One
  <2>. QED
    BY <2>1, <1>1
<1>4. ASSUME One(q, kind), h.kind = kind
      PROVE  Ids(q, kind) = {h.id} /\ Ids(p, kind) = {}
  <2>1. \A i \in 1 .. Len(q) : q[i].kind = kind => i = 1
    BY <1>1, <1>4 DEF One
  <2>2. \A x \in Ids(q, kind) : x = h.id
    BY <2>1, <1>1 DEF Ids
  <2>3. \A i \in 1 .. Len(p) : p[i].kind # kind
    BY <2>1, <1>1
  <2>4. Ids(p, kind) = {}
    BY <2>3 DEF Ids
  <2>. QED
    BY <2>2, <2>4, <1>2, <1>4
<1>. QED
  BY <1>2, <1>3, <1>4 DEF p, h

\* The same, of a queue that becomes p and the message m taken from it.
LEMMA Popping ==
    ASSUME NEW S, NEW q \in Seq(S), q # <<>>, NEW p, p = Tail(q), NEW m, m = Head(q)
    PROVE  \A kind : /\ Ids(p, kind) \subseteq Ids(q, kind)
                     /\ m.kind = kind => m.id \in Ids(q, kind)
                     /\ One(q, kind) => One(p, kind)
                     /\ One(q, kind) /\ m.kind = kind => Ids(q, kind) = {m.id} /\ Ids(p, kind) = {}
<1>. TAKE kind
<1>1. /\ Ids(Tail(q), kind) \subseteq Ids(q, kind)
      /\ Head(q).kind = kind => Head(q).id \in Ids(q, kind)
      /\ One(q, kind) => One(Tail(q), kind)
      /\ One(q, kind) /\ Head(q).kind = kind =>
           Ids(q, kind) = {Head(q).id} /\ Ids(Tail(q), kind) = {}
  BY IdsOfTail
<1>. QED
  BY <1>1

LEMMA IdsOfEmpty ==
    ASSUME NEW kind
    PROVE  Ids(<<>>, kind) = {} /\ One(<<>>, kind)
  BY EmptySeq DEF Ids, One

----------------------------------------------------------------------------
(* What is under way.                                                      *)

LEMMA Somes == Some(None) = {} /\ \A x : x # None => Some(x) = {x}
  BY DEF Some

LEMMA WayIs ==
    ASSUME NEW e
    PROVE  /\ Way(e, "called") = Ids(wire[Other(e)], "call")
           /\ Way(e, "queued") = Ids(cauda[Other(e)], "call")
           /\ Way(e, "served") = Some(serving[Other(e)])
           /\ Way(e, "answered") = Ids(wire[e], "answer")
           /\ Way(e, "returned") = Ids(cauda[e], "answer")
  BY DEF Way

LEMMA WayIsNext ==
    ASSUME NEW e
    PROVE  /\ Way(e, "called")' = Ids(wire'[Other(e)], "call")
           /\ Way(e, "queued")' = Ids(cauda'[Other(e)], "call")
           /\ Way(e, "served")' = Some(serving'[Other(e)])
           /\ Way(e, "answered")' = Ids(wire'[e], "answer")
           /\ Way(e, "returned")' = Ids(cauda'[e], "answer")
  BY DEF Way

\* Nothing new is under way for e.
Shrinks(e) == UnderWay(e)' \subseteq UnderWay(e) /\ (OneUnderWay(e) => OneUnderWay(e)')

LEMMA Resting ==
    ASSUME NEW e, \A leg \in Legs : Way(e, leg)' \subseteq Way(e, leg),
           OneEach(e) => OneEach(e)'
    PROVE  Shrinks(e)
<1>1. UnderWay(e)' \subseteq UnderWay(e)
  BY DEF UnderWay
<1>2. Exclusive(e) => Exclusive(e)'
  BY DEF Exclusive
<1>. QED
  BY <1>1, <1>2 DEF Shrinks, OneUnderWay

LEMMA Passing ==
    ASSUME NEW e, NEW from \in Legs, NEW to \in Legs, from # to,
           Way(e, from) # {}, Way(e, to)' \subseteq Way(e, from) \cup Way(e, to),
           Way(e, from)' \subseteq Way(e, from),
           OneUnderWay(e) => Way(e, from)' = {} /\ OneEach(e)',
           \A leg \in Legs \ {from, to} : Way(e, leg)' \subseteq Way(e, leg)
    PROVE  Shrinks(e)
<1>1. UnderWay(e)' \subseteq UnderWay(e)
  BY DEF UnderWay
<1>2. OneUnderWay(e) => Exclusive(e)'
  <2>. SUFFICES ASSUME OneUnderWay(e), NEW leg \in Legs, Way(e, leg)' # {} PROVE leg = to
    BY DEF Exclusive
  <2>. QED
    BY DEF OneUnderWay, Exclusive
<1>. QED
  BY <1>1, <1>2 DEF Shrinks, OneUnderWay

LEMMA SameWay ==
    ASSUME UNCHANGED <<wire, cauda, serving>>, NEW e
    PROVE  UnderWay(e)' = UnderWay(e) /\ (OneUnderWay(e)' <=> OneUnderWay(e)) /\ Shrinks(e)
<1>1. \A leg : Way(e, leg)' = Way(e, leg)
  BY DEF Way
<1>2. UnderWay(e)' = UnderWay(e) /\ (Exclusive(e)' <=> Exclusive(e))
  BY <1>1 DEF UnderWay, Exclusive
<1>3. OneEach(e)' <=> OneEach(e)
  BY DEF OneEach
<1>. QED
  BY <1>2, <1>3 DEF OneUnderWay, Shrinks

----------------------------------------------------------------------------
(* Types, and what a caller's step changes.                                *)

LEMMA MessageTypes ==
    /\ \A id \in Ident, error \in BOOLEAN :
         /\ Answer(id, error) \in Answers /\ Answer(id, error) \in Message
         /\ Answer(id, error).id = id /\ Answer(id, error).error = error
         /\ Answer(id, error).kind = "answer"
    /\ \A m \in Answers : m = Answer(m.id, m.error) /\ m.id \in Ident /\ m.error \in BOOLEAN /\ m \in Message
    /\ None \notin Message /\ None \notin Answers
    /\ ClosingTask.kind = "closing"
    /\ \A m \in Message : m.kind # "closing" /\ m.id \in Ident /\ m.error \in BOOLEAN
<1>1. \A m \in Answers : m = Answer(m.id, m.error) /\ m.id \in Ident /\ m.error \in BOOLEAN /\ m \in Message
  BY DEF Answers, Message, Answer
<1>2. None \notin Message /\ None \notin Answers
  BY Shape DEF Answers
<1>. QED
  BY <1>1, <1>2 DEF Answers, Message, Answer, ClosingTask

LEMMA Calling ==
    ASSUME TypeOK, NEW x \in Actors
    PROVE  /\ Id(x) \in Ident /\ Call(x) \in Message /\ Call(x).id = Id(x) /\ Call(x).kind = "call"
           /\ call[x].n \in Nat /\ call[x].at \in Stages
  BY DEF TypeOK, Id, Ident, Call, Message

LEMMA Goes ==
    ASSUME TypeOK, NEW x \in Actors, NEW at \in Stages, Goto(x, at)
    PROVE  /\ call'[x].at = at /\ call'[x].n = call[x].n
           /\ \A y \in Actors : y # x => call'[y] = call[y]
           /\ call' \in [Actors -> [at : Stages, n : Nat]]
<1>. DEFINE new == [call[x] EXCEPT !.at = at]
<1>0. call[x] \in [at : Stages, n : Nat] /\ call \in [Actors -> [at : Stages, n : Nat]]
  BY DEF TypeOK
<1>1. new \in [at : Stages, n : Nat] /\ new.at = at /\ new.n = call[x].n
  BY <1>0
<1>2. call' = [call EXCEPT ![x] = new]
  BY DEF TypeOK, Goto
<1>. HIDE DEF new
<1>. QED
  BY <1>1, <1>2 DEF TypeOK

LEMMA Ends1 ==
    ASSUME TypeOK, NEW x \in Actors, NEW how \in {"ok", "error", "broken"},
           NEW answer \in Answers \cup {None}, Over(x, how, answer)
    PROVE  /\ Goto(x, "idle") /\ "idle" \in Stages
           /\ result'[x] = [n |-> call[x].n, how |-> how, answer |-> answer]
           /\ \A y \in Actors : y # x => result'[y] = result[y]
           /\ result' \in [Actors -> [n : Nat, how : {"none", "ok", "error", "broken"},
                                      answer : Answers \cup {None}]]
<1>. DEFINE new == [n |-> call[x].n, how |-> how, answer |-> answer]
<1>1. new \in [n : Nat, how : {"none", "ok", "error", "broken"}, answer : Answers \cup {None}]
  BY DEF TypeOK
<1>2. result' = [result EXCEPT ![x] = new]
  BY DEF Over
<1>. HIDE DEF new
<1>3. Goto(x, "idle") /\ "idle" \in Stages
  BY DEF Over, Stages
<1>. QED
  BY <1>1, <1>2, <1>3 DEF TypeOK, new

LEMMA GivesBack ==
    ASSUME TypeOK, NEW e \in Ends, Ende(e)
    PROVE  /\ origo'[e] = None /\ resp'[e] = FALSE /\ inv'[e] = inv[e] + 1
           /\ \A f \in Ends : f # e => origo'[f] = origo[f] /\ resp'[f] = resp[f] /\ inv'[f] = inv[f]
           /\ origo' \in [Ends -> Answers \cup {None}] /\ resp' \in [Ends -> BOOLEAN]
           /\ inv' \in [Ends -> Nat]
  BY DEF TypeOK, Ende

LEMMA Transmitting ==
    ASSUME TypeOK, NEW e \in Ends, NEW m \in Message, Transmit(e, m)
    PROVE  wire' \in [Ends -> Seq(Message)] /\ sent' \in [Ends -> BOOLEAN]
<1>1. CASE up
  <2>1. Append(wire[Other(e)], m) \in Seq(Message)
    BY AppendFacts, Ends2 DEF TypeOK
  <2>. QED
    BY <1>1, <2>1 DEF TypeOK, Transmit
<1>2. CASE ~up
  BY <1>2 DEF TypeOK, Transmit
<1>. QED
  BY <1>1, <1>2

LEMMA Closes ==
    ASSUME TypeOK, NEW e \in Ends, Clode(e, cauda[e])
    PROVE  /\ canale' \in [Ends -> BOOLEAN] /\ labos' \in [Ends -> BOOLEAN] /\ up' \in BOOLEAN
           /\ cauda' \in [Ends -> Seq(Message \cup {ClosingTask})]
           /\ canale'[e] = FALSE /\ \A f \in Ends : f # e => canale'[f] = canale[f]
           /\ cauda'[e] \in {cauda[e], Append(cauda[e], ClosingTask)}
           /\ \A f \in Ends : f # e => cauda'[f] = cauda[f]
<1>1. cauda[e] \in Seq(Message \cup {ClosingTask})
  BY DEF TypeOK
<1>2. cauda[e] \o <<>> = cauda[e] /\ cauda[e] \o <<ClosingTask>> = Append(cauda[e], ClosingTask)
  BY <1>1, ConcatEmptySeq, AppendIsConcat
<1>3. Append(cauda[e], ClosingTask) \in Seq(Message \cup {ClosingTask})
  BY <1>1, AppendFacts
<1>4. cauda' = [cauda EXCEPT ![e] = cauda[e] \o (IF labos[e] THEN <<ClosingTask>> ELSE <<>>)]
  BY DEF Clode
<1>5. cauda[e] \o (IF labos[e] THEN <<ClosingTask>> ELSE <<>>) \in {cauda[e], Append(cauda[e], ClosingTask)}
  BY <1>2
<1>6. /\ cauda' \in [Ends -> Seq(Message \cup {ClosingTask})]
      /\ cauda'[e] \in {cauda[e], Append(cauda[e], ClosingTask)}
      /\ \A f \in Ends : f # e => cauda'[f] = cauda[f]
  BY <1>1, <1>3, <1>4, <1>5 DEF TypeOK
<1>. QED
  BY <1>6 DEF TypeOK, Clode

LEMMA Pops ==
    ASSUME TypeOK, NEW e \in Ends, NEW kind, Ready(e, kind), cauda' = Popped(e)
    PROVE  /\ cauda[e] # <<>> /\ cauda[e] \in Seq(Message \cup {ClosingTask})
           /\ cauda'[e] = Tail(cauda[e]) /\ \A f \in Ends : f # e => cauda'[f] = cauda[f]
           /\ cauda' \in [Ends -> Seq(Message \cup {ClosingTask})]
           /\ Head(cauda[e]).kind = kind
           /\ Head(cauda[e]) \in Message \/ Head(cauda[e]) = ClosingTask
<1>1. cauda[e] # <<>> /\ cauda[e] \in Seq(Message \cup {ClosingTask}) /\ Head(cauda[e]).kind = kind
  BY DEF TypeOK, Ready
<1>2. Tail(cauda[e]) \in Seq(Message \cup {ClosingTask}) /\ Head(cauda[e]) \in Message \cup {ClosingTask}
  BY <1>1, TailFacts
<1>. QED
  BY <1>1, <1>2 DEF TypeOK, Popped

LEMMA CallerTyped ==
    ASSUME TypeOK, NEW x \in Actors, Initia(x) \/ Proceed(x)
    PROVE  TypeOK'
<1>. DEFINE e == Home(x)
<1>0. e \in Ends /\ \A at \in Stages : Goto(x, at) => call' \in [Actors -> [at : Stages, n : Nat]]
  BY Homes, Goes
<1>s. Stages = {"idle", "initia", "exordi", "ended", "send", "wait", "woken", "refused", "take", "read"}
  BY DEF Stages
<1>n. None \in Answers \cup {None}
  OBVIOUS
<1>1. CASE Initia(x)
  <2>1. [at |-> "initia", n |-> call[x].n + 1] \in [at : Stages, n : Nat]
    BY <1>s DEF TypeOK
  <2>2. call' \in [Actors -> [at : Stages, n : Nat]]
    BY <2>1, <1>1 DEF TypeOK, Initia
  <2>. QED
    BY <2>2, <1>1 DEF TypeOK, Initia, netVars, endVars, service, store, turn
<1>2. CASE TakeTurn(x)
  <2>1. inv' \in [Ends -> Nat]
    <3>1. inv[e] - 1 \in Nat
      BY <1>0, <1>2 DEF TypeOK, TakeTurn
    <3>. QED
      BY <3>1, <1>2 DEF TypeOK, TakeTurn
  <2>2. crowded' \subseteq Ends /\ call' \in [Actors -> [at : Stages, n : Nat]]
    BY <1>0, <1>s, <1>2 DEF TypeOK, TakeTurn
  <2>. QED
    BY <2>1, <2>2, <1>2 DEF TypeOK, TakeTurn, netVars, service, store
<1>3. CASE GiveUp(x) \/ NoChannel(x) \/ TimeOut(x)
  <2>1. Ende(e) /\ Over(x, "broken", None)
        /\ UNCHANGED <<netVars, service, store, cauda, serving, crowded>>
    BY <1>3 DEF GiveUp, NoChannel, TimeOut
  <2>2. Goto(x, "idle")
    BY <2>1 DEF Over
  <2>. QED
    BY <2>1, <2>2, <1>0, <1>s, <1>n, GivesBack, Ends1 DEF TypeOK, netVars, service, store
<1>4. CASE FindChannel(x) \/ ReadStatus(x)
  <2>1. \E at \in Stages : Goto(x, at)
    BY <1>4, <1>s DEF FindChannel, ReadStatus
  <2>2. Ende(e) \/ UNCHANGED turn
    BY <1>4 DEF FindChannel, ReadStatus
  <2>3. UNCHANGED <<netVars, service, store, cauda, serving, result, crowded>>
    BY <1>4 DEF FindChannel, ReadStatus
  <2>. QED
    BY <2>1, <2>2, <2>3, <1>0, GivesBack DEF TypeOK, netVars, service, store, turn
<1>5. CASE Send(x)
  <2>0. UNCHANGED <<service, store, up, reading, broken, cauda, serving, crowded>>
    BY <1>5 DEF Send
  <2>1. CASE Transmit(e, Call(x)) /\ Goto(x, "wait") /\ UNCHANGED <<turn, result>>
    <3>1. wire' \in [Ends -> Seq(Message)] /\ sent' \in [Ends -> BOOLEAN]
      BY <2>1, <1>0, Calling, Transmitting
    <3>2. call' \in [Actors -> [at : Stages, n : Nat]]
      BY <2>1, <1>0, <1>s
    <3>. QED
      BY <2>0, <2>1, <3>1, <3>2 DEF TypeOK, service, store, turn
  <2>2. CASE Ende(e) /\ Over(x, "broken", None) /\ UNCHANGED <<wire, sent>>
    <3>1. Goto(x, "idle")
      BY <2>2 DEF Over
    <3>. QED
      BY <2>0, <2>2, <3>1, <1>0, <1>s, <1>n, GivesBack, Ends1 DEF TypeOK, service, store
  <2>. QED
    BY <1>5, <2>1, <2>2 DEF Send
<1>6. CASE WakeUp(x)
  BY <1>0, <1>s, <1>6 DEF TypeOK, WakeUp, netVars, endVars, service, store, turn
<1>7. CASE ThrowStatus(x)
  <2>1. data[e] \in Answers \cup {None}
    BY <1>0 DEF TypeOK
  <2>2. CASE Over(x, "error", data[e])
    <3>1. Goto(x, "idle")
      BY <2>2 DEF Over
    <3>. QED
      BY <2>1, <2>2, <3>1, <1>0, <1>s, <1>7, Ends1 DEF TypeOK, ThrowStatus, netVars, endVars, service, store, turn
  <2>3. CASE Goto(x, "take") /\ UNCHANGED result
    BY <2>3, <1>0, <1>s, <1>7 DEF TypeOK, ThrowStatus, netVars, endVars, service, store, turn
  <2>. QED
    BY <1>7, <2>2, <2>3 DEF ThrowStatus
<1>8. CASE TakeData(x)
  <2>1. call' \in [Actors -> [at : Stages, n : Nat]]
    BY <1>0, <1>s, <1>8 DEF TakeData
  <2>2. origo' \in [Ends -> Answers \cup {None}] /\ data' \in [Ends -> Answers \cup {None}]
    BY <1>0, <1>8 DEF TakeData, TypeOK
  <2>. QED
    BY <2>1, <2>2, <1>8 DEF TypeOK, TakeData, netVars, service
<1>9. CASE ReadResult(x)
  <2>1. origo[e] \in Answers \cup {None}
    BY <1>0 DEF TypeOK
  <2>2. Over(x, "broken", None) \/ Over(x, "ok", origo[e])
    BY <1>9 DEF ReadResult
  <2>3. Goto(x, "idle") /\ Ende(e) /\ UNCHANGED <<netVars, service, store, cauda, serving, crowded>>
    BY <2>2, <1>9 DEF Over, ReadResult
  <2>4. result' \in [Actors -> [n : Nat, how : {"none", "ok", "error", "broken"},
                                answer : Answers \cup {None}]]
    BY <2>1, <2>2, Ends1
  <2>. QED
    BY <2>3, <2>4, <1>0, <1>s, GivesBack DEF TypeOK, netVars, service, store
<1>. QED
  BY <1>1, <1>2, <1>3, <1>4, <1>5, <1>6, <1>7, <1>8, <1>9 DEF Proceed

LEMMA EndTyped ==
    ASSUME TypeOK, NEW e \in Ends, Dispatch(e) \/ Work(e) \/ Close(e)
    PROVE  TypeOK'
<1>1. CASE Deliver(e)
  <2>1. wire[e] \in Seq(Message) /\ wire[e] # <<>> /\ cauda[e] \in Seq(Message \cup {ClosingTask})
    BY <1>1 DEF TypeOK, Deliver
  <2>2. Tail(wire[e]) \in Seq(Message) /\ Append(cauda[e], Head(wire[e])) \in Seq(Message \cup {ClosingTask})
    BY <2>1, TailFacts, AppendFacts
  <2>3. wire' \in [Ends -> Seq(Message)] /\ cauda' \in [Ends -> Seq(Message \cup {ClosingTask})]
    BY <2>2, <1>1 DEF TypeOK, Deliver
  <2>. QED
    BY <2>3, <1>1 DEF TypeOK, Deliver, endVars, service, store, turn
<1>2. CASE FindBroken(e)
  <2>1. Clode(e, cauda[e]) /\ UNCHANGED <<store, turn, wire, calls, closings, serving, call, result, crowded>>
    BY <1>2 DEF FindBroken
  <2>2. reading' \in [Ends -> BOOLEAN] /\ sent' \in [Ends -> BOOLEAN] /\ broken' \in [Ends -> BOOLEAN]
    BY <1>2 DEF TypeOK, FindBroken
  <2>. QED
    BY <2>1, <2>2, Closes DEF TypeOK, store, turn
<1>3. CASE TellBroken(e)
  BY <1>3 DEF TypeOK, TellBroken, service
<1>4. CASE Serve(e)
  <2>1. Ready(e, "call") /\ cauda' = Popped(e) /\ UNCHANGED <<netVars, endVars, call, result, crowded>>
    BY <1>4 DEF Serve
  <2>2. Head(cauda[e]) \in Message
    BY <2>1, Pops, MessageTypes
  <2>3. serving' \in [Ends -> Ident \cup {None}]
    BY <2>2, <1>4, MessageTypes DEF TypeOK, Serve
  <2>. QED
    BY <2>1, <2>3, Pops DEF TypeOK, netVars, endVars, service, store, turn
<1>5. CASE Respond(e)
  <2>0. /\ serving' \in [Ends -> Ident \cup {None}]
        /\ UNCHANGED <<reading, broken, calls, inv, data, origo, closings, call, result, crowded>>
    BY <1>5 DEF TypeOK, Respond
  <2>1. CASE /\ \E error \in BOOLEAN : Transmit(e, Answer(serving[e], error))
             /\ UNCHANGED <<up, canale, labos, cauda, status, resp>>
    <3>1. PICK error \in BOOLEAN : Transmit(e, Answer(serving[e], error))
      BY <2>1
    <3>2. serving[e] \in Ident
      BY <1>5 DEF TypeOK, Respond
    <3>3. wire' \in [Ends -> Seq(Message)] /\ sent' \in [Ends -> BOOLEAN]
      BY <3>1, <3>2, MessageTypes, Transmitting
    <3>. QED
      BY <2>0, <2>1, <3>3 DEF TypeOK
  <2>2. CASE /\ Clode(e, cauda[e])
             /\ status' = [status EXCEPT ![e] = TRUE]
             /\ resp' = [resp EXCEPT ![e] = TRUE]
             /\ UNCHANGED <<wire, sent>>
    <3>1. status' \in [Ends -> BOOLEAN] /\ resp' \in [Ends -> BOOLEAN]
      BY <2>2 DEF TypeOK
    <3>. QED
      BY <2>0, <2>2, <3>1, Closes DEF TypeOK
  <2>. QED
    BY <2>1, <2>2, <1>5 DEF Respond
<1>6. CASE StoreAnswer(e)
  <2>1. /\ Ready(e, "answer") /\ cauda' = Popped(e)
        /\ UNCHANGED <<netVars, service, inv, origo, serving, call, result, crowded>>
    BY <1>6 DEF StoreAnswer
  <2>2. Head(cauda[e]) \in Message /\ Head(cauda[e]) \in Answers /\ Head(cauda[e]).error \in BOOLEAN
    BY <2>1, Pops, MessageTypes DEF Answers
  <2>3. data' \in [Ends -> Answers \cup {None}] /\ status' \in [Ends -> BOOLEAN] /\ resp' \in [Ends -> BOOLEAN]
    BY <2>2, <1>6 DEF TypeOK, StoreAnswer, Store
  <2>. QED
    BY <2>1, <2>3, Pops DEF TypeOK, netVars, service
<1>7. CASE RunClosing(e)
  <2>1. /\ Ready(e, "closing") /\ cauda' = Popped(e)
        /\ UNCHANGED <<netVars, store, turn, calls, canale, labos, serving, call, result, crowded>>
    BY <1>7 DEF RunClosing
  <2>2. closings' \in [Ends -> Nat]
    BY <1>7 DEF TypeOK, RunClosing
  <2>. QED
    BY <2>1, <2>2, Pops DEF TypeOK, netVars, store, turn
<1>8. CASE Close(e)
  <2>1. Clode(e, cauda[e])
        /\ UNCHANGED <<store, turn, wire, reading, sent, broken, calls, closings, serving, call, result, crowded>>
    BY <1>8 DEF Close
  <2>. QED
    BY <2>1, Closes DEF TypeOK, store, turn
<1>. QED
  BY <1>1, <1>2, <1>3, <1>4, <1>5, <1>6, <1>7, <1>8 DEF Dispatch, Work

----------------------------------------------------------------------------
(* What a step does to what is under way.                                  *)

LEMMA DeliverWay ==
    ASSUME TypeOK, NEW f \in Ends, Deliver(f), NEW e \in Ends
    PROVE  Shrinks(e)
<1>. DEFINE m == Head(wire[f])
<1>0. /\ wire[f] \in Seq(Message) /\ wire[f] # <<>> /\ cauda[f] \in Seq(Message \cup {ClosingTask})
      /\ wire'[f] = Tail(wire[f]) /\ cauda'[f] = Append(cauda[f], m)
      /\ \A g \in Ends : g # f => wire'[g] = wire[g] /\ cauda'[g] = cauda[g]
      /\ serving' = serving
  BY DEF TypeOK, Deliver
<1>1. m \in Message /\ m.kind \in {"call", "answer"} /\ m \in Message \cup {ClosingTask}
  <2>1. m \in Message
    BY <1>0, TailFacts
  <2>. HIDE DEF m
  <2>. QED
    BY <2>1 DEF Message
<1>2. Other(e) \in Ends /\ Other(e) # e /\ (e # f => Other(e) = f)
  BY Ends2
<1>3. \A kind : /\ Ids(wire'[f], kind) \subseteq Ids(wire[f], kind)
                /\ m.kind = kind => m.id \in Ids(wire[f], kind)
                /\ One(wire[f], kind) => One(wire'[f], kind)
                /\ One(wire[f], kind) /\ m.kind = kind =>
                     Ids(wire[f], kind) = {m.id} /\ Ids(wire'[f], kind) = {}
  BY <1>0, Popping
<1>4. \A kind : /\ m.kind = kind => Ids(cauda'[f], kind) = Ids(cauda[f], kind) \cup {m.id}
                /\ m.kind # kind => Ids(cauda'[f], kind) = Ids(cauda[f], kind)
                /\ One(cauda[f], kind) /\ (m.kind = kind => Ids(cauda[f], kind) = {})
                     => One(cauda'[f], kind)
  <2>. TAKE kind
  <2>1. /\ m.kind = kind => Ids(Append(cauda[f], m), kind) = Ids(cauda[f], kind) \cup {m.id}
        /\ m.kind # kind => Ids(Append(cauda[f], m), kind) = Ids(cauda[f], kind)
        /\ One(cauda[f], kind) /\ (m.kind = kind => Ids(cauda[f], kind) = {})
             => One(Append(cauda[f], m), kind)
    <3>1. PICK q : q = cauda[f]
      OBVIOUS
    <3>2. q \in Seq(Message \cup {ClosingTask}) /\ m \in Message \cup {ClosingTask}
      BY <1>0, <1>1, <3>1
    <3>. HIDE DEF m
    <3>3. /\ m.kind = kind => Ids(Append(q, m), kind) = Ids(q, kind) \cup {m.id}
          /\ m.kind # kind => Ids(Append(q, m), kind) = Ids(q, kind)
          /\ One(q, kind) /\ (m.kind = kind => Ids(q, kind) = {}) => One(Append(q, m), kind)
      BY <3>2, IdsOfAppend
    <3>. QED
      BY <3>1, <3>3
  <2>. QED
    BY <2>1, <1>0
<1>. HIDE DEF m
<1>5. CASE e = f
  <2>1. Way(e, "called")' = Way(e, "called") /\ Way(e, "queued")' = Way(e, "queued")
        /\ Way(e, "served")' = Way(e, "served")
    <3>1. /\ wire'[Other(e)] = wire[Other(e)] /\ cauda'[Other(e)] = cauda[Other(e)]
          /\ serving'[Other(e)] = serving[Other(e)]
      BY <1>0, <1>2, <1>5
    <3>. QED
      BY <3>1, WayIs, WayIsNext
  <2>2. CASE m.kind = "answer"
    <3>1. /\ Way(e, "answered") # {} /\ Way(e, "answered")' \subseteq Way(e, "answered")
          /\ Way(e, "returned")' \subseteq Way(e, "answered") \cup Way(e, "returned")
      BY <1>3, <1>4, <1>5, <2>2, WayIs, WayIsNext
    <3>2. ASSUME OneUnderWay(e) PROVE Way(e, "answered")' = {} /\ OneEach(e)'
      <4>1. Way(e, "returned") = {}
        BY <3>1, <3>2 DEF OneUnderWay, Exclusive, Legs
      <4>. QED
        BY <4>1, <3>2, <1>0, <1>2, <1>3, <1>4, <1>5, <2>2, WayIs, WayIsNext DEF OneUnderWay, OneEach
    <3>. QED
      BY <3>1, <3>2, <2>1, Passing DEF Legs
  <2>3. CASE m.kind = "call"
    <3>1. Way(e, "answered")' \subseteq Way(e, "answered") /\ Way(e, "returned")' = Way(e, "returned")
      BY <1>3, <1>4, <1>5, <2>3, WayIs, WayIsNext
    <3>2. OneEach(e) => OneEach(e)'
      BY <1>0, <1>2, <1>3, <1>4, <1>5, <2>3 DEF OneEach
    <3>. QED
      BY <3>1, <3>2, <2>1, Resting DEF Legs
  <2>. QED
    BY <1>1, <2>2, <2>3
<1>6. CASE e # f
  <2>1. Way(e, "answered")' = Way(e, "answered") /\ Way(e, "returned")' = Way(e, "returned")
        /\ Way(e, "served")' = Way(e, "served")
    <3>1. wire'[e] = wire[e] /\ cauda'[e] = cauda[e] /\ serving'[Other(e)] = serving[Other(e)]
      BY <1>0, <1>6
    <3>. QED
      BY <3>1, WayIs, WayIsNext
  <2>2. CASE m.kind = "call"
    <3>1. /\ Way(e, "called") # {} /\ Way(e, "called")' \subseteq Way(e, "called")
          /\ Way(e, "queued")' \subseteq Way(e, "called") \cup Way(e, "queued")
      BY <1>2, <1>3, <1>4, <1>6, <2>2, WayIs, WayIsNext
    <3>2. ASSUME OneUnderWay(e) PROVE Way(e, "called")' = {} /\ OneEach(e)'
      <4>1. Way(e, "queued") = {}
        BY <3>1, <3>2 DEF OneUnderWay, Exclusive, Legs
      <4>. QED
        <5>1. Other(e) = f /\ wire'[e] = wire[e] /\ cauda'[e] = cauda[e]
          BY <1>0, <1>2, <1>6
        <5>2. Way(e, "called")' = {}
          BY <5>1, <3>2, <1>3, <2>2, WayIsNext DEF OneUnderWay, OneEach
        <5>3. OneEach(e)'
          BY <5>1, <4>1, <3>2, <1>3, <1>4, <2>2, WayIs DEF OneUnderWay, OneEach
        <5>. QED
          BY <5>2, <5>3
    <3>. QED
      BY <3>1, <3>2, <2>1, Passing DEF Legs
  <2>3. CASE m.kind = "answer"
    <3>1. Way(e, "called")' \subseteq Way(e, "called") /\ Way(e, "queued")' = Way(e, "queued")
      BY <1>2, <1>3, <1>4, <1>6, <2>3, WayIs, WayIsNext
    <3>2. OneEach(e) => OneEach(e)'
      BY <1>0, <1>2, <1>3, <1>4, <1>6, <2>3 DEF OneEach
    <3>. QED
      BY <3>1, <3>2, <2>1, Resting DEF Legs
  <2>. QED
    BY <1>1, <2>2, <2>3
<1>. QED
  BY <1>5, <1>6

LEMMA ServeWay ==
    ASSUME TypeOK, NEW f \in Ends, Serve(f), NEW e \in Ends
    PROVE  Shrinks(e)
<1>. DEFINE m == Head(cauda[f])
<1>0. /\ cauda[f] # <<>> /\ cauda[f] \in Seq(Message \cup {ClosingTask}) /\ m.kind = "call"
      /\ cauda'[f] = Tail(cauda[f]) /\ \A g \in Ends : g # f => cauda'[g] = cauda[g]
      /\ serving[f] = None /\ serving'[f] = m.id /\ \A g \in Ends : g # f => serving'[g] = serving[g]
      /\ wire' = wire
  BY Pops DEF TypeOK, Serve, Ready, netVars
<1>2. Other(e) \in Ends /\ Other(e) # e /\ (e # f => Other(e) = f)
  BY Ends2
<1>3. \A kind : /\ Ids(cauda'[f], kind) \subseteq Ids(cauda[f], kind)
                /\ m.kind = kind => m.id \in Ids(cauda[f], kind)
                /\ One(cauda[f], kind) => One(cauda'[f], kind)
                /\ One(cauda[f], kind) /\ m.kind = kind =>
                     Ids(cauda[f], kind) = {m.id} /\ Ids(cauda'[f], kind) = {}
  <2>1. PICK q : q = cauda[f]
    OBVIOUS
  <2>2. PICK p : p = cauda'[f]
    OBVIOUS
  <2>3. q \in Seq(Message \cup {ClosingTask}) /\ q # <<>> /\ p = Tail(q) /\ m = Head(q)
    BY <1>0, <2>1, <2>2
  <2>. HIDE DEF m
  <2>4. \A kind : /\ Ids(p, kind) \subseteq Ids(q, kind)
                  /\ m.kind = kind => m.id \in Ids(q, kind)
                  /\ One(q, kind) => One(p, kind)
                  /\ One(q, kind) /\ m.kind = kind => Ids(q, kind) = {m.id} /\ Ids(p, kind) = {}
    BY <2>3, Popping
  <2>. QED
    BY <2>1, <2>2, <2>4
<1>. HIDE DEF m
<1>5. CASE e = f
  <2>1. \A leg \in Legs : Way(e, leg)' \subseteq Way(e, leg)
    BY <1>0, <1>2, <1>3, <1>5, WayIs, WayIsNext DEF Legs
  <2>2. OneEach(e) => OneEach(e)'
    BY <1>0, <1>2, <1>3, <1>5 DEF OneEach
  <2>. QED
    BY <2>1, <2>2, Resting
<1>6. CASE e # f
  <2>1. /\ Way(e, "called")' = Way(e, "called") /\ Way(e, "answered")' = Way(e, "answered")
        /\ Way(e, "returned")' = Way(e, "returned")
    BY <1>0, <1>2, <1>6, WayIs, WayIsNext
  <2>2. /\ Way(e, "queued") # {} /\ Way(e, "queued")' \subseteq Way(e, "queued")
        /\ Way(e, "served")' \subseteq Way(e, "queued") \cup Way(e, "served")
    BY <1>0, <1>2, <1>3, <1>6, WayIs, WayIsNext, Somes DEF Some
  <2>3. OneUnderWay(e) => Way(e, "queued")' = {} /\ OneEach(e)'
    BY <1>0, <1>2, <1>3, <1>6, WayIs, WayIsNext DEF OneUnderWay, OneEach
  <2>. QED
    BY <2>1, <2>2, <2>3, Passing DEF Legs
<1>. QED
  BY <1>5, <1>6

LEMMA PopWay ==
    ASSUME TypeOK, NEW f \in Ends, StoreAnswer(f) \/ RunClosing(f), NEW e \in Ends
    PROVE  Shrinks(e)
<1>0. /\ cauda[f] # <<>> /\ cauda[f] \in Seq(Message \cup {ClosingTask})
      /\ cauda'[f] = Tail(cauda[f]) /\ \A g \in Ends : g # f => cauda'[g] = cauda[g]
      /\ UNCHANGED <<wire, serving>>
  BY Pops DEF StoreAnswer, RunClosing, netVars
<1>2. Other(e) \in Ends /\ Other(e) # e /\ (e # f => Other(e) = f)
  BY Ends2
<1>3. \A kind : /\ Ids(cauda'[f], kind) \subseteq Ids(cauda[f], kind)
                /\ One(cauda[f], kind) => One(cauda'[f], kind)
  BY <1>0, Popping
<1>4. \A g \in Ends : \A kind : Ids(cauda'[g], kind) \subseteq Ids(cauda[g], kind)
                            /\ (One(cauda[g], kind) => One(cauda'[g], kind))
  BY <1>0, <1>3
<1>5. \A leg \in Legs : Way(e, leg)' \subseteq Way(e, leg)
  <2>1. /\ Way(e, "called")' = Way(e, "called") /\ Way(e, "answered")' = Way(e, "answered")
        /\ Way(e, "served")' = Way(e, "served")
    BY <1>0, WayIs, WayIsNext
  <2>2. Way(e, "queued")' \subseteq Way(e, "queued") /\ Way(e, "returned")' \subseteq Way(e, "returned")
    BY <1>2, <1>4, WayIs, WayIsNext
  <2>. QED
    BY <2>1, <2>2 DEF Legs
<1>6. OneEach(e) => OneEach(e)'
  BY <1>0, <1>2, <1>4 DEF OneEach
<1>. QED
  BY <1>5, <1>6, Resting

\* The answer stored was all that was under way.
LEMMA StoreWay ==
    ASSUME TypeOK, NEW e \in Ends, StoreAnswer(e)
    PROVE  /\ Head(cauda[e]) \in Answers /\ Head(cauda[e]).id \in UnderWay(e)
           /\ OneUnderWay(e) => UnderWay(e)' = {}
<1>. DEFINE m == Head(cauda[e])
<1>0. /\ cauda[e] # <<>> /\ cauda[e] \in Seq(Message \cup {ClosingTask}) /\ m.kind = "answer"
      /\ m \in Message \/ m = ClosingTask
      /\ cauda'[e] = Tail(cauda[e]) /\ \A g \in Ends : g # e => cauda'[g] = cauda[g]
      /\ UNCHANGED <<wire, serving>>
  BY Pops DEF StoreAnswer, netVars
<1>1. m \in Answers
  BY <1>0, MessageTypes DEF Answers
<1>2. /\ m.id \in Ids(cauda[e], "answer")
      /\ One(cauda[e], "answer") => Ids(cauda'[e], "answer") = {}
  <2>1. /\ Head(cauda[e]).kind = "answer" => Head(cauda[e]).id \in Ids(cauda[e], "answer")
        /\ One(cauda[e], "answer") /\ Head(cauda[e]).kind = "answer" => Ids(Tail(cauda[e]), "answer") = {}
    BY <1>0, IdsOfTail
  <2>. QED
    BY <1>0, <2>1
<1>3. m.id \in Way(e, "returned")
  BY <1>2, WayIs
<1>4. m.id \in UnderWay(e)
  BY <1>3 DEF UnderWay, Legs
<1>. HIDE DEF m
<1>5. ASSUME OneUnderWay(e) PROVE UnderWay(e)' = {}
  <2>1. Way(e, "returned")' = {}
    BY <1>2, <1>5, WayIsNext DEF OneUnderWay, OneEach
  <2>2. Other(e) \in Ends /\ Other(e) # e
    BY Ends2
  <2>3. \A leg \in Legs \ {"returned"} : Way(e, leg)' = Way(e, leg)
    <3>1. cauda'[Other(e)] = cauda[Other(e)]
      BY <1>0, <2>2
    <3>2. /\ Way(e, "called")' = Way(e, "called") /\ Way(e, "answered")' = Way(e, "answered")
          /\ Way(e, "served")' = Way(e, "served") /\ Way(e, "queued")' = Way(e, "queued")
      BY <3>1, <1>0, WayIs, WayIsNext
    <3>. QED
      BY <3>2 DEF Legs
  <2>4. \A leg \in Legs \ {"returned"} : Way(e, leg) = {}
    BY <1>3, <1>5 DEF OneUnderWay, Exclusive, Legs
  <2>. QED
    BY <2>1, <2>3, <2>4 DEF UnderWay
<1>. QED
  BY <1>1, <1>4, <1>5 DEF m

LEMMA ClodeWay ==
    ASSUME TypeOK, NEW f \in Ends, Clode(f, cauda[f]), UNCHANGED <<wire, serving>>, NEW e \in Ends
    PROVE  Shrinks(e)
<1>1. cauda[f] \in Seq(Message \cup {ClosingTask}) /\ ClosingTask.kind = "closing"
  BY MessageTypes DEF TypeOK
<1>2. \A kind \in {"call", "answer"} : /\ Ids(cauda'[f], kind) = Ids(cauda[f], kind)
                                       /\ One(cauda[f], kind) => One(cauda'[f], kind)
  <2>. SUFFICES ASSUME NEW kind \in {"call", "answer"}
                PROVE  /\ Ids(cauda'[f], kind) = Ids(cauda[f], kind)
                       /\ One(cauda[f], kind) => One(cauda'[f], kind)
    OBVIOUS
  <2>1. CASE cauda'[f] = cauda[f]
    BY <2>1
  <2>2. CASE cauda'[f] = Append(cauda[f], ClosingTask)
    <3>1. ClosingTask.kind # kind
      BY <1>1
    <3>. QED
      BY <2>2, <3>1, <1>1, IdsOfAppend
  <2>. QED
    BY <2>1, <2>2, Closes
<1>3. \A g \in Ends : g # f => cauda'[g] = cauda[g]
  BY Closes
<1>4. \A g \in Ends : \A kind \in {"call", "answer"} :
          Ids(cauda'[g], kind) = Ids(cauda[g], kind) /\ (One(cauda[g], kind) => One(cauda'[g], kind))
  BY <1>2, <1>3
<1>5. Other(e) \in Ends
  BY Ends2
<1>6. \A leg \in Legs : Way(e, leg)' \subseteq Way(e, leg)
  BY <1>4, <1>5, WayIs, WayIsNext DEF Legs
<1>7. OneEach(e) => OneEach(e)'
  BY <1>4, <1>5 DEF OneEach
<1>. QED
  BY <1>6, <1>7, Resting

LEMMA RespondWay ==
    ASSUME TypeOK, NEW f \in Ends, Respond(f), NEW e \in Ends
    PROVE  Shrinks(e)
<1>. DEFINE id == serving[f]
<1>0. /\ id # None /\ id \in Ident
      /\ serving'[f] = None /\ \A g \in Ends : g # f => serving'[g] = serving[g]
  BY DEF TypeOK, Respond
<1>1. Other(e) \in Ends /\ Other(e) # e /\ (e # f => Other(e) = f) /\ Other(f) \in Ends /\ Other(f) # f
  BY Ends2
<1>2. Way(e, "served")' \subseteq Way(e, "served") /\ (e # f => Way(e, "served")' = {})
  BY <1>0, <1>1, WayIs, WayIsNext, Somes
<1>3. CASE UNCHANGED <<wire, cauda>>
  <2>1. \A leg \in Legs : Way(e, leg)' \subseteq Way(e, leg)
    BY <1>2, <1>3, WayIs, WayIsNext DEF Legs
  <2>2. OneEach(e) => OneEach(e)'
    BY <1>3 DEF OneEach
  <2>. QED
    BY <2>1, <2>2, Resting
<1>4. CASE wire' = wire /\ Clode(f, cauda[f])
  <2>1. \A g \in Ends : \A kind \in {"call", "answer"} :
          Ids(cauda'[g], kind) = Ids(cauda[g], kind) /\ (One(cauda[g], kind) => One(cauda'[g], kind))
    <3>. SUFFICES ASSUME NEW g \in Ends, NEW kind \in {"call", "answer"}
                  PROVE  Ids(cauda'[g], kind) = Ids(cauda[g], kind)
                         /\ (One(cauda[g], kind) => One(cauda'[g], kind))
      OBVIOUS
    <3>1. cauda[g] \in Seq(Message \cup {ClosingTask}) /\ ClosingTask.kind # kind
      BY MessageTypes DEF TypeOK
    <3>2. CASE cauda'[g] = cauda[g]
      BY <3>2
    <3>3. CASE cauda'[g] = Append(cauda[g], ClosingTask)
      BY <3>1, <3>3, IdsOfAppend
    <3>. QED
      BY <3>2, <3>3, <1>4, Closes
  <2>2. \A leg \in Legs : Way(e, leg)' \subseteq Way(e, leg)
    BY <2>1, <1>1, <1>2, <1>4, WayIs, WayIsNext DEF Legs
  <2>3. OneEach(e) => OneEach(e)'
    BY <2>1, <1>1, <1>4 DEF OneEach
  <2>. QED
    BY <2>2, <2>3, Resting
<1>5. CASE /\ cauda' = cauda
           /\ \E error \in BOOLEAN : wire' = [wire EXCEPT ![Other(f)] = Append(@, Answer(id, error))]
  <2>1. PICK error \in BOOLEAN : wire' = [wire EXCEPT ![Other(f)] = Append(@, Answer(id, error))]
    BY <1>5
  <2>. DEFINE m == Answer(id, error)
  <2>2. m \in Message /\ m.kind = "answer" /\ m.id = id
    BY <1>0, MessageTypes
  <2>3. /\ wire'[Other(f)] = Append(wire[Other(f)], m) /\ wire[Other(f)] \in Seq(Message)
        /\ wire'[f] = wire[f]
    BY <2>1, <1>1 DEF TypeOK
  <2>. HIDE DEF m, id
  <2>4. /\ Ids(wire'[Other(f)], "answer") = Ids(wire[Other(f)], "answer") \cup {id}
        /\ Ids(wire'[Other(f)], "call") = Ids(wire[Other(f)], "call")
        /\ One(wire[Other(f)], "call") => One(wire'[Other(f)], "call")
        /\ One(wire[Other(f)], "answer") /\ Ids(wire[Other(f)], "answer") = {}
             => One(wire'[Other(f)], "answer")
    <3>1. \A kind : /\ m.kind = kind => Ids(Append(wire[Other(f)], m), kind) = Ids(wire[Other(f)], kind) \cup {m.id}
                    /\ m.kind # kind => Ids(Append(wire[Other(f)], m), kind) = Ids(wire[Other(f)], kind)
                    /\ One(wire[Other(f)], kind) /\ (m.kind = kind => Ids(wire[Other(f)], kind) = {})
                         => One(Append(wire[Other(f)], m), kind)
      <4>1. wire[Other(f)] \in Seq(Message) /\ m \in Message
        BY <2>2, <2>3
      <4>. TAKE kind
      <4>. QED
        BY <4>1, IdsOfAppend
    <3>. QED
      BY <3>1, <2>2, <2>3
  <2>5. CASE e = f
    <3>1. \A leg \in Legs : Way(e, leg)' \subseteq Way(e, leg)
      BY <2>3, <2>4, <2>5, <1>2, <1>5, WayIs, WayIsNext DEF Legs
    <3>2. OneEach(e) => OneEach(e)'
      BY <2>3, <2>4, <2>5, <1>5 DEF OneEach
    <3>. QED
      BY <3>1, <3>2, Resting
  <2>6. CASE e # f
    <3>0. e = Other(f) /\ f = Other(e)
      BY <2>6, Ends2
    <3>1. Way(e, "served") = {id} /\ Way(e, "served")' = {}
      BY <3>0, <1>0, <1>2, <2>6, WayIs, Somes DEF id
    <3>2. Way(e, "answered")' \subseteq Way(e, "answered") \cup Way(e, "served")
      BY <3>0, <3>1, <2>4, WayIs, WayIsNext
    <3>3. \A leg \in Legs \ {"served", "answered"} : Way(e, leg)' = Way(e, leg)
      BY <3>0, <2>3, <1>5, WayIs, WayIsNext DEF Legs
    <3>4. ASSUME OneUnderWay(e) PROVE OneEach(e)'
      <4>1. Way(e, "answered") = {}
        BY <3>1, <3>4 DEF OneUnderWay, Exclusive, Legs
      <4>2. Ids(wire[Other(f)], "answer") = {}
        BY <4>1, <3>0, WayIs
      <4>. QED
        BY <4>2, <3>0, <3>4, <2>3, <2>4, <1>5 DEF OneUnderWay, OneEach
    <3>. QED
      BY <3>1, <3>2, <3>3, <3>4, Passing DEF Legs
  <2>. QED
    BY <2>5, <2>6
<1>. QED
  BY <1>3, <1>4, <1>5 DEF Respond, Transmit

\* A call is sent.
LEMMA SendWay ==
    ASSUME TypeOK, NEW x \in Actors, Transmit(Home(x), Call(x)), UNCHANGED <<cauda, serving>>,
           NEW e \in Ends
    PROVE  /\ e # Home(x) => Shrinks(e)
           /\ UnderWay(e)' \subseteq UnderWay(e) \cup {Id(x)}
           /\ OneUnderWay(e) /\ UnderWay(e) = {} => OneUnderWay(e)'
<1>. DEFINE h == Home(x)
            g == Other(h)
<1>0. h \in Ends /\ g \in Ends /\ g # h /\ Other(g) = h /\ (e # h => e = g) /\ Other(e) \in Ends
  BY Homes, Ends2
<1>1. CASE ~up
  <2>1. UNCHANGED <<wire, cauda, serving>>
    BY <1>1 DEF Transmit
  <2>. QED
    BY <2>1, SameWay
<1>2. CASE up
  <2>1. /\ wire'[g] = Append(wire[g], Call(x)) /\ wire[g] \in Seq(Message)
        /\ \A f \in Ends : f # g => wire'[f] = wire[f]
    BY <1>0, <1>2 DEF TypeOK, Transmit
  <2>2. /\ Ids(wire'[g], "call") = Ids(wire[g], "call") \cup {Id(x)}
        /\ Ids(wire'[g], "answer") = Ids(wire[g], "answer")
        /\ One(wire[g], "answer") => One(wire'[g], "answer")
        /\ One(wire[g], "call") /\ Ids(wire[g], "call") = {} => One(wire'[g], "call")
    <3>0. Call(x) \in Message /\ Call(x).kind = "call" /\ Call(x).id = Id(x)
      BY Calling
    <3>1. \A kind : /\ Call(x).kind = kind => Ids(Append(wire[g], Call(x)), kind) = Ids(wire[g], kind) \cup {Call(x).id}
                    /\ Call(x).kind # kind => Ids(Append(wire[g], Call(x)), kind) = Ids(wire[g], kind)
                    /\ One(wire[g], kind) /\ (Call(x).kind = kind => Ids(wire[g], kind) = {})
                         => One(Append(wire[g], Call(x)), kind)
      BY <2>1, <3>0, IdsOfAppend
    <3>. QED
      BY <3>0, <3>1, <2>1
  <2>. HIDE DEF h, g
  <2>3. CASE e # h
    <3>0. e = g /\ Other(e) = h /\ Other(e) # g
      BY <1>0, <2>3
    <3>1. \A leg \in Legs : Way(e, leg)' \subseteq Way(e, leg)
      <4>1. wire'[Other(e)] = wire[Other(e)]
        BY <3>0, <1>0, <2>1
      <4>2. /\ Way(e, "called")' = Way(e, "called") /\ Way(e, "answered")' = Way(e, "answered")
            /\ Way(e, "served")' = Way(e, "served") /\ Way(e, "queued")' = Way(e, "queued")
            /\ Way(e, "returned")' = Way(e, "returned")
        BY <4>1, <3>0, <2>2, WayIs, WayIsNext
      <4>. QED
        BY <4>2 DEF Legs
    <3>2. OneEach(e) => OneEach(e)'
      BY <3>0, <1>0, <2>1, <2>2 DEF OneEach
    <3>3. Shrinks(e)
      BY <3>1, <3>2, Resting
    <3>. QED
      BY <3>3 DEF Shrinks
  <2>4. CASE e = h
    <3>0. Other(e) = g /\ e # g
      BY <1>0, <2>4 DEF g
    <3>1. /\ Way(e, "called")' = Way(e, "called") \cup {Id(x)}
          /\ \A leg \in Legs \ {"called"} : Way(e, leg)' = Way(e, leg)
      <4>1. wire'[e] = wire[e]
        BY <3>0, <1>0, <2>1, <2>4
      <4>2. /\ Way(e, "called")' = Way(e, "called") \cup {Id(x)}
            /\ Way(e, "answered")' = Way(e, "answered")
            /\ Way(e, "served")' = Way(e, "served") /\ Way(e, "queued")' = Way(e, "queued")
            /\ Way(e, "returned")' = Way(e, "returned")
        BY <4>1, <3>0, <2>2, WayIs, WayIsNext
      <4>. QED
        BY <4>2 DEF Legs
    <3>2. UnderWay(e)' \subseteq UnderWay(e) \cup {Id(x)}
      BY <3>1 DEF UnderWay
    <3>3. ASSUME OneUnderWay(e), UnderWay(e) = {} PROVE OneUnderWay(e)'
      <4>1. \A leg \in Legs : Way(e, leg) = {}
        BY <3>3 DEF UnderWay
      <4>2. Exclusive(e)'
        BY <4>1, <3>1 DEF Exclusive
      <4>3. Ids(wire[g], "call") = {}
        BY <4>1, <3>0, WayIs DEF Legs
      <4>4. OneEach(e)'
        BY <4>3, <3>0, <3>3, <1>0, <2>1, <2>2 DEF OneUnderWay, OneEach
      <4>. QED
        BY <4>2, <4>4 DEF OneUnderWay
    <3>. QED
      BY <3>2, <3>3, <2>4 DEF h
  <2>. QED
    BY <2>3, <2>4
<1>. QED
  BY <1>1, <1>2

----------------------------------------------------------------------------
(* What a service knows of its calls.                                      *)
Sound(e) == AnswerComes(e) /\ (canale[e] => OneTurn(e))

\* A step that leaves e, its callers and what it keeps alone.
LEMMA Elsewhere ==
    ASSUME NEW e \in Ends, \A x \in Of(e) : call'[x] = call[x],
           status'[e] = status[e], data'[e] = data[e], origo'[e] = origo[e],
           inv'[e] = inv[e], resp'[e] = resp[e], canale'[e] => canale[e],
           Shrinks(e), Sound(e)
    PROVE  Sound(e)'
<1>0. /\ \A x \in Of(e) : Id(x)' = Id(x) /\ \A s : In(x, s)' <=> In(x, s)
      /\ UnderWay(e)' \subseteq UnderWay(e) /\ StoredFor(e)' = StoredFor(e)
      /\ \A x \in Of(e) : \A at : At(x, at)' <=> At(x, at)
      /\ Of(e)' = Of(e)
  BY DEF Id, In, At, StoredFor, Shrinks, Of
<1>1. OneUnderWay(e)'
  BY DEF Shrinks, Sound, AnswerComes
<1>2. OneSender(e)' /\ QuietWhile(e)' /\ OwnUnderWay(e)'
  BY <1>0 DEF Sound, AnswerComes, OneSender, QuietWhile, OwnUnderWay
<1>3. Told(e)' /\ Takes(e)' /\ Reads(e)'
  BY <1>0 DEF Sound, AnswerComes, Told, Takes, Reads, Answer
<1>4. ASSUME canale'[e] PROVE OneTurn(e)'
  <2>0. OneTurn(e) /\ (TurnFree(e)' <=> TurnFree(e))
    BY <1>0, <1>4 DEF Sound, TurnFree
  <2>1. OneTurner(e)' /\ TurnCounted(e)' /\ SignalForOne(e)' /\ Awaited(e)'
    BY <1>0, <2>0 DEF OneTurn, OneTurner, TurnCounted, SignalForOne, Awaited
  <2>2. Kept(e)' /\ RefusedAlone(e)' /\ ReadsOwn(e)'
    BY <1>0, <2>0 DEF OneTurn, Kept, RefusedAlone, ReadsOwn, Answer
  <2>. QED
    BY <2>1, <2>2 DEF OneTurn
<1>. QED
  BY <1>1, <1>2, <1>3, <1>4 DEF Sound, AnswerComes


\* A caller that has no turn and takes none.
LEMMA AsideSound ==
    ASSUME TypeOK, NEW x \in Actors, In(x, {"idle", "refused"}),
           call'[x].at \in {"idle", "initia"}, \A y \in Actors : y # x => call'[y] = call[y],
           UNCHANGED <<canale, status, data, origo, inv, resp, wire, cauda, serving>>,
           Sound(Home(x))
    PROVE  Sound(Home(x))'
<1>. DEFINE e == Home(x)
<1>0. /\ e \in Ends /\ Of(e)' = Of(e) /\ x \in Of(e)
      /\ \A y \in Of(e) : y # x => call'[y] = call[y]
      /\ call[x].at \in {"idle", "refused"} /\ call'[x].at \in {"idle", "initia"}
      /\ canale' = canale /\ status' = status /\ data' = data /\ origo' = origo /\ inv' = inv /\ resp' = resp
      /\ UNCHANGED <<wire, cauda, serving>>
  BY Homes DEF In, Of
<1>. HIDE DEF e
<1>2. /\ UnderWay(e)' = UnderWay(e) /\ (OneUnderWay(e)' <=> OneUnderWay(e)) /\ StoredFor(e)' = StoredFor(e)
  <2>1. UnderWay(e)' = UnderWay(e) /\ (OneUnderWay(e)' <=> OneUnderWay(e))
    BY <1>0, SameWay
  <2>. QED
    BY <2>1, <1>0 DEF StoredFor
<1>3. AnswerComes(e) /\ (canale[e] => OneTurn(e))
  BY DEF Sound, e
<1>4. OneSender(e)'
  BY <1>0, <1>2, <1>3 DEF AnswerComes, OneSender, In, Sending
<1>5. QuietWhile(e)'
  BY <1>0, <1>2, <1>3 DEF AnswerComes, QuietWhile, In
<1>6. OwnUnderWay(e)'
  BY <1>0, <1>2, <1>3 DEF AnswerComes, OwnUnderWay, In, Id
<1>7. Told(e)'
  BY <1>0, <1>2, <1>3 DEF AnswerComes, Told, In, Id, Answer
<1>8. Takes(e)'
  BY <1>0, <1>2, <1>3 DEF AnswerComes, Takes, At, Id, Answer
<1>9. Reads(e)'
  BY <1>0, <1>2, <1>3 DEF AnswerComes, Reads, At, Id, Answer
<1>10. ASSUME canale'[e] PROVE OneTurn(e)'
  <2>0. OneTurn(e)
    BY <1>0, <1>3, <1>10
  <2>t. TurnFree(e)' <=> TurnFree(e)
    BY <1>0 DEF TurnFree, In, Turning
  <2>1. OneTurner(e)'
    BY <1>0, <2>0 DEF OneTurn, OneTurner, In, Turning
  <2>2. TurnCounted(e)'
    BY <1>0, <2>0, <2>t DEF OneTurn, TurnCounted
  <2>3. SignalForOne(e)'
    BY <1>0, <2>0 DEF OneTurn, SignalForOne, In
  <2>4. Awaited(e)'
    BY <1>0, <1>2, <2>0 DEF OneTurn, Awaited, At
  <2>5. Kept(e)'
    BY <1>0, <2>0 DEF OneTurn, Kept, In, At, Id, Answer
  <2>6. RefusedAlone(e)'
    BY <1>0, <2>0, <2>t DEF OneTurn, RefusedAlone, At
  <2>7. ReadsOwn(e)'
    BY <1>0, <2>0 DEF OneTurn, ReadsOwn, At, Id, Answer
  <2>. QED
    BY <2>1, <2>2, <2>3, <2>4, <2>5, <2>6, <2>7 DEF OneTurn
<1>. QED
  BY <1>2, <1>3, <1>4, <1>5, <1>6, <1>7, <1>8, <1>9, <1>10 DEF Sound, AnswerComes, e

LEMMA TakeTurnSound ==
    ASSUME TypeOK, NEW x \in Actors, TakeTurn(x), Home(x) \notin crowded', Sound(Home(x))
    PROVE  Sound(Home(x))'
<1>. DEFINE e == Home(x)
<1>0. /\ e \in Ends /\ Of(e)' = Of(e) /\ x \in Of(e)
      /\ \A y \in Of(e) : y # x => call'[y] = call[y]
      /\ call[x].at = "initia" /\ call'[x].at = "exordi" /\ call'[x].n = call[x].n
      /\ \A y \in Of(e) : ~At(y, "refused")
      /\ inv[e] \in Nat /\ inv[e] > 0 /\ inv'[e] = inv[e] - 1
      /\ canale' = canale /\ status' = status /\ data' = data /\ origo' = origo /\ resp' = resp
      /\ UNCHANGED <<wire, cauda, serving>>
  <2>1. "exordi" \in Stages /\ Goto(x, "exordi")
    BY DEF TakeTurn, Stages
  <2>2. call'[x].at = "exordi" /\ call'[x].n = call[x].n /\ \A y \in Of(e) : y # x => call'[y] = call[y]
    BY <2>1, Goes DEF Of
  <2>. QED
    BY <2>2, Homes DEF TakeTurn, At, Of, TypeOK, netVars, endVars, service, store, turn
<1>. HIDE DEF e
<1>2. /\ UnderWay(e)' = UnderWay(e) /\ (OneUnderWay(e)' <=> OneUnderWay(e)) /\ StoredFor(e)' = StoredFor(e)
  <2>1. UnderWay(e)' = UnderWay(e) /\ (OneUnderWay(e)' <=> OneUnderWay(e))
    BY <1>0, SameWay
  <2>. QED
    BY <2>1, <1>0 DEF StoredFor
<1>3. AnswerComes(e) /\ (canale[e] => OneTurn(e))
  BY DEF Sound, e
<1>4. OneSender(e)'
  BY <1>0, <1>2, <1>3 DEF AnswerComes, OneSender, In, Sending
<1>5. QuietWhile(e)'
  BY <1>0, <1>2, <1>3 DEF AnswerComes, QuietWhile, In
<1>6. OwnUnderWay(e)'
  BY <1>0, <1>2, <1>3 DEF AnswerComes, OwnUnderWay, In, Id
<1>7. Told(e)'
  BY <1>0, <1>2, <1>3 DEF AnswerComes, Told, In, Id, Answer
<1>8. Takes(e)'
  BY <1>0, <1>2, <1>3 DEF AnswerComes, Takes, At, Id, Answer
<1>9. Reads(e)'
  BY <1>0, <1>2, <1>3 DEF AnswerComes, Reads, At, Id, Answer
<1>10. ASSUME canale'[e] PROVE OneTurn(e)'
  <2>0. OneTurn(e)
    BY <1>0, <1>3, <1>10
  <2>f. TurnFree(e) /\ inv[e] = 1
    BY <1>0, <2>0 DEF OneTurn, TurnCounted
  <2>t. TurnFree(e)' <=> FALSE
    BY <1>0 DEF TurnFree, In, Turning
  <2>1. OneTurner(e)'
    BY <1>0, <1>2, <2>0, <2>f DEF OneTurn, OneTurner, In, Turning, TurnFree
  <2>2. TurnCounted(e)'
    BY <1>0, <1>2, <2>0, <2>f, <2>t DEF OneTurn, TurnCounted
  <2>3. SignalForOne(e)'
    BY <1>0, <1>2, <2>0, <2>f DEF OneTurn, SignalForOne, In, TurnFree, Turning
  <2>4. Awaited(e)'
    BY <1>0, <1>2, <2>0 DEF OneTurn, Awaited, At
  <2>5. Kept(e)'
    BY <1>0, <1>2, <2>0 DEF OneTurn, Kept, In, At, Id, Answer
  <2>6. RefusedAlone(e)'
    BY <1>0, <1>2, <2>0 DEF OneTurn, RefusedAlone, At
  <2>7. ReadsOwn(e)'
    BY <1>0, <1>2, <2>0 DEF OneTurn, ReadsOwn, At, Id, Answer
  <2>. QED
    BY <2>1, <2>2, <2>3, <2>4, <2>5, <2>6, <2>7 DEF OneTurn
<1>. QED
  BY <1>2, <1>3, <1>4, <1>5, <1>6, <1>7, <1>8, <1>9, <1>10 DEF Sound, AnswerComes, e

\* The turn is given back.
LEMMA LeaveSound ==
    ASSUME TypeOK, NEW x \in Actors, NEW at \in {"idle", "ended", "refused"},
           Ende(Home(x)), Goto(x, at), UNCHANGED <<canale, status, data, wire, cauda, serving>>,
           canale[Home(x)] => In(x, {"exordi", "send", "woken", "read"}),
           at = "refused" => At(x, "woken") /\ status[Home(x)],
           Sound(Home(x))
    PROVE  Sound(Home(x))'
<1>. DEFINE e == Home(x)
<1>0. /\ e \in Ends /\ Of(e)' = Of(e) /\ x \in Of(e)
      /\ \A y \in Of(e) : y # x => call'[y] = call[y]
      /\ (canale[e] => call[x].at \in {"exordi", "send", "woken", "read"}) /\ call'[x].at = at /\ call'[x].n = call[x].n
      /\ at \in {"idle", "ended", "refused"}
      /\ at = "refused" => call[x].at = "woken" /\ status[e]
      /\ origo'[e] = None /\ resp'[e] = FALSE /\ inv'[e] = inv[e] + 1 /\ inv[e] \in Nat
      /\ canale' = canale /\ status' = status /\ data' = data
      /\ UNCHANGED <<wire, cauda, serving>>
  <2>1. at \in Stages
    BY DEF Stages
  <2>2. call'[x].at = at /\ call'[x].n = call[x].n /\ \A y \in Of(e) : y # x => call'[y] = call[y]
    BY <2>1, Goes DEF Of
  <2>3. e \in Ends
    BY Homes
  <2>. QED
    BY <2>2, <2>3, GivesBack DEF At, In, Of, TypeOK
<1>. HIDE DEF e
<1>2. /\ UnderWay(e)' = UnderWay(e) /\ (OneUnderWay(e)' <=> OneUnderWay(e)) /\ StoredFor(e)' = StoredFor(e)
  <2>1. UnderWay(e)' = UnderWay(e) /\ (OneUnderWay(e)' <=> OneUnderWay(e))
    BY <1>0, SameWay
  <2>. QED
    BY <2>1, <1>0 DEF StoredFor
<1>3. AnswerComes(e) /\ (canale[e] => OneTurn(e))
  BY DEF Sound, e
<1>4. OneSender(e)'
  BY <1>0, <1>2, <1>3 DEF AnswerComes, OneSender, In, Sending
<1>5. QuietWhile(e)'
  BY <1>0, <1>2, <1>3 DEF AnswerComes, QuietWhile, In
<1>6. OwnUnderWay(e)'
  BY <1>0, <1>2, <1>3 DEF AnswerComes, OwnUnderWay, In, Id
<1>7. Told(e)'
  BY <1>0, <1>2, <1>3 DEF AnswerComes, Told, In, Id, Answer
<1>8. Takes(e)'
  BY <1>0, <1>2, <1>3 DEF AnswerComes, Takes, At, Id, Answer
<1>9. Reads(e)'
  BY <1>0, <1>2, <1>3 DEF AnswerComes, Reads, At, Id, Answer
<1>10. ASSUME canale'[e] PROVE OneTurn(e)'
  <2>0. OneTurn(e)
    BY <1>0, <1>3, <1>10
  <2>x. In(x, Turning) /\ ~At(x, "wait") /\ \A y \in Of(e) : y # x => ~In(y, Turning)
    BY <1>0, <2>0, <1>10 DEF OneTurn, OneTurner, In, At, Turning
  <2>t. TurnFree(e)' <=> TRUE
    BY <1>0, <2>x DEF TurnFree, In, Turning
  <2>s. inv[e] = 0
    BY <1>0, <2>0, <2>x DEF OneTurn, TurnCounted, TurnFree, In
  <2>1. OneTurner(e)'
    BY <1>0, <1>2, <2>0, <2>x DEF OneTurn, OneTurner, In, Turning
  <2>2. TurnCounted(e)'
    BY <1>0, <1>2, <2>0, <2>t, <2>s DEF OneTurn, TurnCounted
  <2>3. SignalForOne(e)'
    BY <1>0, <1>2, <2>0 DEF OneTurn, SignalForOne, In
  <2>4. Awaited(e)'
    BY <1>0, <1>2, <2>0, <2>x DEF OneTurn, Awaited, At, In, Turning
  <2>5. Kept(e)'
    BY <1>0, <1>2, <2>0, <2>x DEF OneTurn, Kept, In, At, Id, Answer, Turning
  <2>6. RefusedAlone(e)'
    BY <1>0, <1>2, <2>0, <2>t, <2>x DEF OneTurn, RefusedAlone, At, TurnFree
  <2>7. ReadsOwn(e)'
    BY <1>0, <1>2, <2>0, <2>x DEF OneTurn, ReadsOwn, At, Id, Answer, In, Turning
  <2>. QED
    BY <2>1, <2>2, <2>3, <2>4, <2>5, <2>6, <2>7 DEF OneTurn
<1>. QED
  BY <1>2, <1>3, <1>4, <1>5, <1>6, <1>7, <1>8, <1>9, <1>10 DEF Sound, AnswerComes, e

LEMMA FindChannelSound ==
    ASSUME TypeOK, NEW x \in Actors, FindChannel(x), canale[Home(x)], Sound(Home(x))
    PROVE  Sound(Home(x))'
<1>. DEFINE e == Home(x)
<1>0. /\ e \in Ends /\ Of(e)' = Of(e) /\ x \in Of(e)
      /\ \A y \in Of(e) : y # x => call'[y] = call[y]
      /\ call[x].at = "exordi" /\ canale[e] /\ call'[x].at = "send" /\ call'[x].n = call[x].n
      /\ canale' = canale /\ status' = status /\ data' = data /\ origo' = origo /\ inv' = inv /\ resp' = resp
      /\ UNCHANGED <<wire, cauda, serving>>
  <2>1. "send" \in Stages /\ Goto(x, "send")
    BY DEF FindChannel, Stages
  <2>2. call'[x].at = "send" /\ call'[x].n = call[x].n /\ \A y \in Of(e) : y # x => call'[y] = call[y]
    BY <2>1, Goes DEF Of
  <2>. QED
    BY <2>2, Homes DEF FindChannel, At, Of, TypeOK, netVars, endVars, service, store, turn
<1>. HIDE DEF e
<1>2. /\ UnderWay(e)' = UnderWay(e) /\ (OneUnderWay(e)' <=> OneUnderWay(e)) /\ StoredFor(e)' = StoredFor(e)
  <2>1. UnderWay(e)' = UnderWay(e) /\ (OneUnderWay(e)' <=> OneUnderWay(e))
    BY <1>0, SameWay
  <2>. QED
    BY <2>1, <1>0 DEF StoredFor
<1>3. AnswerComes(e) /\ (canale[e] => OneTurn(e))
  BY DEF Sound, e
<1>a. /\ OneTurn(e) /\ \A y \in Of(e) : y # x => ~In(y, Turning) /\ ~In(y, Sending)
      /\ UnderWay(e) = {} /\ ~resp[e] /\ ~TurnFree(e)
  <2>1. OneTurn(e) /\ \A y \in Of(e) : y # x => ~In(y, Turning)
    BY <1>0, <1>3 DEF OneTurn, OneTurner, In, Turning
  <2>2. ~TurnFree(e)
    BY <1>0 DEF TurnFree, In, Turning
  <2>3. \A y \in Of(e) : y # x => ~In(y, Sending)
    BY <2>1, <2>2 DEF OneTurn, RefusedAlone, At, In, Turning, Sending
  <2>4. UnderWay(e) = {} /\ ~resp[e]
    BY <1>0, <2>1 DEF OneTurn, Awaited, SignalForOne, At, In, Turning
  <2>. QED
    BY <2>1, <2>2, <2>3, <2>4
<1>4. OneSender(e)'
  BY <1>0, <1>2, <1>3, <1>a DEF AnswerComes, OneSender, In, Sending
<1>5. QuietWhile(e)'
  BY <1>0, <1>2, <1>3, <1>a DEF AnswerComes, QuietWhile, In
<1>6. OwnUnderWay(e)'
  BY <1>0, <1>2, <1>3 DEF AnswerComes, OwnUnderWay, In, Id
<1>7. Told(e)'
  BY <1>0, <1>2, <1>3, <1>a DEF AnswerComes, Told, In, Id, Answer
<1>8. Takes(e)'
  BY <1>0, <1>2, <1>3 DEF AnswerComes, Takes, At, Id, Answer
<1>9. Reads(e)'
  BY <1>0, <1>2, <1>3 DEF AnswerComes, Reads, At, Id, Answer
<1>10. ASSUME canale'[e] PROVE OneTurn(e)'
  <2>0. OneTurn(e)
    BY <1>0, <1>3, <1>10
  <2>t. TurnFree(e)' <=> FALSE
    BY <1>0 DEF TurnFree, In, Turning
  <2>1. OneTurner(e)'
    BY <1>0, <1>2, <2>0, <1>a DEF OneTurn, OneTurner, In, Turning
  <2>2. TurnCounted(e)'
    BY <1>0, <1>2, <2>0, <2>t, <1>a DEF OneTurn, TurnCounted
  <2>3. SignalForOne(e)'
    BY <1>0, <1>2, <2>0, <1>a DEF OneTurn, SignalForOne, In
  <2>4. Awaited(e)'
    BY <1>0, <1>2, <2>0, <1>a DEF OneTurn, Awaited, At
  <2>5. Kept(e)'
    BY <1>0, <1>2, <2>0, <1>a DEF OneTurn, Kept, In, At, Id, Answer
  <2>6. RefusedAlone(e)'
    BY <1>0, <1>2, <2>0, <1>a DEF OneTurn, RefusedAlone, At
  <2>7. ReadsOwn(e)'
    BY <1>0, <1>2, <2>0 DEF OneTurn, ReadsOwn, At, Id, Answer
  <2>. QED
    BY <2>1, <2>2, <2>3, <2>4, <2>5, <2>6, <2>7 DEF OneTurn
<1>. QED
  BY <1>2, <1>3, <1>4, <1>5, <1>6, <1>7, <1>8, <1>9, <1>10 DEF Sound, AnswerComes, e

\* A call is sent; nothing of it has been stored before.
LEMMA SendSound ==
    ASSUME TypeOK, NEW x \in Actors, Send(x), Transmit(Home(x), Call(x)), Goto(x, "wait"),
           UNCHANGED turn, Numbered, Sound(Home(x))
    PROVE  Sound(Home(x))'
<1>. DEFINE e == Home(x)
<1>0. /\ e \in Ends /\ Of(e)' = Of(e) /\ x \in Of(e)
      /\ \A y \in Of(e) : y # x => call'[y] = call[y]
      /\ call[x].at = "send" /\ call'[x].at = "wait" /\ call'[x].n = call[x].n
      /\ canale' = canale /\ status' = status /\ data' = data /\ origo' = origo /\ inv' = inv /\ resp' = resp
      /\ UNCHANGED <<cauda, serving>>
  <2>1. "wait" \in Stages /\ Goto(x, "wait")
    BY DEF Stages
  <2>2. call'[x].at = "wait" /\ call'[x].n = call[x].n /\ \A y \in Of(e) : y # x => call'[y] = call[y]
    BY <2>1, Goes DEF Of
  <2>. QED
    BY <2>2, Homes DEF Send, At, Of, TypeOK, netVars, endVars, service, store, turn
<1>. HIDE DEF e
<1>2. /\ UnderWay(e) = {} /\ UnderWay(e)' \subseteq {Id(x)} /\ OneUnderWay(e)' /\ StoredFor(e)' = StoredFor(e)
      /\ Id(x) \notin StoredFor(e)
  <2>1. UnderWay(e) = {} /\ OneUnderWay(e)
    BY <1>0 DEF Sound, AnswerComes, QuietWhile, In, e
  <2>2. UnderWay(e)' \subseteq UnderWay(e) \cup {Id(x)} /\ (OneUnderWay(e) /\ UnderWay(e) = {} => OneUnderWay(e)')
    BY <1>0, SendWay DEF e
  <2>3. Id(x) \notin StoredFor(e)
    <3>1. Id(x).by = x /\ Id(x).n = call[x].n /\ call[x].n \in Nat /\ In(x, {"initia", "exordi", "send"})
      BY <1>0 DEF Id, TypeOK, In
    <3>. QED
      BY <3>1, <1>0 DEF Numbered
  <2>. QED
    BY <2>1, <2>2, <2>3, <1>0 DEF StoredFor
<1>3. AnswerComes(e) /\ (canale[e] => OneTurn(e))
  BY DEF Sound, e
<1>a. \A y \in Of(e) : y # x => ~In(y, Sending)
  BY <1>0, <1>3 DEF AnswerComes, OneSender, In, Sending
<1>4. OneSender(e)'
  BY <1>0, <1>2, <1>3, <1>a DEF AnswerComes, OneSender, In, Sending
<1>5. QuietWhile(e)'
  BY <1>0, <1>2, <1>3, <1>a DEF AnswerComes, QuietWhile, In, Sending
<1>6. OwnUnderWay(e)'
  BY <1>0, <1>2, <1>3, <1>a DEF AnswerComes, OwnUnderWay, In, Id, Sending
<1>7. Told(e)'
  BY <1>0, <1>2, <1>3, <1>a DEF AnswerComes, Told, In, Id, Answer
<1>8. Takes(e)'
  BY <1>0, <1>2, <1>3 DEF AnswerComes, Takes, At, Id, Answer
<1>9. Reads(e)'
  BY <1>0, <1>2, <1>3 DEF AnswerComes, Reads, At, Id, Answer
<1>10. ASSUME canale'[e] PROVE OneTurn(e)'
  <2>0. OneTurn(e)
    BY <1>0, <1>3, <1>10
  <2>x. ~resp[e] /\ \A y \in Of(e) : y # x => ~In(y, Turning)
    BY <1>0, <2>0 DEF OneTurn, OneTurner, SignalForOne, In, Turning
  <2>t. TurnFree(e)' <=> FALSE
    BY <1>0 DEF TurnFree, In, Turning
  <2>u. ~TurnFree(e)
    BY <1>0 DEF TurnFree, In, Turning
  <2>1. OneTurner(e)'
    BY <1>0, <1>2, <2>0, <2>x DEF OneTurn, OneTurner, In, Turning
  <2>2. TurnCounted(e)'
    BY <1>0, <1>2, <2>0, <2>t, <2>u DEF OneTurn, TurnCounted
  <2>3. SignalForOne(e)'
    BY <1>0, <1>2, <2>0, <2>x DEF OneTurn, SignalForOne, In
  <2>4. Awaited(e)'
    BY <1>0, <1>2, <2>0, <2>x DEF OneTurn, Awaited, At
  <2>5. Kept(e)'
    BY <1>0, <1>2, <2>0, <2>x DEF OneTurn, Kept, In, At, Id, Answer
  <2>6. RefusedAlone(e)'
    BY <1>0, <1>2, <2>0, <2>u DEF OneTurn, RefusedAlone, At
  <2>7. ReadsOwn(e)'
    BY <1>0, <1>2, <2>0 DEF OneTurn, ReadsOwn, At, Id, Answer
  <2>. QED
    BY <2>1, <2>2, <2>3, <2>4, <2>5, <2>6, <2>7 DEF OneTurn
<1>. QED
  BY <1>2, <1>3, <1>4, <1>5, <1>6, <1>7, <1>8, <1>9, <1>10 DEF Sound, AnswerComes, e

LEMMA WakeUpSound ==
    ASSUME TypeOK, NEW x \in Actors, WakeUp(x), Sound(Home(x))
    PROVE  Sound(Home(x))'
<1>. DEFINE e == Home(x)
<1>0. /\ e \in Ends /\ Of(e)' = Of(e) /\ x \in Of(e)
      /\ \A y \in Of(e) : y # x => call'[y] = call[y]
      /\ call[x].at = "wait" /\ resp[e] /\ call'[x].at = "woken" /\ call'[x].n = call[x].n
      /\ canale' = canale /\ status' = status /\ data' = data /\ origo' = origo /\ inv' = inv /\ resp' = resp
      /\ UNCHANGED <<wire, cauda, serving>>
  <2>1. "woken" \in Stages /\ Goto(x, "woken")
    BY DEF WakeUp, Stages
  <2>2. call'[x].at = "woken" /\ call'[x].n = call[x].n /\ \A y \in Of(e) : y # x => call'[y] = call[y]
    BY <2>1, Goes DEF Of
  <2>. QED
    BY <2>2, Homes DEF WakeUp, At, Of, TypeOK, netVars, endVars, service, store, turn
<1>. HIDE DEF e
<1>2. /\ UnderWay(e)' = UnderWay(e) /\ (OneUnderWay(e)' <=> OneUnderWay(e)) /\ StoredFor(e)' = StoredFor(e)
  <2>1. UnderWay(e)' = UnderWay(e) /\ (OneUnderWay(e)' <=> OneUnderWay(e))
    BY <1>0, SameWay
  <2>. QED
    BY <2>1, <1>0 DEF StoredFor
<1>3. AnswerComes(e) /\ (canale[e] => OneTurn(e))
  BY DEF Sound, e
<1>4. OneSender(e)'
  BY <1>0, <1>2, <1>3 DEF AnswerComes, OneSender, In, Sending
<1>5. QuietWhile(e)'
  BY <1>0, <1>2, <1>3 DEF AnswerComes, QuietWhile, In
<1>6. OwnUnderWay(e)'
  BY <1>0, <1>2, <1>3 DEF AnswerComes, OwnUnderWay, In, Id
<1>7. Told(e)'
  BY <1>0, <1>2, <1>3 DEF AnswerComes, Told, In, Id, Answer
<1>8. Takes(e)'
  BY <1>0, <1>2, <1>3 DEF AnswerComes, Takes, At, Id, Answer
<1>9. Reads(e)'
  BY <1>0, <1>2, <1>3 DEF AnswerComes, Reads, At, Id, Answer
<1>10. ASSUME canale'[e] PROVE OneTurn(e)'
  <2>0. OneTurn(e)
    BY <1>0, <1>3, <1>10
  <2>t. TurnFree(e)' <=> TurnFree(e)
    BY <1>0 DEF TurnFree, In, Turning
  <2>1. OneTurner(e)'
    BY <1>0, <1>2, <2>0 DEF OneTurn, OneTurner, In, Turning
  <2>2. TurnCounted(e)'
    BY <1>0, <1>2, <2>0, <2>t DEF OneTurn, TurnCounted
  <2>3. SignalForOne(e)'
    BY <1>0, <1>2, <2>0 DEF OneTurn, SignalForOne, In
  <2>4. Awaited(e)'
    BY <1>0, <1>2, <2>0 DEF OneTurn, Awaited, At
  <2>5. Kept(e)'
    BY <1>0, <1>2, <2>0 DEF OneTurn, Kept, In, At, Id, Answer
  <2>6. RefusedAlone(e)'
    BY <1>0, <1>2, <2>0, <2>t DEF OneTurn, RefusedAlone, At
  <2>7. ReadsOwn(e)'
    BY <1>0, <1>2, <2>0 DEF OneTurn, ReadsOwn, At, Id, Answer
  <2>. QED
    BY <2>1, <2>2, <2>3, <2>4, <2>5, <2>6, <2>7 DEF OneTurn
<1>. QED
  BY <1>2, <1>3, <1>4, <1>5, <1>6, <1>7, <1>8, <1>9, <1>10 DEF Sound, AnswerComes, e

\* The status read is no error: the data stored are taken.
LEMMA TakingSound ==
    ASSUME TypeOK, NEW x \in Actors, In(x, {"woken", "refused"}), ~status[Home(x)], Goto(x, "take"),
           UNCHANGED <<canale, status, data, origo, inv, resp, wire, cauda, serving>>, Sound(Home(x))
    PROVE  Sound(Home(x))'
<1>. DEFINE e == Home(x)
<1>0. /\ e \in Ends /\ Of(e)' = Of(e) /\ x \in Of(e)
      /\ \A y \in Of(e) : y # x => call'[y] = call[y]
      /\ call[x].at \in {"woken", "refused"} /\ ~status[e] /\ call'[x].at = "take" /\ call'[x].n = call[x].n
      /\ canale' = canale /\ status' = status /\ data' = data /\ origo' = origo /\ inv' = inv /\ resp' = resp
      /\ UNCHANGED <<wire, cauda, serving>>
  <2>1. "take" \in Stages /\ Goto(x, "take")
    BY DEF Stages
  <2>2. call'[x].at = "take" /\ call'[x].n = call[x].n /\ \A y \in Of(e) : y # x => call'[y] = call[y]
    BY <2>1, Goes DEF Of
  <2>. QED
    BY <2>2, Homes DEF TypeOK, At, In, Of
<1>. HIDE DEF e
<1>2. /\ UnderWay(e)' = UnderWay(e) /\ (OneUnderWay(e)' <=> OneUnderWay(e)) /\ StoredFor(e)' = StoredFor(e)
  <2>1. UnderWay(e)' = UnderWay(e) /\ (OneUnderWay(e)' <=> OneUnderWay(e))
    BY <1>0, SameWay
  <2>. QED
    BY <2>1, <1>0 DEF StoredFor
<1>3. AnswerComes(e) /\ (canale[e] => OneTurn(e))
  BY DEF Sound, e
<1>a. data[e] = Answer(Id(x), FALSE) /\ UnderWay(e) = {}
  <2>1. data[e] = Answer(Id(x), FALSE)
    BY <1>0, <1>3 DEF AnswerComes, Told, In
  <2>2. Id(x) \in StoredFor(e)
    <3>1. Id(x) \in Ident
      BY Calling
    <3>2. data[e] \in Answers /\ data[e].id = Id(x)
      BY <2>1, <3>1, MessageTypes
    <3>3. data[e] \in Some(data[e])
      BY <3>2, MessageTypes DEF Some
    <3>. QED
      BY <3>2, <3>3 DEF StoredFor
  <2>. QED
    BY <2>1, <2>2, <1>0, <1>3 DEF AnswerComes, OwnUnderWay, In
<1>4. OneSender(e)'
  BY <1>0, <1>2, <1>3 DEF AnswerComes, OneSender, In, Sending
<1>5. QuietWhile(e)'
  BY <1>0, <1>2, <1>3, <1>a DEF AnswerComes, QuietWhile, In
<1>6. OwnUnderWay(e)'
  BY <1>0, <1>2, <1>3 DEF AnswerComes, OwnUnderWay, In, Id
<1>7. Told(e)'
  BY <1>0, <1>2, <1>3 DEF AnswerComes, Told, In, Id, Answer
<1>8. Takes(e)'
  BY <1>0, <1>2, <1>3, <1>a DEF AnswerComes, Takes, At, Id, Answer
<1>9. Reads(e)'
  BY <1>0, <1>2, <1>3 DEF AnswerComes, Reads, At, Id, Answer
<1>10. ASSUME canale'[e] PROVE OneTurn(e)'
  <2>0. OneTurn(e)
    BY <1>0, <1>3, <1>10
  <2>x. call[x].at = "woken"
    BY <1>0, <2>0 DEF OneTurn, RefusedAlone, At
  <2>t. TurnFree(e)' <=> TurnFree(e)
    BY <1>0, <2>x DEF TurnFree, In, Turning
  <2>1. OneTurner(e)'
    BY <1>0, <1>2, <2>0, <2>x DEF OneTurn, OneTurner, In, Turning
  <2>2. TurnCounted(e)'
    BY <1>0, <1>2, <2>0, <2>t DEF OneTurn, TurnCounted
  <2>3. SignalForOne(e)'
    BY <1>0, <1>2, <2>0, <2>x DEF OneTurn, SignalForOne, In
  <2>4. Awaited(e)'
    BY <1>0, <1>2, <2>0, <1>a DEF OneTurn, Awaited, At
  <2>5. Kept(e)'
    BY <1>0, <1>2, <2>0 DEF OneTurn, Kept, In, At, Id, Answer
  <2>6. RefusedAlone(e)'
    BY <1>0, <1>2, <2>0, <2>t DEF OneTurn, RefusedAlone, At
  <2>7. ReadsOwn(e)'
    BY <1>0, <1>2, <2>0 DEF OneTurn, ReadsOwn, At, Id, Answer
  <2>. QED
    BY <2>1, <2>2, <2>3, <2>4, <2>5, <2>6, <2>7 DEF OneTurn
<1>. QED
  BY <1>2, <1>3, <1>4, <1>5, <1>6, <1>7, <1>8, <1>9, <1>10 DEF Sound, AnswerComes, e

LEMMA TakeDataSound ==
    ASSUME TypeOK, NEW x \in Actors, TakeData(x), Sound(Home(x))
    PROVE  Sound(Home(x))'
<1>. DEFINE e == Home(x)
<1>0. /\ e \in Ends /\ Of(e)' = Of(e) /\ x \in Of(e)
      /\ \A y \in Of(e) : y # x => call'[y] = call[y]
      /\ call[x].at = "take" /\ call'[x].at = "read" /\ call'[x].n = call[x].n
      /\ canale' = canale /\ status' = status /\ inv' = inv /\ resp' = resp
      /\ origo'[e] = data[e]
      /\ UNCHANGED <<wire, cauda, serving>>
  <2>1. "read" \in Stages /\ Goto(x, "read")
    BY DEF TakeData, Stages
  <2>2. call'[x].at = "read" /\ call'[x].n = call[x].n /\ \A y \in Of(e) : y # x => call'[y] = call[y]
    BY <2>1, Goes DEF Of
  <2>. QED
    BY <2>2, Homes DEF TakeData, At, Of, TypeOK, netVars, endVars, service, store, turn
<1>. HIDE DEF e
<1>2. UnderWay(e)' = UnderWay(e) /\ (OneUnderWay(e)' <=> OneUnderWay(e))
  BY <1>0, SameWay
<1>3. AnswerComes(e) /\ (canale[e] => OneTurn(e))
  BY DEF Sound, e
<1>a. data[e] = Answer(Id(x), FALSE) /\ \A y \in Of(e) : y # x => ~In(y, Sending)
  BY <1>0, <1>3 DEF AnswerComes, Takes, OneSender, At, In, Sending
<1>4. OneSender(e)'
  BY <1>0, <1>2, <1>3 DEF AnswerComes, OneSender, In, Sending
<1>5. QuietWhile(e)'
  BY <1>0, <1>2, <1>3 DEF AnswerComes, QuietWhile, In
<1>6. OwnUnderWay(e)'
  BY <1>0, <1>2, <1>3, <1>a DEF AnswerComes, OwnUnderWay, In, Id, Sending
<1>7. Told(e)'
  BY <1>0, <1>2, <1>3, <1>a DEF AnswerComes, Told, In, Id, Answer, Sending
<1>8. Takes(e)'
  BY <1>0, <1>2, <1>3, <1>a DEF AnswerComes, Takes, At, Id, Answer, In, Sending
<1>9. Reads(e)'
  BY <1>0, <1>2, <1>3, <1>a DEF AnswerComes, Reads, At, Id, Answer, In, Sending
<1>10. ASSUME canale'[e] PROVE OneTurn(e)'
  <2>0. OneTurn(e)
    BY <1>0, <1>3, <1>10
  <2>t. TurnFree(e)' <=> FALSE
    BY <1>0 DEF TurnFree, In, Turning
  <2>u. ~TurnFree(e)
    BY <1>0 DEF TurnFree, In, Turning
  <2>1. OneTurner(e)'
    BY <1>0, <1>2, <2>0 DEF OneTurn, OneTurner, In, Turning
  <2>2. TurnCounted(e)'
    BY <1>0, <1>2, <2>0, <2>t, <2>u DEF OneTurn, TurnCounted
  <2>3. SignalForOne(e)'
    BY <1>0, <1>2, <2>0 DEF OneTurn, SignalForOne, In
  <2>4. Awaited(e)'
    BY <1>0, <1>2, <2>0 DEF OneTurn, Awaited, At
  <2>5. Kept(e)'
    BY <1>0, <1>2, <2>0, <1>a DEF OneTurn, Kept, In, At, Id, Answer, Sending
  <2>6. RefusedAlone(e)'
    BY <1>0, <1>2, <2>0, <2>u DEF OneTurn, RefusedAlone, At
  <2>7. ReadsOwn(e)'
    BY <1>0, <1>2, <2>0, <1>a DEF OneTurn, ReadsOwn, At, Id, Answer, In, Sending
  <2>. QED
    BY <2>1, <2>2, <2>3, <2>4, <2>5, <2>6, <2>7 DEF OneTurn
<1>. QED
  BY <1>2, <1>3, <1>4, <1>5, <1>6, <1>7, <1>8, <1>9, <1>10 DEF Sound, AnswerComes, e

\* A closed service is told that its channel is broken.
LEMMA TellSound ==
    ASSUME TypeOK, NEW e \in Ends, ~canale'[e], status'[e] = TRUE, resp'[e] = TRUE,
           UNCHANGED <<call, data, inv, origo>>, Shrinks(e), Sound(e)
    PROVE  Sound(e)'
<1>0. /\ call' = call /\ Of(e)' = Of(e) /\ data' = data /\ ~canale'[e] /\ status'[e] = TRUE
      /\ origo' = origo /\ inv' = inv
  BY DEF Of
<1>2. UnderWay(e)' \subseteq UnderWay(e) /\ (OneUnderWay(e) => OneUnderWay(e)') /\ StoredFor(e)' = StoredFor(e)
  BY <1>0 DEF Shrinks, StoredFor
<1>3. AnswerComes(e) /\ (canale[e] => OneTurn(e))
  BY DEF Sound
<1>4. OneSender(e)'
  BY <1>0, <1>2, <1>3 DEF AnswerComes, OneSender, In, Sending
<1>5. QuietWhile(e)'
  BY <1>0, <1>2, <1>3 DEF AnswerComes, QuietWhile, In
<1>6. OwnUnderWay(e)'
  BY <1>0, <1>2, <1>3 DEF AnswerComes, OwnUnderWay, In, Id
<1>7. Told(e)'
  BY <1>0, <1>2, <1>3 DEF AnswerComes, Told, In, Id, Answer
<1>8. Takes(e)'
  BY <1>0, <1>2, <1>3 DEF AnswerComes, Takes, At, Id, Answer
<1>9. Reads(e)'
  BY <1>0, <1>2, <1>3 DEF AnswerComes, Reads, At, Id, Answer
<1>10. ~canale'[e]
  BY <1>0
<1>. QED
  BY <1>2, <1>3, <1>4, <1>5, <1>6, <1>7, <1>8, <1>9, <1>10 DEF Sound, AnswerComes

\* The answer is stored for the caller that waits.
LEMMA StoreAnswerSound ==
    ASSUME TypeOK, NEW e \in Ends, StoreAnswer(e), Sound(e)
    PROVE  Sound(e)'
<1>0. /\ call' = call /\ Of(e)' = Of(e) /\ canale' = canale
      /\ data'[e] = Head(cauda[e]) /\ status' = Store(e, Head(cauda[e])) /\ resp'[e] = TRUE
      /\ origo' = origo /\ inv' = inv
  BY DEF Of, StoreAnswer, TypeOK, service
<1>2. OneUnderWay(e)' /\ UnderWay(e)' = {} /\ UnderWay(e) # {} /\ \E m \in UnderWay(e), error \in BOOLEAN :
          data'[e] = Answer(m, error) /\ status'[e] = error
  <2>. DEFINE m == Head(cauda[e])
  <2>1. m \in Answers /\ m.id \in UnderWay(e) /\ (OneUnderWay(e) => UnderWay(e)' = {})
    BY StoreWay
  <2>2. Shrinks(e)
    BY PopWay
  <2>. HIDE DEF m
  <2>3. m = Answer(m.id, m.error) /\ m.error \in BOOLEAN
    BY <2>1, MessageTypes
  <2>4. data'[e] = m /\ status'[e] = m.error
    BY <1>0 DEF TypeOK, Store, m
  <2>. QED
    BY <2>1, <2>2, <2>3, <2>4 DEF Shrinks, Sound, AnswerComes
<1>3. AnswerComes(e) /\ (canale[e] => OneTurn(e))
  BY DEF Sound
<1>a. PICK m \in UnderWay(e), error \in BOOLEAN : data'[e] = Answer(m, error) /\ status'[e] = error
  BY <1>2
<1>b. \A x \in Of(e) : /\ Id(x)' = Id(x)
                       /\ ~In(x, {"send", "take", "read"})
                       /\ In(x, {"wait", "woken", "refused"}) => m = Id(x)
  BY <1>0, <1>3 DEF AnswerComes, QuietWhile, OwnUnderWay, Id
<1>4. OneSender(e)'
  BY <1>0, <1>2, <1>3 DEF AnswerComes, OneSender, In, Sending
<1>5. QuietWhile(e)'
  BY <1>0, <1>2, <1>3 DEF AnswerComes, QuietWhile, In
<1>6. OwnUnderWay(e)'
  BY <1>0, <1>2, <1>3 DEF AnswerComes, OwnUnderWay, In, Id
<1>7. Told(e)'
  BY <1>0, <1>2, <1>3, <1>a, <1>b DEF AnswerComes, Told, In, Id, Answer
<1>8. Takes(e)'
  BY <1>0, <1>2, <1>3, <1>b DEF AnswerComes, Takes, At, Id, Answer, In
<1>9. Reads(e)'
  BY <1>0, <1>2, <1>3, <1>b DEF AnswerComes, Reads, At, Id, Answer
<1>10. ASSUME canale'[e] PROVE OneTurn(e)'
  <2>0. OneTurn(e)
    BY <1>0, <1>3, <1>10
  <2>t. TurnFree(e)' <=> TurnFree(e)
    BY <1>0 DEF TurnFree, In, Turning
  <2>1. OneTurner(e)'
    BY <1>0, <1>2, <2>0 DEF OneTurn, OneTurner, In, Turning
  <2>2. TurnCounted(e)'
    BY <1>0, <1>2, <2>0, <2>t DEF OneTurn, TurnCounted
  <2>3. SignalForOne(e)'
    BY <1>0, <1>2, <2>0 DEF OneTurn, SignalForOne, In, Awaited, At
  <2>4. Awaited(e)'
    BY <1>0, <1>2, <2>0 DEF OneTurn, Awaited, At
  <2>5. Kept(e)'
    BY <1>0, <1>2, <2>0, <1>a, <1>b DEF OneTurn, Kept, In, At, Id, Answer
  <2>6. RefusedAlone(e)'
    BY <1>0, <1>2, <2>0, <2>t DEF OneTurn, RefusedAlone, At, Awaited, TurnFree, In, Turning
  <2>7. ReadsOwn(e)'
    BY <1>0, <1>2, <2>0, <1>b DEF OneTurn, ReadsOwn, At, Id, Answer, In
  <2>. QED
    BY <2>1, <2>2, <2>3, <2>4, <2>5, <2>6, <2>7 DEF OneTurn
<1>. QED
  BY <1>2, <1>3, <1>4, <1>5, <1>6, <1>7, <1>8, <1>9, <1>10 DEF Sound, AnswerComes

----------------------------------------------------------------------------
(* Every step keeps the turns.                                             *)

\* A caller's step leaves the other service alone.
LEMMA CallerElsewhere ==
    ASSUME TypeOK, NEW x \in Actors, Initia(x) \/ Proceed(x), NEW e \in Ends, e # Home(x)
    PROVE  /\ \A y \in Of(e) : call'[y] = call[y]
           /\ status'[e] = status[e] /\ data'[e] = data[e] /\ origo'[e] = origo[e]
           /\ inv'[e] = inv[e] /\ resp'[e] = resp[e]
           /\ Shrinks(e)
<1>0. Home(x) \in Ends /\ \A y \in Of(e) : y \in Actors /\ y # x
  BY Homes DEF Of
<1>g. \A at \in Stages : Goto(x, at) => \A y \in Of(e) : call'[y] = call[y]
  BY <1>0, Goes
<1>e. Ende(Home(x)) => origo'[e] = origo[e] /\ resp'[e] = resp[e] /\ inv'[e] = inv[e]
  BY <1>0, GivesBack
<1>1. \A y \in Of(e) : call'[y] = call[y]
  <2>1. CASE Initia(x)
    BY <2>1, <1>0 DEF Initia, TypeOK
  <2>2. CASE Proceed(x)
    <3>1. \E at \in Stages : Goto(x, at)
      BY <2>2 DEF Proceed, TakeTurn, GiveUp, FindChannel, NoChannel, Send, WakeUp, TimeOut, ReadStatus,
                  ThrowStatus, TakeData, ReadResult, Over, Stages
    <3>. QED
      BY <3>1, <1>g
  <2>. QED
    BY <2>1, <2>2
<1>2. status'[e] = status[e] /\ data'[e] = data[e]
  BY <1>0 DEF Initia, Proceed, TakeTurn, GiveUp, FindChannel, NoChannel, Send, WakeUp, TimeOut, ReadStatus,
              ThrowStatus, TakeData, ReadResult, TypeOK, endVars, store
<1>3. origo'[e] = origo[e] /\ inv'[e] = inv[e] /\ resp'[e] = resp[e]
  BY <1>0, <1>e DEF Initia, Proceed, TakeTurn, GiveUp, FindChannel, NoChannel, Send, WakeUp, TimeOut,
              ReadStatus, ThrowStatus, TakeData, ReadResult, TypeOK, endVars, turn
<1>4. Shrinks(e)
  <2>1. CASE Transmit(Home(x), Call(x)) /\ UNCHANGED <<cauda, serving>>
    BY <2>1, SendWay
  <2>2. CASE UNCHANGED <<wire, cauda, serving>>
    BY <2>2, SameWay
  <2>. QED
    BY <2>1, <2>2 DEF Initia, Proceed, TakeTurn, GiveUp, FindChannel, NoChannel, Send, WakeUp, TimeOut,
              ReadStatus, ThrowStatus, TakeData, ReadResult, netVars
<1>. QED
  BY <1>1, <1>2, <1>3, <1>4

\* Channels are only lost and callers only overtaken.
LEMMA OneWay ==
    ASSUME TypeOK, Next
    PROVE  crowded \subseteq crowded' /\ \A e \in Ends : canale'[e] => canale[e]
<1>1. ASSUME NEW x \in Actors, Initia(x) \/ Proceed(x)
      PROVE  crowded \subseteq crowded' /\ canale' = canale
  BY <1>1 DEF Initia, Proceed, TakeTurn, GiveUp, FindChannel, NoChannel, Send, WakeUp, TimeOut,
              ReadStatus, ThrowStatus, TakeData, ReadResult, endVars, service
<1>2. ASSUME NEW f \in Ends, Dispatch(f) \/ Work(f) \/ Close(f)
      PROVE  crowded' = crowded /\ \A e \in Ends : canale'[e] => canale[e]
  <2>1. crowded' = crowded /\ (canale' = canale \/ Clode(f, cauda[f]))
    BY <1>2 DEF Dispatch, Work, Deliver, FindBroken, TellBroken, Serve, Respond, StoreAnswer, RunClosing,
                Close, endVars, service
  <2>. QED
    BY <2>1, Closes
<1>3. CASE Lose
  BY <1>3 DEF Lose, endVars, service
<1>. QED
  BY <1>1, <1>2, <1>3 DEF Next

LEMMA CallerTurns ==
    ASSUME Core, NEW x \in Actors, Initia(x) \/ Proceed(x)
    PROVE  Turns'
<1>. SUFFICES ASSUME NEW e \in Ends, e \notin crowded' PROVE Sound(e)'
  BY DEF Turns, Sound
<1>0. TypeOK /\ Numbered /\ ClosedFirst /\ Next
  BY DEF Core, Next
<1>1. Sound(e) /\ (canale'[e] => canale[e])
  BY <1>0, OneWay DEF Core, Turns, Sound
<1>2. CASE e # Home(x)
  BY <1>0, <1>1, <1>2, CallerElsewhere, Elsewhere
<1>3. CASE e = Home(x)
  <2>0. Sound(Home(x)) /\ Home(x) \notin crowded'
    BY <1>1, <1>3
  <2>1. CASE Initia(x)
    <3>1. call'[x].at = "initia" /\ \A y \in Actors : y # x => call'[y] = call[y]
      BY <1>0, <2>1 DEF Initia, TypeOK
    <3>2. In(x, {"idle", "refused"}) /\ UNCHANGED <<canale, status, data, origo, inv, resp, wire, cauda, serving>>
      BY <2>1 DEF Initia, In, At, netVars, endVars, service, store, turn
    <3>. QED
      BY <1>0, <1>3, <2>0, <3>1, <3>2, AsideSound
  <2>2. CASE TakeTurn(x)
    BY <1>0, <1>3, <2>0, <2>2, TakeTurnSound
  <2>3. CASE GiveUp(x) \/ NoChannel(x) \/ TimeOut(x) \/ ReadResult(x)
              \/ (Send(x) /\ Ende(Home(x)) /\ Over(x, "broken", None) /\ UNCHANGED <<wire, sent>>)
    <3>1. /\ Ende(Home(x)) /\ Goto(x, "idle") /\ UNCHANGED <<canale, status, data, cauda, serving>>
          /\ UNCHANGED wire
      <4>1. CASE GiveUp(x) \/ NoChannel(x) \/ TimeOut(x)
        BY <4>1 DEF GiveUp, NoChannel, TimeOut, Over, service, store, netVars
      <4>2. CASE ReadResult(x)
        BY <4>2 DEF ReadResult, Over, service, store, netVars
      <4>3. CASE Send(x) /\ Ende(Home(x)) /\ Over(x, "broken", None) /\ UNCHANGED <<wire, sent>>
        BY <4>3 DEF Send, Over, service, store
      <4>. QED
        BY <2>3, <4>1, <4>2, <4>3
    <3>2. canale[Home(x)] => In(x, {"exordi", "send", "woken", "read"})
      BY <1>0, <2>3 DEF GiveUp, NoChannel, TimeOut, ReadResult, Send, In, At, ClosedFirst
    <3>3. UNCHANGED <<canale, status, data, wire, cauda, serving>>
      BY <3>1
    <3>. QED
      BY <1>0, <1>3, <2>0, <3>1, <3>2, <3>3, LeaveSound
  <2>4. CASE Send(x) /\ Transmit(Home(x), Call(x)) /\ Goto(x, "wait") /\ UNCHANGED turn
    BY <1>0, <1>3, <2>0, <2>4, SendSound
  <2>5. CASE FindChannel(x)
    <3>1. CASE canale[Home(x)]
      BY <1>0, <1>3, <2>0, <2>5, <3>1, FindChannelSound
    <3>2. CASE ~canale[Home(x)]
      <4>1. Ende(Home(x)) /\ Goto(x, "ended") /\ UNCHANGED <<canale, status, data, wire, cauda, serving>>
        BY <2>5, <3>2 DEF FindChannel, service, store, netVars
      <4>. QED
        BY <1>0, <1>3, <2>0, <3>2, <4>1, LeaveSound
    <3>. QED
      BY <3>1, <3>2
  <2>6. CASE WakeUp(x)
    BY <1>0, <1>3, <2>0, <2>6, WakeUpSound
  <2>7. CASE ReadStatus(x)
    <3>1. CASE status[Home(x)]
      <4>1. /\ Ende(Home(x)) /\ Goto(x, "refused") /\ At(x, "woken")
            /\ UNCHANGED <<canale, status, data, wire, cauda, serving>>
        BY <2>7, <3>1 DEF ReadStatus, service, store, netVars
      <4>2. In(x, {"exordi", "send", "woken", "read"})
        BY <4>1 DEF In, At
      <4>. QED
        BY <1>0, <1>3, <2>0, <3>1, <4>1, <4>2, LeaveSound
    <3>2. CASE ~status[Home(x)]
      <4>1. /\ In(x, {"woken", "refused"}) /\ Goto(x, "take")
            /\ UNCHANGED <<canale, status, data, origo, inv, resp, wire, cauda, serving>>
        BY <2>7, <3>2 DEF ReadStatus, service, store, netVars, turn, In, At
      <4>. QED
        BY <1>0, <1>3, <2>0, <3>2, <4>1, TakingSound
    <3>. QED
      BY <3>1, <3>2
  <2>8. CASE ThrowStatus(x)
    <3>1. CASE status[Home(x)]
      <4>1. /\ In(x, {"idle", "refused"}) /\ Goto(x, "idle") /\ "idle" \in Stages
            /\ UNCHANGED <<canale, status, data, origo, inv, resp, wire, cauda, serving>>
        BY <2>8, <3>1 DEF ThrowStatus, Over, In, At, Stages, netVars, endVars, service, store, turn
      <4>2. call'[x].at = "idle" /\ \A y \in Actors : y # x => call'[y] = call[y]
        BY <1>0, <4>1, Goes
      <4>. QED
        BY <1>0, <1>3, <2>0, <4>1, <4>2, AsideSound
    <3>2. CASE ~status[Home(x)]
      <4>1. /\ In(x, {"woken", "refused"}) /\ Goto(x, "take")
            /\ UNCHANGED <<canale, status, data, origo, inv, resp, wire, cauda, serving>>
        BY <2>8, <3>2 DEF ThrowStatus, endVars, service, store, netVars, turn, In, At
      <4>. QED
        BY <1>0, <1>3, <2>0, <3>2, <4>1, TakingSound
    <3>. QED
      BY <3>1, <3>2
  <2>9. CASE TakeData(x)
    BY <1>0, <1>3, <2>0, <2>9, TakeDataSound
  <2>. QED
    BY <2>1, <2>2, <2>3, <2>4, <2>5, <2>6, <2>7, <2>8, <2>9 DEF Proceed, Send
<1>. QED
  BY <1>2, <1>3

LEMMA EndShrinks ==
    ASSUME TypeOK, NEW f \in Ends, Dispatch(f) \/ Work(f) \/ Close(f), NEW e \in Ends
    PROVE  Shrinks(e)
<1>1. CASE Deliver(f)
  BY <1>1, DeliverWay
<1>2. CASE FindBroken(f) \/ Close(f)
  <2>1. Clode(f, cauda[f]) /\ UNCHANGED <<wire, serving>>
    BY <1>2 DEF FindBroken, Close
  <2>. QED
    BY <2>1, ClodeWay
<1>3. CASE TellBroken(f)
  <2>1. UNCHANGED <<wire, cauda, serving>>
    BY <1>3 DEF TellBroken
  <2>. QED
    BY <2>1, SameWay
<1>4. CASE Serve(f)
  BY <1>4, ServeWay
<1>5. CASE Respond(f)
  BY <1>5, RespondWay
<1>6. CASE StoreAnswer(f) \/ RunClosing(f)
  BY <1>6, PopWay
<1>. QED
  BY <1>1, <1>2, <1>3, <1>4, <1>5, <1>6 DEF Dispatch, Work

LEMMA EndTurns ==
    ASSUME Core, NEW f \in Ends, Dispatch(f) \/ Work(f) \/ Close(f)
    PROVE  Turns'
<1>. SUFFICES ASSUME NEW e \in Ends, e \notin crowded' PROVE Sound(e)'
  BY DEF Turns, Sound
<1>0. TypeOK /\ ClosedFirst /\ Next /\ Shrinks(e)
  BY EndShrinks DEF Core, Next
<1>1. Sound(e) /\ (canale'[e] => canale[e])
  BY <1>0, OneWay DEF Core, Turns, Sound
<1>2. UNCHANGED <<call, inv, origo>>
  BY DEF Dispatch, Work, Deliver, FindBroken, TellBroken, Serve, Respond, StoreAnswer, RunClosing, Close,
         endVars, turn
<1>3. CASE status'[e] = status[e] /\ data'[e] = data[e] /\ resp'[e] = resp[e]
  BY <1>0, <1>1, <1>2, <1>3, Elsewhere DEF Of
<1>4. CASE StoreAnswer(f) /\ e = f
  BY <1>0, <1>1, <1>4, StoreAnswerSound
<1>5. CASE /\ ~canale'[f] /\ status' = [status EXCEPT ![f] = TRUE] /\ resp' = [resp EXCEPT ![f] = TRUE]
           /\ data' = data
  <2>1. CASE e # f
    BY <1>0, <1>3, <1>5, <2>1 DEF TypeOK
  <2>2. CASE e = f
    <3>1. status'[e] = TRUE /\ resp'[e] = TRUE /\ ~canale'[e]
      BY <1>0, <1>5, <2>2 DEF TypeOK
    <3>. QED
      BY <1>0, <1>1, <1>2, <1>5, <3>1, TellSound
  <2>. QED
    BY <2>1, <2>2
<1>6. CASE Deliver(f) \/ FindBroken(f) \/ Serve(f) \/ RunClosing(f) \/ Close(f)
  BY <1>3, <1>6 DEF Deliver, FindBroken, Serve, RunClosing, Close, endVars, store, turn
<1>7. CASE TellBroken(f)
  BY <1>0, <1>5, <1>7 DEF TellBroken, ClosedFirst, service
<1>8. CASE Respond(f)
  <2>1. CASE canale[f] /\ UNCHANGED <<up, canale, labos, cauda, status, resp>>
    BY <1>3, <1>8, <2>1 DEF Respond
  <2>2. CASE /\ ~canale[f] /\ Clode(f, cauda[f])
             /\ status' = [status EXCEPT ![f] = TRUE] /\ resp' = [resp EXCEPT ![f] = TRUE]
    BY <1>0, <1>5, <1>8, <2>2, Closes DEF Respond
  <2>. QED
    BY <1>8, <2>1, <2>2 DEF Respond
<1>9. CASE StoreAnswer(f) /\ e # f
  BY <1>0, <1>3, <1>9 DEF StoreAnswer, Store, TypeOK
<1>. QED
  BY <1>4, <1>6, <1>7, <1>8, <1>9 DEF Dispatch, Work

LEMMA LoseTurns ==
    ASSUME Core, Lose
    PROVE  Turns'
<1>. SUFFICES ASSUME NEW e \in Ends, e \notin crowded' PROVE Sound(e)'
  BY DEF Turns, Sound
<1>1. Sound(e) /\ UNCHANGED <<wire, cauda, serving>> /\ UNCHANGED <<canale, status, data, origo, inv, resp, call>>
  BY DEF Core, Turns, Sound, Lose, endVars, service, store, turn
<1>2. Shrinks(e)
  BY <1>1, SameWay
<1>. QED
  BY <1>1, <1>2, Elsewhere

----------------------------------------------------------------------------
(* The rest of the invariant.                                              *)

LEMMA IdsTyped ==
    ASSUME NEW q \in Seq(Message \cup {ClosingTask}), NEW kind \in {"call", "answer"}
    PROVE  Ids(q, kind) \subseteq Ident
<1>1. \A i \in 1 .. Len(q) : q[i] \in Message \cup {ClosingTask}
  BY ElementOfSeq
<1>. QED
  BY <1>1, MessageTypes DEF Ids

\* Whatever is under way or stored is a call.
LEMMA CallsTyped ==
    ASSUME TypeOK, NEW e \in Ends
    PROVE  UnderWay(e) \cup StoredFor(e) \subseteq Ident
<1>1. \A f \in Ends : cauda[f] \in Seq(Message \cup {ClosingTask}) /\ wire[f] \in Seq(Message \cup {ClosingTask})
  <2>1. Seq(Message) \subseteq Seq(Message \cup {ClosingTask})
    OBVIOUS
  <2>. QED
    BY <2>1 DEF TypeOK
<1>2. \A leg \in Legs : Way(e, leg) \subseteq Ident
  <2>0. Other(e) \in Ends
    BY Ends2
  <2>1. /\ Way(e, "called") \subseteq Ident /\ Way(e, "queued") \subseteq Ident
        /\ Way(e, "answered") \subseteq Ident /\ Way(e, "returned") \subseteq Ident
    BY <1>1, <2>0, WayIs, IdsTyped
  <2>2. Way(e, "served") \subseteq Ident
    BY <2>0, WayIs DEF Some, TypeOK
  <2>. QED
    BY <2>1, <2>2 DEF Legs
<1>3. StoredFor(e) \subseteq Ident
  BY MessageTypes DEF StoredFor, Some, TypeOK
<1>. QED
  BY <1>2, <1>3 DEF UnderWay

LEMMA CallerNumbered ==
    ASSUME TypeOK, Numbered, NEW x \in Actors, Initia(x) \/ Proceed(x)
    PROVE  Numbered'
<1>. SUFFICES ASSUME NEW e \in Ends, NEW id \in UnderWay(e)' \cup StoredFor(e)'
              PROVE  /\ Home(id.by) = e /\ id.n <= call'[id.by].n
                     /\ call'[id.by].at \in {"initia", "exordi", "send"} => id.n < call'[id.by].n
  BY DEF Numbered, In
<1>1. \A y \in Actors : y # x => call'[y] = call[y]
  BY Goes DEF TypeOK, Initia, Proceed, TakeTurn, GiveUp, FindChannel, NoChannel, Send, WakeUp, TimeOut, ReadStatus,
         ThrowStatus, TakeData, ReadResult, Over, Goto
<1>2. \/ call'[x].n = call[x].n + 1
      \/ /\ call'[x].n = call[x].n
         /\ call'[x].at \in {"initia", "exordi", "send"} => In(x, {"initia", "exordi", "send"})
  <2>1. CASE Initia(x)
    BY <2>1 DEF TypeOK, Initia
  <2>2. CASE Proceed(x)
    <3>1. \E at \in Stages : Goto(x, at) /\ (at \in {"initia", "exordi", "send"} => In(x, {"initia", "exordi", "send"}))
      BY <2>2 DEF Proceed, TakeTurn, GiveUp, FindChannel, NoChannel, Send, WakeUp, TimeOut, ReadStatus,
                  ThrowStatus, TakeData, ReadResult, Over, Stages, In, At
    <3>. QED
      BY <3>1, Goes
  <2>. QED
    BY <2>1, <2>2
<1>3. id \in UnderWay(e) \cup StoredFor(e) \/ (id = Id(x) /\ e = Home(x) /\ call'[x].n = call[x].n /\ call'[x].at = "wait")
  <2>1. StoredFor(e)' \subseteq StoredFor(e)
    <3>1. data'[e] \in {data[e], None}
      BY DEF Initia, Proceed, TakeTurn, GiveUp, FindChannel, NoChannel, Send, WakeUp, TimeOut, ReadStatus,
             ThrowStatus, TakeData, ReadResult, TypeOK, endVars, store
    <3>. QED
      BY <3>1 DEF StoredFor, Some
  <2>2. CASE e # Home(x)
    BY <2>1, <2>2, CallerElsewhere DEF Shrinks
  <2>3. CASE UNCHANGED <<wire, cauda, serving>>
    BY <2>1, <2>3, SameWay
  <2>4. CASE Transmit(Home(x), Call(x)) /\ UNCHANGED <<cauda, serving>> /\ Goto(x, "wait")
    <3>1. call'[x].n = call[x].n /\ call'[x].at = "wait"
      BY <2>4, Goes DEF Stages
    <3>2. UnderWay(e)' \subseteq UnderWay(e) \cup {Id(x)}
      BY <2>4, SendWay
    <3>. QED
      BY <2>1, <2>2, <3>1, <3>2
  <2>. QED
    BY <2>3, <2>4 DEF Initia, Proceed, TakeTurn, GiveUp, FindChannel, NoChannel, Send, WakeUp, TimeOut,
              ReadStatus, ThrowStatus, TakeData, ReadResult, netVars
<1>4. CASE id \in UnderWay(e) \cup StoredFor(e)
  <2>1. /\ Home(id.by) = e /\ id.n <= call[id.by].n
        /\ In(id.by, {"initia", "exordi", "send"}) => id.n < call[id.by].n
        /\ id.by \in Actors /\ id.n \in Nat /\ call[id.by].n \in Nat
    BY <1>4, CallsTyped, SMTT(40) DEF Numbered, Ident, TypeOK
  <2>2. CASE id.by # x
    BY <2>1, <2>2, <1>1 DEF In
  <2>3. CASE id.by = x
    BY <2>1, <2>3, <1>2
  <2>. QED
    BY <2>2, <2>3
<1>5. CASE id = Id(x) /\ e = Home(x) /\ call'[x].n = call[x].n /\ call'[x].at = "wait"
  BY <1>5 DEF Id, TypeOK
<1>. QED
  BY <1>3, <1>4, <1>5

LEMMA EndNumbered ==
    ASSUME TypeOK, Numbered, NEW f \in Ends, Dispatch(f) \/ Work(f) \/ Close(f)
    PROVE  Numbered'
<1>. SUFFICES ASSUME NEW e \in Ends
              PROVE  UnderWay(e)' \cup StoredFor(e)' \subseteq UnderWay(e) \cup StoredFor(e)
  <2>1. call' = call
    BY DEF Dispatch, Work, Deliver, FindBroken, TellBroken, Serve, Respond, StoreAnswer, RunClosing, Close
  <2>. QED
    BY <2>1 DEF Numbered, In
<1>1. UnderWay(e)' \subseteq UnderWay(e)
  BY EndShrinks DEF Shrinks
<1>2. CASE data'[e] = data[e]
  BY <1>1, <1>2 DEF StoredFor
<1>3. CASE StoreAnswer(f) /\ e = f
  <2>1. Head(cauda[e]).id \in UnderWay(e) /\ data'[e] = Head(cauda[e])
    BY <1>3, StoreWay DEF StoreAnswer, TypeOK
  <2>. QED
    BY <1>1, <2>1 DEF StoredFor, Some
<1>. QED
  BY <1>2, <1>3 DEF Dispatch, Work, Deliver, FindBroken, TellBroken, Serve, Respond, StoreAnswer, RunClosing,
                    Close, TypeOK, endVars, store

LEMMA ClosedFirstStep ==
    ASSUME TypeOK, ClosedFirst, Next
    PROVE  ClosedFirst'
<1>0. \A e \in Ends : canale'[e] => canale[e]
  BY OneWay
<1>1. \A e \in Ends : broken'[e] => broken[e] \/ ~canale'[e]
  <2>1. ASSUME NEW x \in Actors, Initia(x) \/ Proceed(x) PROVE broken' = broken
    BY <2>1 DEF Initia, Proceed, TakeTurn, GiveUp, FindChannel, NoChannel, Send, WakeUp, TimeOut,
              ReadStatus, ThrowStatus, TakeData, ReadResult, netVars
  <2>2. ASSUME NEW f \in Ends, FindBroken(f) PROVE \A e \in Ends : broken'[e] => broken[e] \/ ~canale'[e]
    BY <2>2, Closes DEF FindBroken, TypeOK
  <2>3. ASSUME NEW f \in Ends, Deliver(f) \/ TellBroken(f) \/ Work(f) \/ Close(f)
        PROVE  \A e \in Ends : broken'[e] => broken[e]
    BY <2>3 DEF Deliver, TellBroken, Work, Serve, Respond, StoreAnswer, RunClosing, Close, TypeOK, netVars
  <2>. QED
    BY <2>1, <2>2, <2>3 DEF Next, Dispatch, Lose
<1>2. \A y \in Actors : call'[y].at = "ended" => At(y, "ended") \/ ~canale'[Home(y)]
  <2>1. ASSUME NEW x \in Actors, Initia(x) \/ Proceed(x)
        PROVE  \A y \in Actors : call'[y].at = "ended" => At(y, "ended") \/ ~canale'[Home(y)]
    <3>1. CASE Initia(x)
      BY <3>1 DEF Initia, TypeOK, At
    <3>2. CASE FindChannel(x) /\ ~canale[Home(x)]
      <4>1. Goto(x, "ended") /\ canale' = canale /\ "ended" \in Stages
        BY <3>2 DEF FindChannel, service, Stages
      <4>. QED
        BY <4>1, <3>2, Goes DEF At
    <3>3. CASE \E at \in Stages \ {"ended"} : Goto(x, at)
      BY <3>3, Goes DEF At
    <3>. QED
      BY <2>1, <3>1, <3>2, <3>3 DEF Proceed, TakeTurn, GiveUp, FindChannel, NoChannel, Send, WakeUp, TimeOut,
              ReadStatus, ThrowStatus, TakeData, ReadResult, Over, Stages
  <2>2. ASSUME NEW f \in Ends, Dispatch(f) \/ Work(f) \/ Close(f) PROVE call' = call
    BY <2>2 DEF Dispatch, Work, Deliver, FindBroken, TellBroken, Serve, Respond, StoreAnswer, RunClosing, Close
  <2>. QED
    BY <2>1, <2>2 DEF Next, Lose, At
<1>. QED
  BY <1>0, <1>1, <1>2, Homes DEF ClosedFirst, At

LEMMA CallerAnswers ==
    ASSUME Core, NEW x \in Actors, Initia(x) \/ Proceed(x)
    PROVE  AnswersOwn'
<1>. DEFINE e == Home(x)
<1>0. TypeOK /\ Turns /\ AnswersOwn /\ crowded \subseteq crowded' /\ canale' = canale
      /\ \A y \in Actors : Home(y) \in Ends
  <2>1. crowded \subseteq crowded'
    BY OneWay DEF Core, Next
  <2>2. canale' = canale
    BY DEF Initia, Proceed, TakeTurn, GiveUp, FindChannel, NoChannel, Send, WakeUp, TimeOut,
           ReadStatus, ThrowStatus, TakeData, ReadResult, endVars, service
  <2>. QED
    BY <2>1, <2>2, Homes DEF Core
<1>1. CASE result' = result
  BY <1>0, <1>1 DEF AnswersOwn
<1>2. ASSUME NEW how \in {"ok", "error", "broken"}, NEW answer \in Answers \cup {None}, Over(x, how, answer),
             e \notin crowded' =>
               /\ how = "ok" => answer = Answer(Id(x), FALSE)
               /\ how = "error" => answer = Answer(Id(x), TRUE) \/ ~canale[e]
      PROVE  AnswersOwn'
  <2>1. result'[x] = [n |-> call[x].n, how |-> how, answer |-> answer]
        /\ \A y \in Actors : y # x => result'[y] = result[y]
    BY <1>0, <1>2, Ends1
  <2>2. [by |-> x, n |-> result'[x].n] = Id(x)
    BY <2>1 DEF Id
  <2>. SUFFICES ASSUME NEW y \in Actors, Home(y) \notin crowded'
                PROVE  /\ result'[y].how = "ok" =>
                            result'[y].answer = Answer([by |-> y, n |-> result'[y].n], FALSE)
                       /\ result'[y].how = "error" =>
                            \/ result'[y].answer = Answer([by |-> y, n |-> result'[y].n], TRUE)
                            \/ ~canale[Home(y)]
    BY <1>0 DEF AnswersOwn, Answer
  <2>3. CASE y = x
    <3>1. result'[x].how = how /\ result'[x].answer = answer /\ Home(x) \notin crowded'
      BY <2>1, <2>3
    <3>. QED
      BY <2>2, <2>3, <3>1, <1>2
  <2>4. CASE y # x
    BY <2>1, <2>4, <1>0 DEF AnswersOwn
  <2>. QED
    BY <2>3, <2>4
<1>3. CASE Over(x, "broken", None)
  BY <1>2, <1>3
<1>4. CASE ThrowStatus(x) /\ status[e]
  <2>1. Over(x, "error", data[e]) /\ At(x, "refused") /\ data[e] \in Answers \cup {None}
    BY <1>0, <1>4 DEF ThrowStatus, TypeOK
  <2>2. ASSUME e \notin crowded', canale[e] PROVE data[e] = Answer(Id(x), TRUE)
    <3>1. Kept(e) /\ x \in Of(e) /\ In(x, {"woken", "refused"}) /\ status[e] = TRUE
      BY <1>0, <1>4, <2>1, <2>2 DEF Turns, OneTurn, Of, In, At, TypeOK
    <3>. QED
      BY <3>1 DEF Kept
  <2>. QED
    BY <1>2, <2>1, <2>2
<1>5. CASE ReadResult(x) /\ origo[e] # None
  <2>1. Over(x, "ok", origo[e]) /\ At(x, "read") /\ origo[e] \in Answers \cup {None}
    BY <1>0, <1>5 DEF ReadResult, TypeOK
  <2>2. ASSUME e \notin crowded' PROVE origo[e] = Answer(Id(x), FALSE)
    <3>1. Reads(e) /\ x \in Of(e)
      BY <1>0, <2>2 DEF Turns, AnswerComes, Of
    <3>. QED
      BY <3>1, <2>1, <1>5 DEF Reads
  <2>. QED
    BY <1>2, <2>1, <2>2
<1>. QED
  BY <1>1, <1>3, <1>4, <1>5 DEF Initia, Proceed, TakeTurn, GiveUp, FindChannel, NoChannel, Send, WakeUp, TimeOut,
           ReadStatus, ThrowStatus, TakeData, ReadResult

LEMMA EndAnswers ==
    ASSUME Core, NEW f \in Ends, Dispatch(f) \/ Work(f) \/ Close(f)
    PROVE  AnswersOwn'
<1>1. result' = result /\ crowded' = crowded
  BY DEF Dispatch, Work, Deliver, FindBroken, TellBroken, Serve, Respond, StoreAnswer, RunClosing, Close
<1>2. \A e \in Ends : canale'[e] => canale[e]
  BY OneWay DEF Core, Next
<1>. QED
  BY <1>1, <1>2, Homes DEF Core, AnswersOwn

LEMMA StepCore ==
    ASSUME Core, [Next]_vars
    PROVE  Core'
<1>1. ASSUME NEW x \in Actors, Initia(x) \/ Proceed(x) PROVE Core'
  <2>1. TypeOK /\ Numbered /\ ClosedFirst /\ Next
    BY <1>1 DEF Core, Next
  <2>. QED
    BY <1>1, <2>1, CallerTyped, CallerNumbered, ClosedFirstStep, CallerTurns, CallerAnswers DEF Core
<1>2. ASSUME NEW f \in Ends, Dispatch(f) \/ Work(f) \/ Close(f) PROVE Core'
  <2>1. TypeOK /\ Numbered /\ ClosedFirst /\ Next
    BY <1>2 DEF Core, Next
  <2>. QED
    BY <1>2, <2>1, EndTyped, EndNumbered, ClosedFirstStep, EndTurns, EndAnswers DEF Core
<1>3. CASE Lose
  <2>0. TypeOK /\ Numbered /\ ClosedFirst /\ AnswersOwn
    BY DEF Core
  <2>1. TypeOK'
    BY <1>3, <2>0 DEF Lose, TypeOK, endVars, service, store, turn
  <2>2. UNCHANGED <<wire, cauda, serving, data, call, broken, canale, result, crowded>>
    BY <1>3 DEF Lose, endVars, service, store
  <2>3. Numbered'
    <3>1. \A e \in Ends : UnderWay(e)' = UnderWay(e) /\ StoredFor(e)' = StoredFor(e)
      BY <2>2, SameWay DEF StoredFor
    <3>. QED
      BY <3>1, <2>0, <2>2 DEF Numbered, In
  <2>4. ClosedFirst' /\ AnswersOwn'
    BY <2>0, <2>2 DEF ClosedFirst, AnswersOwn, At
  <2>. QED
    BY <1>3, <2>1, <2>3, <2>4, LoseTurns DEF Core
<1>4. CASE UNCHANGED vars
  <2>0. TypeOK /\ Numbered /\ ClosedFirst /\ AnswersOwn /\ Turns
    BY DEF Core
  <2>1. TypeOK'
    BY <1>4, <2>0 DEF vars, TypeOK, netVars, endVars, service, store, turn
  <2>2. UNCHANGED <<wire, cauda, serving>>
        /\ UNCHANGED <<data, call, broken, canale, result, crowded, status, origo, inv, resp>>
    BY <1>4 DEF vars, netVars, endVars, service, store, turn
  <2>3. \A e \in Ends : UnderWay(e)' = UnderWay(e) /\ StoredFor(e)' = StoredFor(e) /\ Shrinks(e)
    BY <2>2, SameWay DEF StoredFor
  <2>4. Numbered' /\ ClosedFirst' /\ AnswersOwn'
    BY <2>0, <2>2, <2>3 DEF Numbered, In, ClosedFirst, AnswersOwn, At
  <2>5. Turns'
    <3>. SUFFICES ASSUME NEW e \in Ends, e \notin crowded' PROVE Sound(e)'
      BY DEF Turns, Sound
    <3>1. Sound(e)
      BY <2>0, <2>2 DEF Turns, Sound
    <3>. QED
      BY <2>2, <2>3, <3>1, Elsewhere
  <2>. QED
    BY <2>1, <2>4, <2>5 DEF Core
<1>. QED
  BY <1>1, <1>2, <1>3, <1>4 DEF Next

LEMMA InitCore ==
    ASSUME Init
    PROVE  Core
<1>0. NoResult \in [n : Nat, how : {"none", "ok", "error", "broken"}, answer : Answers \cup {None}]
      /\ Silent \in [at : Stages, n : Nat] /\ Silent.at = "idle"
  BY DEF NoResult, Silent, Stages
<1>1. TypeOK
  <2>1. calls \in [Actors -> Nat]
    BY Shape DEF Init
  <2>2. <<>> \in Seq(Message) /\ <<>> \in Seq(Message \cup {ClosingTask})
    OBVIOUS
  <2>3. call \in [Actors -> [at : Stages, n : Nat]]
    BY <1>0 DEF Init
  <2>4. result \in [Actors -> [n : Nat, how : {"none", "ok", "error", "broken"}, answer : Answers \cup {None}]]
    BY <1>0 DEF Init
  <2>5. wire \in [Ends -> Seq(Message)] /\ cauda \in [Ends -> Seq(Message \cup {ClosingTask})]
    BY <2>2 DEF Init, OnEnds
  <2>. QED
    BY <2>1, <2>3, <2>4, <2>5 DEF TypeOK, Init, OnEnds
<1>2. \A x \in Actors : call[x].at = "idle"
  BY <1>0 DEF Init
<1>3. \A e \in Ends : /\ wire[e] = <<>> /\ cauda[e] = <<>> /\ serving[e] = None /\ data[e] = None
                      /\ origo[e] = None /\ inv[e] = 1 /\ resp[e] = FALSE /\ broken[e] = FALSE
  BY DEF Init, OnEnds
<1>4. \A e \in Ends : UnderWay(e) = {} /\ OneUnderWay(e) /\ StoredFor(e) = {}
  <2>. SUFFICES ASSUME NEW e \in Ends PROVE UnderWay(e) = {} /\ OneUnderWay(e) /\ StoredFor(e) = {}
    OBVIOUS
  <2>0. Other(e) \in Ends
    BY Ends2
  <2>1. /\ Way(e, "called") = {} /\ Way(e, "queued") = {} /\ Way(e, "served") = {}
        /\ Way(e, "answered") = {} /\ Way(e, "returned") = {}
    BY <1>3, <2>0, WayIs, IdsOfEmpty, Somes
  <2>2. \A leg \in Legs : Way(e, leg) = {}
    BY <2>1 DEF Legs
  <2>3. OneEach(e)
    BY <1>3, <2>0, IdsOfEmpty DEF OneEach
  <2>4. StoredFor(e) = {}
    BY <1>3, Somes DEF StoredFor
  <2>. QED
    BY <2>2, <2>3, <2>4 DEF UnderWay, OneUnderWay, Exclusive
<1>5. Numbered /\ ClosedFirst
  BY <1>2, <1>3, <1>4 DEF Numbered, ClosedFirst, At
<1>6. Turns
  <2>. SUFFICES ASSUME NEW e \in Ends PROVE AnswerComes(e) /\ OneTurn(e)
    BY DEF Turns
  <2>0. \A x \in Of(e) : call[x].at = "idle"
    BY <1>2 DEF Of
  <2>1. AnswerComes(e)
    BY <2>0, <1>4 DEF AnswerComes, OneSender, QuietWhile, OwnUnderWay, Told, Takes, Reads, In, At, Sending
  <2>2. OneTurn(e)
    <3>1. TurnFree(e)
      BY <2>0 DEF TurnFree, In, Turning
    <3>. QED
      BY <3>1, <2>0, <1>3, <1>4 DEF OneTurn, OneTurner, TurnCounted, SignalForOne, Awaited, Kept, RefusedAlone,
                                     ReadsOwn, In, At, Turning
  <2>. QED
    BY <2>1, <2>2
<1>7. AnswersOwn
  BY DEF Init, NoResult, AnswersOwn
<1>. QED
  BY <1>1, <1>5, <1>6, <1>7 DEF Core

\* The one that has the turn is counted.
LEMMA CoreOneCall ==
    ASSUME Core
    PROVE  OneCall
<1>. SUFFICES ASSUME NEW e \in Ends, canale[e], e \notin crowded
              PROVE  /\ inv[e] + Cardinality(Busy(e)) = 1
                     /\ resp[e] => \E x \in Busy(e) : call[x].at \in {"wait", "woken", "take", "read"}
                     /\ \A x \in Busy(e) : At(x, "read") => origo[e] = Answer(Id(x), FALSE)
  BY DEF OneCall
<1>1. OneTurn(e)
  BY DEF Core, Turns
<1>2. \A x : x \in Busy(e) <=> x \in Of(e) /\ In(x, Turning)
  BY DEF Busy, Of, In, Turning
<1>3. inv[e] + Cardinality(Busy(e)) = 1
  <2>1. CASE TurnFree(e)
    <3>1. Busy(e) = {} /\ inv[e] = 1
      BY <2>1, <1>1, <1>2 DEF OneTurn, TurnCounted, TurnFree
    <3>. QED
      BY <3>1, FS_EmptySet
  <2>2. CASE ~TurnFree(e)
    <3>1. inv[e] = 0
      BY <2>2, <1>1 DEF OneTurn, TurnCounted
    <3>2. PICK x \in Of(e) : In(x, Turning)
      BY <2>2 DEF TurnFree
    <3>3. Busy(e) = {x}
      BY <3>2, <1>1, <1>2 DEF OneTurn, OneTurner
    <3>4. Cardinality({x}) = 1
      BY FS_Singleton
    <3>. QED
      BY <3>1, <3>3, <3>4
  <2>. QED
    BY <2>1, <2>2
<1>4. resp[e] => \E x \in Busy(e) : call[x].at \in {"wait", "woken", "take", "read"}
  BY <1>1, <1>2 DEF OneTurn, SignalForOne, In, Turning
<1>5. \A x \in Busy(e) : At(x, "read") => origo[e] = Answer(Id(x), FALSE)
  BY <1>1, <1>2 DEF OneTurn, ReadsOwn
<1>. QED
  BY <1>3, <1>4, <1>5

----------------------------------------------------------------------------
(* The theorems.                                                           *)

(* What the two services know of the calls between them always holds: as    *)
(* long as no refused caller of a service was overtaken, at most one call   *)
(* or answer of it is anywhere on its way, and it is that of the caller     *)
(* that waits; the turn given by _sync_inv and the signal _sync_resp are    *)
(* for one caller at a time; and a status, a result or an exception reaches *)
(* the caller whose method produced it.  For any number of threads, any     *)
(* calls, and methods that call back.                                       *)
THEOREM Invariance == Spec => []IInv
<1>1. Init => Core
  BY InitCore
<1>2. Core /\ [Next]_vars => Core'
  BY StepCore
<1>3. Core => IInv
  BY CoreOneCall DEF IInv
<1>. QED
  BY <1>1, <1>2, <1>3, PTL DEF Spec

(* Values keep their types.                                                 *)
THEOREM TypeCorrect == Spec => []TypeOK
<1>1. IInv => TypeOK
  BY DEF IInv, Core
<1>. QED
  BY <1>1, Invariance, PTL

(* As long as a service is open and no caller of it was overtaken while it  *)
(* was reading its refusal, _sync_inv and the callers in a call add up to   *)
(* one, _sync_resp is up only for a call that was sent, and the caller      *)
(* reads the result of its own call.                                        *)
THEOREM OneCallAtATime == Spec => []OneCall
<1>1. IInv => OneCall
  BY DEF IInv
<1>. QED
  BY <1>1, Invariance, PTL

(* A call that returns has its own answer, and one that throws the method's *)
(* exception was answered with one, or its channel is gone.                 *)
THEOREM AnswersReachTheirCalls == Spec => []AnswersOwn
<1>1. IInv => AnswersOwn
  BY DEF IInv, Core
<1>. QED
  BY <1>1, Invariance, PTL
=============================================================================

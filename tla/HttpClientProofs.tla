-------------------------- MODULE HttpClientProofs --------------------------
(***************************************************************************)
(* Proofs about the HTTP client, for any threads, downloads and bounds.    *)
(***************************************************************************)
EXTENDS HttpClientInvariant, SequenceTheorems, TLAPS

LEMMA AppendFacts ==
    ASSUME NEW S, NEW q \in Seq(S), NEW e \in S
    PROVE  /\ Append(q, e) \in Seq(S)
           /\ Len(q) \in Nat /\ Len(Append(q, e)) = Len(q) + 1
           /\ \A i \in 1 .. Len(q) : Append(q, e)[i] = q[i]
           /\ Append(q, e)[Len(q) + 1] = e
  BY AppendProperties, LenProperties

LEMMA TailFacts ==
    ASSUME NEW S, NEW q \in Seq(S), q # <<>>
    PROVE  /\ Len(q) \in Nat \ {0}
           /\ Head(q) \in S /\ Head(q) = q[1]
           /\ Tail(q) \in Seq(S)
           /\ Len(Tail(q)) = Len(q) - 1
           /\ \A i \in 1 .. Len(q) - 1 : Tail(q)[i] = q[i + 1]
  BY HeadTailProperties, LenProperties, EmptySeq

LEMMA ElementFacts ==
    ASSUME NEW S, NEW q \in Seq(S)
    PROVE  Len(q) \in Nat /\ \A i \in 1 .. Len(q) : q[i] \in S
  BY ElementOfSeq, LenProperties

Report1 == [r : Requests, how : Outcomes]

\* None is no number.
LEMMA Numbers ==
    /\ \A r \in Requests : r \in Nat /\ r # None
    /\ \A s \in Sessions : s \in Nat /\ s # None
    /\ MaxRequests \in Nat /\ MaxSessions \in Nat
  BY Distinct, Bounds DEF Requests, Sessions

----------------------------------------------------------------------------
(* How the tables of requests, sessions and calls are rewritten.           *)

\* A request that only changes its place.
Like(x, y) == x.load = y.load /\ x.session = y.session /\ x.code = y.code /\ x.answer = y.answer

LEMMA Put ==
    ASSUME NEW rq \in [Requests -> Request], NEW r \in Requests, NEW new \in Request
    PROVE  /\ [rq EXCEPT ![r] = new] \in [Requests -> Request]
           /\ [rq EXCEPT ![r] = new][r] = new
           /\ \A p \in Requests : p # r => [rq EXCEPT ![r] = new][p] = rq[p]
  OBVIOUS

MovedTo(rq, r, at) == [rq EXCEPT ![r].at = at]
LEMMA MovedFacts ==
    ASSUME NEW rq \in [Requests -> Request], NEW r \in Requests, NEW at \in Places
    PROVE  /\ MovedTo(rq, r, at) \in [Requests -> Request]
           /\ MovedTo(rq, r, at)[r].at = at /\ Like(MovedTo(rq, r, at)[r], rq[r])
           /\ \A q \in Requests : q # r => MovedTo(rq, r, at)[q] = rq[q]
<1>. DEFINE new == [rq[r] EXCEPT !.at = at]
<1>1. new \in Request /\ new.at = at /\ Like(new, rq[r])
  BY DEF Request, Like
<1>2. MovedTo(rq, r, at) = [rq EXCEPT ![r] = new]
  BY DEF MovedTo
<1>. HIDE DEF new
<1>. QED
  BY <1>1, <1>2, Put

QueuedIn(rq, r, s) == [rq EXCEPT ![r].at = "waiting", ![r].session = s]
LEMMA QueuedFacts ==
    ASSUME NEW rq \in [Requests -> Request], NEW r \in Requests, NEW s \in Sessions
    PROVE  /\ QueuedIn(rq, r, s) \in [Requests -> Request]
           /\ QueuedIn(rq, r, s)[r].at = "waiting" /\ QueuedIn(rq, r, s)[r].session = s
           /\ QueuedIn(rq, r, s)[r].load = rq[r].load /\ QueuedIn(rq, r, s)[r].code = rq[r].code
           /\ QueuedIn(rq, r, s)[r].answer = rq[r].answer
           /\ \A q \in Requests : q # r => QueuedIn(rq, r, s)[q] = rq[q]
<1>. DEFINE new == [[rq[r] EXCEPT !.at = "waiting"] EXCEPT !.session = s]
<1>1. /\ new \in Request /\ new.at = "waiting" /\ new.session = s
      /\ new.load = rq[r].load /\ new.code = rq[r].code /\ new.answer = rq[r].answer
  BY DEF Request, Places
<1>2. QueuedIn(rq, r, s) = [rq EXCEPT ![r] = new]
  BY DEF QueuedIn
<1>. HIDE DEF new
<1>. QED
  BY <1>1, <1>2, Put

MadeFor(rq, r, d) == [rq EXCEPT ![r] = [@ EXCEPT !.load = d, !.at = "made"]]
LEMMA MadeFacts ==
    ASSUME NEW rq \in [Requests -> Request], NEW r \in Requests, NEW d \in Downloads
    PROVE  /\ MadeFor(rq, r, d) \in [Requests -> Request]
           /\ MadeFor(rq, r, d)[r].at = "made" /\ MadeFor(rq, r, d)[r].load = d
           /\ MadeFor(rq, r, d)[r].session = rq[r].session /\ MadeFor(rq, r, d)[r].code = rq[r].code
           /\ MadeFor(rq, r, d)[r].answer = rq[r].answer
           /\ \A q \in Requests : q # r => MadeFor(rq, r, d)[q] = rq[q]
<1>. DEFINE new == [rq[r] EXCEPT !.load = d, !.at = "made"]
<1>1. /\ new \in Request /\ new.at = "made" /\ new.load = d
      /\ new.session = rq[r].session /\ new.code = rq[r].code /\ new.answer = rq[r].answer
  BY DEF Request, Places
<1>2. MadeFor(rq, r, d) = [rq EXCEPT ![r] = new]
  BY DEF MadeFor
<1>. HIDE DEF new
<1>. QED
  BY <1>1, <1>2, Put

\* A head was read.
Proceeded(rq, r, q) == [rq EXCEPT ![r].answer = q, ![r].at = "proceeding", ![r].code = "moved"]
LEMMA ProceededFacts ==
    ASSUME NEW rq \in [Requests -> Request], NEW r \in Requests, NEW q \in Requests
    PROVE  /\ Proceeded(rq, r, q) \in [Requests -> Request]
           /\ Proceeded(rq, r, q)[r].at = "proceeding" /\ Proceeded(rq, r, q)[r].code = "moved"
           /\ Proceeded(rq, r, q)[r].answer = q /\ Proceeded(rq, r, q)[r].load = rq[r].load
           /\ Proceeded(rq, r, q)[r].session = rq[r].session
           /\ \A p \in Requests : p # r => Proceeded(rq, r, q)[p] = rq[p]
<1>. DEFINE new == [[[rq[r] EXCEPT !.answer = q] EXCEPT !.at = "proceeding"] EXCEPT !.code = "moved"]
<1>1. /\ new \in Request /\ new.at = "proceeding" /\ new.code = "moved" /\ new.answer = q
      /\ new.load = rq[r].load /\ new.session = rq[r].session
  BY DEF Request, Places
<1>2. Proceeded(rq, r, q) = [rq EXCEPT ![r] = new]
  BY DEF Proceeded
<1>. HIDE DEF new
<1>. QED
  BY <1>1, <1>2, Put

ReadAs(rq, r, q, code) == [rq EXCEPT ![r].answer = q, ![r].code = code]
LEMMA ReadFacts ==
    ASSUME NEW rq \in [Requests -> Request], NEW r \in Requests, NEW q \in Requests,
           NEW code \in {"ok", "unwanted"}
    PROVE  /\ ReadAs(rq, r, q, code) \in [Requests -> Request]
           /\ ReadAs(rq, r, q, code)[r].at = rq[r].at /\ ReadAs(rq, r, q, code)[r].code = code
           /\ ReadAs(rq, r, q, code)[r].answer = q /\ ReadAs(rq, r, q, code)[r].load = rq[r].load
           /\ ReadAs(rq, r, q, code)[r].session = rq[r].session
           /\ \A p \in Requests : p # r => ReadAs(rq, r, q, code)[p] = rq[p]
<1>. DEFINE new == [[rq[r] EXCEPT !.answer = q] EXCEPT !.code = code]
<1>1. /\ new \in Request /\ new.at = rq[r].at /\ new.code = code /\ new.answer = q
      /\ new.load = rq[r].load /\ new.session = rq[r].session
  BY DEF Request
<1>2. ReadAs(rq, r, q, code) = [rq EXCEPT ![r] = new]
  BY DEF ReadAs
<1>. HIDE DEF new
<1>. QED
  BY <1>1, <1>2, Put

\* What a session tells its responders.
LEMMA PlacedFacts ==
    ASSUME NEW rq \in [Requests -> Request], NEW s \in Sessions, NEW rs \in Seq(Requests)
    PROVE  /\ Placed(rq, s, rs) \in [Requests -> Request]
           /\ \A i \in 1 .. Len(rs) : /\ rs[i] \in Requests /\ Like(Placed(rq, s, rs)[rs[i]], rq[rs[i]])
                                      /\ Placed(rq, s, rs)[rs[i]].at = IF session[s].queue THEN "told" ELSE "lost"
           /\ \A q \in Requests : (\A i \in 1 .. Len(rs) : rs[i] # q) => Placed(rq, s, rs)[q] = rq[q]
<1>. DEFINE at == IF session[s].queue THEN "told" ELSE "lost"
            new == [r \in Requests |-> [rq[r] EXCEPT !.at = at]]
<1>1. at \in Places
  BY DEF Places
<1>2. \A r \in Requests : new[r] \in Request /\ new[r].at = at /\ Like(new[r], rq[r])
  <2>. HIDE DEF at
  <2>. QED
    BY <1>1 DEF Request, Like
<1>3. Placed(rq, s, rs) = [r \in Requests |-> IF r \in ToSet(rs) THEN new[r] ELSE rq[r]]
  BY DEF Placed
<1>4. \A q : q \in ToSet(rs) <=> \E i \in 1 .. Len(rs) : rs[i] = q
  BY LenProperties DEF ToSet
<1>5. \A i \in 1 .. Len(rs) : rs[i] \in Requests
  BY ElementFacts
<1>. HIDE DEF new, at
<1>6. /\ \A i \in 1 .. Len(rs) : Placed(rq, s, rs)[rs[i]] = new[rs[i]]
      /\ \A q \in Requests : (\A i \in 1 .. Len(rs) : rs[i] # q) => Placed(rq, s, rs)[q] = rq[q]
      /\ Placed(rq, s, rs) \in [Requests -> Request]
  BY <1>2, <1>3, <1>4, <1>5
<1>. QED
  BY <1>2, <1>5, <1>6 DEF at

LEMMA ToldFacts ==
    ASSUME reports \in Seq(Report1), NEW s \in Sessions, NEW rs \in Seq(Requests), NEW how \in Outcomes
    PROVE  /\ Told(s, rs, how) \in Seq(Report1)
           /\ ~session[s].queue => Told(s, rs, how) = reports
           /\ session[s].queue =>
                /\ Len(Told(s, rs, how)) = Len(reports) + Len(rs)
                /\ \A i \in 1 .. Len(reports) : Told(s, rs, how)[i] = reports[i]
                /\ \A i \in 1 .. Len(rs) : Told(s, rs, how)[Len(reports) + i] = [r |-> rs[i], how |-> how]
<1>. DEFINE p == [i \in 1 .. Len(rs) |-> [r |-> rs[i], how |-> how]]
<1>0. Len(rs) \in Nat /\ \A i \in 1 .. Len(rs) : rs[i] \in Requests
  BY ElementFacts
<1>1. p \in Seq(Report1) /\ Len(p) = Len(rs)
  <2>1. \A i \in 1 .. Len(rs) : p[i] \in Report1
    BY <1>0 DEF Report1
  <2>. QED
    BY <1>0, <2>1, IsASeq
<1>2. \A i \in 1 .. Len(rs) : p[i] = [r |-> rs[i], how |-> how]
  OBVIOUS
<1>3. Told(s, rs, how) = IF session[s].queue THEN reports \o p ELSE reports
  BY DEF Told
<1>. HIDE DEF p
<1>4. /\ reports \o p \in Seq(Report1) /\ Len(reports \o p) = Len(reports) + Len(rs)
      /\ \A i \in 1 .. Len(reports) + Len(rs) :
            (reports \o p)[i] = IF i <= Len(reports) THEN reports[i] ELSE p[i - Len(reports)]
  <2>1. reports \in Seq(Report1) /\ p \in Seq(Report1)
    BY <1>1
  <2>2. /\ reports \o p \in Seq(Report1) /\ Len(reports \o p) = Len(reports) + Len(p)
        /\ \A i \in 1 .. Len(reports) + Len(p) :
              (reports \o p)[i] = IF i <= Len(reports) THEN reports[i] ELSE p[i - Len(reports)]
    BY <2>1, ConcatProperties
  <2>. QED
    BY <1>1, <2>2
<1>5. Len(reports) \in Nat
  BY LenProperties
<1>6. \A i \in 1 .. Len(reports) : (reports \o p)[i] = reports[i]
  BY <1>0, <1>4, <1>5
<1>7. \A i \in 1 .. Len(rs) : (reports \o p)[Len(reports) + i] = p[i]
  <2>. TAKE i \in 1 .. Len(rs)
  <2>1. Len(reports) + i \in 1 .. Len(reports) + Len(rs) /\ ~(Len(reports) + i <= Len(reports))
        /\ (Len(reports) + i) - Len(reports) = i
    BY <1>0, <1>5
  <2>. QED
    BY <2>1, <1>4
<1>. QED
  BY <1>2, <1>3, <1>4, <1>6, <1>7

LEMMA OneOf == \A r \in Requests : <<r>> \in Seq(Requests) /\ Len(<<r>>) = 1 /\ <<r>>[1] = r /\ 1 .. 1 = {1}
  OBVIOUS

\* A call goes on or ends.
CallRecord == [at : Stages, r : Requests \cup {None}, s : Sessions \cup {None}]

LEMMA Going ==
    ASSUME TypeOK, NEW a \in Actors, NEW at \in Stages, NEW r \in Requests \cup {None},
           NEW s \in Sessions \cup {None}, Goto(a, at, r, s)
    PROVE  /\ call'[a].at = at /\ call'[a].r = r /\ call'[a].s = s
           /\ \A b \in Actors : b # a => call'[b] = call[b]
           /\ call' \in [Actors -> CallRecord]
<1>. DEFINE new == [at |-> at, r |-> r, s |-> s]
<1>1. new \in CallRecord /\ new.at = at /\ new.r = r /\ new.s = s
  BY DEF CallRecord
<1>2. call' = [call EXCEPT ![a] = new]
  BY DEF Goto
<1>. HIDE DEF new
<1>. QED
  BY <1>1, <1>2 DEF TypeOK, CallRecord

LEMMA Returning ==
    ASSUME TypeOK, NEW a \in Actors, Return(a)
    PROVE  /\ call'[a].at = "idle" /\ call'[a].r = None /\ call'[a].s = None
           /\ \A b \in Actors : b # a => call'[b] = call[b]
           /\ call' \in [Actors -> CallRecord]
<1>1. Goto(a, "idle", None, None)
  BY DEF Return, Goto, Idle
<1>. QED
  BY <1>1, Going DEF Stages

----------------------------------------------------------------------------
(* A request is in one place: how the places change.                       *)

LEMMA CarriedSame ==
    ASSUME CarriedOnce,
           \A a \in Actors : (Asking(a)' <=> Asking(a)) /\ (Asking(a) => call'[a].r = call[a].r),
           \A r \in Requests : request'[r].at = "made" <=> request[r].at = "made"
    PROVE  CarriedOnce'
  BY DEF CarriedOnce

\* Somebody makes a request and carries it.
LEMMA CarriedNew ==
    ASSUME CarriedOnce, NEW a \in Actors, NEW r \in Requests,
           ~Asking(a), Asking(a)', call'[a].r = r,
           \A b \in Actors : b # a => (Asking(b)' <=> Asking(b)) /\ call'[b].r = call[b].r,
           request[r].at # "made", request'[r].at = "made",
           \A q \in Requests : q # r => (request'[q].at = "made" <=> request[q].at = "made")
    PROVE  CarriedOnce'
  BY DEF CarriedOnce

\* Whoever carries a request leaves it somewhere else.
LEMMA CarriedGone ==
    ASSUME CarriedOnce, NEW a \in Actors, Asking(a), ~Asking(a)',
           \A b \in Actors : b # a => (Asking(b)' <=> Asking(b)) /\ call'[b].r = call[b].r,
           request'[call[a].r].at # "made",
           \A q \in Requests : q # call[a].r => (request'[q].at = "made" <=> request[q].at = "made")
    PROVE  CarriedOnce'
  BY DEF CarriedOnce

\* Requests wait in sessions.
Placing == \A r \in Requests : request[r].at = "waiting" => request[r].session \in Sessions

LEMMA WaitingSame ==
    ASSUME WaitingOnce, Placing,
           \A s \in Sessions : session[s].waiting \in Seq(Requests) /\ session'[s].waiting = session[s].waiting,
           \A r \in Requests : /\ request'[r].at = "waiting" <=> request[r].at = "waiting"
                               /\ request[r].at = "waiting" => request'[r].session = request[r].session
    PROVE  WaitingOnce'
<1>1. \A s \in Sessions : \A i \in 1 .. Len(session[s].waiting) : session[s].waiting[i] \in Requests
  BY ElementFacts
<1>2. \A s \in Sessions : \A i \in 1 .. Len(session'[s].waiting) :
          request'[session'[s].waiting[i]].at = "waiting" /\ request'[session'[s].waiting[i]].session = s
  BY <1>1 DEF WaitingOnce
<1>3. \A s \in Sessions : \A i, k \in 1 .. Len(session'[s].waiting) :
          session'[s].waiting[i] = session'[s].waiting[k] => i = k
  BY DEF WaitingOnce
<1>4. \A r \in Requests : request'[r].at = "waiting" =>
          \E i \in 1 .. Len(session'[request'[r].session].waiting) :
              session'[request'[r].session].waiting[i] = r
  <2>. SUFFICES ASSUME NEW r \in Requests, request'[r].at = "waiting"
                PROVE  \E i \in 1 .. Len(session'[request'[r].session].waiting) :
                           session'[request'[r].session].waiting[i] = r
    OBVIOUS
  <2>1. request[r].session \in Sessions /\ request'[r].session = request[r].session
    BY DEF Placing
  <2>. QED
    BY <2>1 DEF WaitingOnce
<1>. QED
  BY <1>2, <1>3, <1>4 DEF WaitingOnce

LEMMA WaitingMore ==
    ASSUME WaitingOnce, Placing, NEW s \in Sessions, NEW r \in Requests,
           \A x \in Sessions : session[x].waiting \in Seq(Requests),
           session'[s].waiting = Append(session[s].waiting, r),
           \A x \in Sessions : x # s => session'[x].waiting = session[x].waiting,
           request[r].at # "waiting", request'[r].at = "waiting", request'[r].session = s,
           \A q \in Requests : q # r => /\ request'[q].at = "waiting" <=> request[q].at = "waiting"
                                        /\ request[q].at = "waiting" => request'[q].session = request[q].session
    PROVE  WaitingOnce'
<1>1. \A x \in Sessions : Len(session[x].waiting) \in Nat
                          /\ \A i \in 1 .. Len(session[x].waiting) : session[x].waiting[i] \in Requests
  BY ElementFacts
<1>2. /\ Len(session'[s].waiting) = Len(session[s].waiting) + 1
      /\ \A i \in 1 .. Len(session[s].waiting) : session'[s].waiting[i] = session[s].waiting[i]
      /\ session'[s].waiting[Len(session[s].waiting) + 1] = r
  BY AppendFacts
<1>3. \A x \in Sessions : \A i \in 1 .. Len(session[x].waiting) :
          /\ request[session[x].waiting[i]].at = "waiting" /\ request[session[x].waiting[i]].session = x
          /\ session[x].waiting[i] # r
  BY DEF WaitingOnce
<1>4. \A i \in 1 .. Len(session'[s].waiting) :
          i \in 1 .. Len(session[s].waiting) \/ i = Len(session[s].waiting) + 1
  BY <1>1, <1>2
<1>5. \A x \in Sessions : \A i \in 1 .. Len(session'[x].waiting) :
          request'[session'[x].waiting[i]].at = "waiting" /\ request'[session'[x].waiting[i]].session = x
  <2>1. \A x \in Sessions : x # s => \A i \in 1 .. Len(session'[x].waiting) :
            request'[session'[x].waiting[i]].at = "waiting" /\ request'[session'[x].waiting[i]].session = x
    BY <1>1, <1>3
  <2>2. \A i \in 1 .. Len(session'[s].waiting) :
            request'[session'[s].waiting[i]].at = "waiting" /\ request'[session'[s].waiting[i]].session = s
    <3>. TAKE i \in 1 .. Len(session'[s].waiting)
    <3>1. CASE i \in 1 .. Len(session[s].waiting)
      <4>1. session[s].waiting[i] \in Requests /\ session[s].waiting[i] # r
            /\ request[session[s].waiting[i]].at = "waiting" /\ request[session[s].waiting[i]].session = s
        BY <1>1, <1>3, <3>1
      <4>. QED
        BY <1>2, <3>1, <4>1
    <3>2. CASE i = Len(session[s].waiting) + 1
      BY <1>2, <3>2
    <3>. QED
      BY <1>4, <3>1, <3>2
  <2>. QED
    BY <2>1, <2>2
<1>6. \A x \in Sessions : \A i, k \in 1 .. Len(session'[x].waiting) :
          session'[x].waiting[i] = session'[x].waiting[k] => i = k
  <2>1. ASSUME NEW x \in Sessions, x # s
        PROVE  \A i, k \in 1 .. Len(session'[x].waiting) : session'[x].waiting[i] = session'[x].waiting[k] => i = k
    BY <2>1 DEF WaitingOnce
  <2>2. \A i, k \in 1 .. Len(session'[s].waiting) : session'[s].waiting[i] = session'[s].waiting[k] => i = k
    <3>1. \A i, k \in 1 .. Len(session[s].waiting) : session[s].waiting[i] = session[s].waiting[k] => i = k
      BY DEF WaitingOnce
    <3>. QED
      BY <1>1, <1>2, <1>3, <1>4, <3>1
  <2>. QED
    BY <2>1, <2>2
<1>7. \A q \in Requests : request'[q].at = "waiting" =>
          \E i \in 1 .. Len(session'[request'[q].session].waiting) :
              session'[request'[q].session].waiting[i] = q
  <2>. SUFFICES ASSUME NEW q \in Requests, request'[q].at = "waiting"
                PROVE  \E i \in 1 .. Len(session'[request'[q].session].waiting) :
                           session'[request'[q].session].waiting[i] = q
    OBVIOUS
  <2>1. CASE q = r
    <3>1. Len(session[s].waiting) + 1 \in 1 .. Len(session'[s].waiting)
      BY <1>1, <1>2
    <3>. QED
      BY <2>1, <3>1, <1>2
  <2>2. CASE q # r
    <3>. DEFINE x == request[q].session
    <3>1. x \in Sessions /\ request'[q].session = x
      BY <2>2 DEF Placing
    <3>2. PICK i \in 1 .. Len(session[x].waiting) : session[x].waiting[i] = q
      BY <2>2 DEF WaitingOnce
    <3>3. i \in 1 .. Len(session'[x].waiting) /\ session'[x].waiting[i] = q
      <4>1. CASE x = s
        BY <1>1, <1>2, <3>2, <4>1, SMTT(40)
      <4>2. CASE x # s
        BY <3>1, <3>2, <4>2
      <4>. QED
        BY <4>1, <4>2
    <3>. QED
      BY <3>1, <3>3
  <2>. QED
    BY <2>1, <2>2
<1>. QED
  BY <1>5, <1>6, <1>7 DEF WaitingOnce

LEMMA WaitingLess ==
    ASSUME WaitingOnce, Placing, NEW s \in Sessions,
           \A x \in Sessions : session[x].waiting \in Seq(Requests),
           session[s].waiting # <<>>, session'[s].waiting = Tail(session[s].waiting),
           \A x \in Sessions : x # s => session'[x].waiting = session[x].waiting,
           request'[Head(session[s].waiting)].at # "waiting",
           \A q \in Requests : q # Head(session[s].waiting) =>
               /\ request'[q].at = "waiting" <=> request[q].at = "waiting"
               /\ request[q].at = "waiting" => request'[q].session = request[q].session
    PROVE  WaitingOnce'
<1>. DEFINE r == Head(session[s].waiting)
<1>1. \A x \in Sessions : Len(session[x].waiting) \in Nat
                          /\ \A i \in 1 .. Len(session[x].waiting) : session[x].waiting[i] \in Requests
  BY ElementFacts
<1>2. /\ Len(session[s].waiting) \in Nat \ {0}
      /\ Len(session'[s].waiting) = Len(session[s].waiting) - 1
      /\ \A i \in 1 .. Len(session[s].waiting) - 1 : session'[s].waiting[i] = session[s].waiting[i + 1]
      /\ r = session[s].waiting[1] /\ r \in Requests
  BY TailFacts
<1>. HIDE DEF r
<1>3. \A x \in Sessions : \A i \in 1 .. Len(session[x].waiting) :
          /\ request[session[x].waiting[i]].at = "waiting" /\ request[session[x].waiting[i]].session = x
  BY DEF WaitingOnce
<1>4. 1 \in 1 .. Len(session[s].waiting) /\ request[r].session = s
  BY <1>2, <1>3
<1>5. \A i \in 1 .. Len(session'[s].waiting) :
          i + 1 \in 1 .. Len(session[s].waiting) /\ session'[s].waiting[i] = session[s].waiting[i + 1] /\ i + 1 # 1
  BY <1>2
<1>6. \A i \in 1 .. Len(session'[s].waiting) : session'[s].waiting[i] # r
  BY <1>2, <1>4, <1>5 DEF WaitingOnce
<1>7. \A x \in Sessions : x # s => \A i \in 1 .. Len(session[x].waiting) : session[x].waiting[i] # r
  BY <1>3, <1>4
<1>8. \A x \in Sessions : \A i \in 1 .. Len(session'[x].waiting) :
          request'[session'[x].waiting[i]].at = "waiting" /\ request'[session'[x].waiting[i]].session = x
  <2>1. \A i \in 1 .. Len(session'[s].waiting) :
            request'[session'[s].waiting[i]].at = "waiting" /\ request'[session'[s].waiting[i]].session = s
    BY <1>1, <1>3, <1>5, <1>6 DEF r
  <2>2. \A x \in Sessions : x # s => \A i \in 1 .. Len(session'[x].waiting) :
            request'[session'[x].waiting[i]].at = "waiting" /\ request'[session'[x].waiting[i]].session = x
    BY <1>1, <1>3, <1>7 DEF r
  <2>. QED
    BY <2>1, <2>2
<1>9. \A x \in Sessions : \A i, k \in 1 .. Len(session'[x].waiting) :
          session'[x].waiting[i] = session'[x].waiting[k] => i = k
  <2>1. \A i, k \in 1 .. Len(session'[s].waiting) : session'[s].waiting[i] = session'[s].waiting[k] => i = k
    <3>1. \A i, k \in 1 .. Len(session'[s].waiting) : session'[s].waiting[i] = session'[s].waiting[k] => i + 1 = k + 1
      BY <1>5 DEF WaitingOnce
    <3>. QED
      BY <1>2, <3>1
  <2>2. ASSUME NEW x \in Sessions, x # s
        PROVE  \A i, k \in 1 .. Len(session'[x].waiting) : session'[x].waiting[i] = session'[x].waiting[k] => i = k
    BY <2>2 DEF WaitingOnce
  <2>. QED
    BY <2>1, <2>2
<1>10. \A q \in Requests : request'[q].at = "waiting" =>
          \E i \in 1 .. Len(session'[request'[q].session].waiting) :
              session'[request'[q].session].waiting[i] = q
  <2>. SUFFICES ASSUME NEW q \in Requests, request'[q].at = "waiting"
                PROVE  \E i \in 1 .. Len(session'[request'[q].session].waiting) :
                           session'[request'[q].session].waiting[i] = q
    OBVIOUS
  <2>. DEFINE x == request[q].session
  <2>1. q # r /\ x \in Sessions /\ request'[q].session = x /\ request[q].at = "waiting"
    BY DEF Placing, r
  <2>2. PICK i \in 1 .. Len(session[x].waiting) : session[x].waiting[i] = q
    BY <2>1 DEF WaitingOnce
  <2>3. CASE x # s
    <3>1. i \in 1 .. Len(session'[x].waiting) /\ session'[x].waiting[i] = q
      BY <2>1, <2>2, <2>3
    <3>. QED
      BY <2>1, <3>1
  <2>4. CASE x = s
    <3>1. i # 1
      BY <1>2, <2>1, <2>2, <2>4
    <3>2. i - 1 \in 1 .. Len(session'[s].waiting) /\ session'[s].waiting[i - 1] = q
      <4>1. i \in Nat /\ i - 1 \in 1 .. Len(session[s].waiting) - 1 /\ (i - 1) + 1 = i
        BY <1>2, <2>2, <2>4, <3>1
      <4>. QED
        BY <1>2, <2>2, <2>4, <4>1
    <3>. QED
      BY <2>1, <2>4, <3>2
  <2>. QED
    BY <2>3, <2>4
<1>. QED
  BY <1>8, <1>9, <1>10 DEF WaitingOnce

LEMMA WaitingNone ==
    ASSUME WaitingOnce, Placing, NEW s \in Sessions,
           \A x \in Sessions : session[x].waiting \in Seq(Requests),
           session'[s].waiting = <<>>,
           \A x \in Sessions : x # s => session'[x].waiting = session[x].waiting,
           \A i \in 1 .. Len(session[s].waiting) : request'[session[s].waiting[i]].at # "waiting",
           \A q \in Requests : (\A i \in 1 .. Len(session[s].waiting) : session[s].waiting[i] # q) =>
               /\ request'[q].at = "waiting" <=> request[q].at = "waiting"
               /\ request[q].at = "waiting" => request'[q].session = request[q].session
    PROVE  WaitingOnce'
<1>1. \A x \in Sessions : \A i \in 1 .. Len(session[x].waiting) : session[x].waiting[i] \in Requests
  BY ElementFacts
<1>2. Len(session'[s].waiting) = 0 /\ 1 .. 0 = {}
  OBVIOUS
<1>3. \A x \in Sessions : \A i \in 1 .. Len(session[x].waiting) :
          /\ request[session[x].waiting[i]].at = "waiting" /\ request[session[x].waiting[i]].session = x
  BY DEF WaitingOnce
<1>4. \A x \in Sessions : x # s => \A i \in 1 .. Len(session[x].waiting) :
          request'[session[x].waiting[i]].at = "waiting" /\ request'[session[x].waiting[i]].session = x
  BY <1>1, <1>3, SMTT(40)
<1>5. \A q \in Requests : request'[q].at = "waiting" =>
          \E i \in 1 .. Len(session'[request'[q].session].waiting) :
              session'[request'[q].session].waiting[i] = q
  <2>. SUFFICES ASSUME NEW q \in Requests, request'[q].at = "waiting"
                PROVE  \E i \in 1 .. Len(session'[request'[q].session].waiting) :
                           session'[request'[q].session].waiting[i] = q
    OBVIOUS
  <2>1. \A i \in 1 .. Len(session[s].waiting) : session[s].waiting[i] # q
    OBVIOUS
  <2>2. request[q].at = "waiting" /\ request'[q].session = request[q].session /\ request[q].session \in Sessions
    BY <2>1 DEF Placing
  <2>3. PICK i \in 1 .. Len(session[request[q].session].waiting) : session[request[q].session].waiting[i] = q
    BY <2>2 DEF WaitingOnce
  <2>4. request[q].session # s
    BY <2>1, <2>3
  <2>. QED
    BY <2>2, <2>3, <2>4
<1>6. \A x \in Sessions : \A i \in 1 .. Len(session'[x].waiting) :
          request'[session'[x].waiting[i]].at = "waiting" /\ request'[session'[x].waiting[i]].session = x
  BY <1>2, <1>4, SMTT(40)
<1>7. \A x \in Sessions : \A i, k \in 1 .. Len(session'[x].waiting) :
          session'[x].waiting[i] = session'[x].waiting[k] => i = k
  BY <1>2 DEF WaitingOnce
<1>. QED
  BY <1>5, <1>6, <1>7 DEF WaitingOnce

\* Reports in the queue of the client.
LEMMA ReportFacts ==
    ASSUME reports \in Seq(Report1)
    PROVE  /\ Len(reports) \in Nat
           /\ \A i \in 1 .. Len(reports) : reports[i].r \in Requests /\ reports[i].how \in Outcomes
<1>1. Len(reports) \in Nat /\ \A i \in 1 .. Len(reports) : reports[i] \in Report1
  BY ElementFacts
<1>. QED
  BY <1>1 DEF Report1

LEMMA ToldSame ==
    ASSUME ToldOnce, reports \in Seq(Report1), reports' = reports,
           \A r \in Requests : request'[r].at = "told" <=> request[r].at = "told"
    PROVE  ToldOnce'
<1>1. \A i \in 1 .. Len(reports) : reports[i].r \in Requests
  BY ReportFacts
<1>. QED
  BY <1>1 DEF ToldOnce

LEMMA ToldLess ==
    ASSUME ToldOnce, reports \in Seq(Report1), reports # <<>>, reports' = Tail(reports),
           request'[Head(reports).r].at # "told",
           \A r \in Requests : r # Head(reports).r => (request'[r].at = "told" <=> request[r].at = "told")
    PROVE  ToldOnce'
<1>. DEFINE h == Head(reports).r
<1>1. \A i \in 1 .. Len(reports) : reports[i].r \in Requests
  BY ReportFacts
<1>2. /\ Len(reports) \in Nat \ {0} /\ Len(reports') = Len(reports) - 1
      /\ \A i \in 1 .. Len(reports) - 1 : reports'[i] = reports[i + 1]
      /\ h = reports[1].r
  BY TailFacts
<1>. HIDE DEF h
<1>3. \A i \in 1 .. Len(reports') :
          i + 1 \in 1 .. Len(reports) /\ reports'[i] = reports[i + 1] /\ i + 1 # 1
  BY <1>2
<1>4. 1 \in 1 .. Len(reports)
  BY <1>2
<1>5. \A i \in 1 .. Len(reports') : reports'[i].r # h /\ reports'[i].r \in Requests
  BY <1>1, <1>2, <1>3, <1>4 DEF ToldOnce
<1>6. \A i \in 1 .. Len(reports') : request'[reports'[i].r].at = "told"
  BY <1>3, <1>5 DEF ToldOnce, h
<1>7. \A i, k \in 1 .. Len(reports') : reports'[i].r = reports'[k].r => i = k
  <2>1. \A i, k \in 1 .. Len(reports') : reports'[i].r = reports'[k].r => i + 1 = k + 1
    BY <1>3 DEF ToldOnce
  <2>. QED
    BY <1>2, <2>1
<1>8. \A r \in Requests : request'[r].at = "told" => \E i \in 1 .. Len(reports') : reports'[i].r = r
  <2>. SUFFICES ASSUME NEW r \in Requests, request'[r].at = "told"
                PROVE  \E i \in 1 .. Len(reports') : reports'[i].r = r
    OBVIOUS
  <2>1. r # h /\ request[r].at = "told"
    BY DEF h
  <2>2. PICK i \in 1 .. Len(reports) : reports[i].r = r
    BY <2>1 DEF ToldOnce
  <2>3. i # 1
    BY <1>2, <2>1, <2>2
  <2>4. i - 1 \in 1 .. Len(reports') /\ i - 1 \in 1 .. Len(reports) - 1 /\ (i - 1) + 1 = i
    BY <1>2, <2>2, <2>3
  <2>5. reports'[i - 1].r = r
    BY <1>2, <2>2, <2>4
  <2>. QED
    BY <2>4, <2>5
<1>. QED
  BY <1>6, <1>7, <1>8 DEF ToldOnce

\* A session tells what became of the requests rs; rq is the table of
\* requests as the handler left it.
Distinctly(rs) == \A i, k \in 1 .. Len(rs) : rs[i] = rs[k] => i = k

LEMMA Tells ==
    ASSUME ToldOnce, reports \in Seq(Report1), NEW s \in Sessions, NEW rs \in Seq(Requests),
           NEW how \in Outcomes, NEW rq \in [Requests -> Request],
           \A r \in Requests : rq[r].at = "told" <=> request[r].at = "told",
           Distinctly(rs), \A i \in 1 .. Len(rs) : request[rs[i]].at # "told",
           reports' = Told(s, rs, how), request' = Placed(rq, s, rs)
    PROVE  ToldOnce'
<1>0. Len(rs) \in Nat /\ Len(reports) \in Nat /\ (\A i \in 1 .. Len(rs) : rs[i] \in Requests)
      /\ \A i \in 1 .. Len(reports) : reports[i].r \in Requests
  BY ElementFacts, ReportFacts
<1>1. /\ \A i \in 1 .. Len(rs) : request'[rs[i]].at = IF session[s].queue THEN "told" ELSE "lost"
      /\ \A q \in Requests : (\A i \in 1 .. Len(rs) : rs[i] # q) => request'[q] = rq[q]
  BY PlacedFacts
<1>2. /\ ~session[s].queue => reports' = reports
      /\ session[s].queue =>
           /\ Len(reports') = Len(reports) + Len(rs)
           /\ \A i \in 1 .. Len(reports) : reports'[i] = reports[i]
           /\ \A i \in 1 .. Len(rs) : reports'[Len(reports) + i] = [r |-> rs[i], how |-> how]
  BY ToldFacts
<1>3. CASE ~session[s].queue
  <2>1. \A q \in Requests : request'[q].at = "told" <=> request[q].at = "told"
    BY <1>0, <1>1, <1>3, SMTT(40)
  <2>. QED
    BY <1>2, <1>3, <2>1, ToldSame
<1>4. CASE session[s].queue
  <2>1. /\ Len(reports') = Len(reports) + Len(rs)
        /\ \A i \in 1 .. Len(reports) : reports'[i] = reports[i]
        /\ \A i \in 1 .. Len(rs) : reports'[Len(reports) + i].r = rs[i]
    <3>1. \A i \in 1 .. Len(rs) : reports'[Len(reports) + i] = [r |-> rs[i], how |-> how]
      BY <1>2, <1>4
    <3>2. \A i \in 1 .. Len(rs) : reports'[Len(reports) + i].r = rs[i]
      <4>. TAKE i \in 1 .. Len(rs)
      <4>1. [r |-> rs[i], how |-> how].r = rs[i]
        OBVIOUS
      <4>. QED
        BY <3>1, <4>1
    <3>. QED
      BY <1>2, <1>4, <3>2
  <2>2. \A i \in 1 .. Len(reports') :
            i \in 1 .. Len(reports) \/ \E k \in 1 .. Len(rs) : i = Len(reports) + k
    <3>. TAKE i \in 1 .. Len(reports')
    <3>1. ~(i \in 1 .. Len(reports)) => i - Len(reports) \in 1 .. Len(rs) /\ i = Len(reports) + (i - Len(reports))
      BY <1>0, <2>1
    <3>. QED
      BY <3>1
  <2>3. \A i \in 1 .. Len(reports) : \A k \in 1 .. Len(rs) : reports[i].r # rs[k]
    BY <1>0 DEF ToldOnce
  <2>4. \A i \in 1 .. Len(reports) : request'[reports[i].r].at = "told"
    BY <1>0, <1>1, <2>3 DEF ToldOnce
  <2>5. \A i \in 1 .. Len(rs) : request'[rs[i]].at = "told"
    BY <1>1, <1>4
  <2>6. \A i \in 1 .. Len(reports') : request'[reports'[i].r].at = "told"
    <3>. TAKE i \in 1 .. Len(reports')
    <3>1. CASE i \in 1 .. Len(reports)
      BY <2>1, <2>4, <3>1
    <3>2. CASE i \notin 1 .. Len(reports)
      <4>1. PICK k \in 1 .. Len(rs) : i = Len(reports) + k
        BY <2>2, <3>2
      <4>. QED
        BY <2>1, <2>5, <4>1
    <3>. QED
      BY <3>1, <3>2
  <2>7. \A i, k \in 1 .. Len(reports') : reports'[i].r = reports'[k].r => i = k
    <3>1. \A i, k \in 1 .. Len(reports) : reports[i].r = reports[k].r => i = k
      BY DEF ToldOnce
    <3>2. \A i, k \in 1 .. Len(rs) : rs[i] = rs[k] => i = k
      BY DEF Distinctly
    <3>. TAKE i, k \in 1 .. Len(reports')
    <3>3. CASE i \in 1 .. Len(reports) /\ k \in 1 .. Len(reports)
      BY <2>1, <3>1, <3>3
    <3>4. CASE i \in 1 .. Len(reports) /\ k \notin 1 .. Len(reports)
      <4>1. PICK l \in 1 .. Len(rs) : k = Len(reports) + l
        BY <2>2, <3>4
      <4>. QED
        BY <2>1, <2>3, <3>4, <4>1
    <3>5. CASE i \notin 1 .. Len(reports) /\ k \in 1 .. Len(reports)
      <4>1. PICK j \in 1 .. Len(rs) : i = Len(reports) + j
        BY <2>2, <3>5
      <4>. QED
        BY <2>1, <2>3, <3>5, <4>1
    <3>6. CASE i \notin 1 .. Len(reports) /\ k \notin 1 .. Len(reports)
      <4>1. PICK j \in 1 .. Len(rs) : i = Len(reports) + j
        BY <2>2, <3>6
      <4>2. PICK l \in 1 .. Len(rs) : k = Len(reports) + l
        BY <2>2, <3>6
      <4>3. reports'[i].r = rs[j] /\ reports'[k].r = rs[l]
        BY <2>1, <4>1, <4>2
      <4>. QED
        BY <3>2, <4>1, <4>2, <4>3
    <3>. QED
      BY <3>3, <3>4, <3>5, <3>6
  <2>8. \A q \in Requests : request'[q].at = "told" => \E i \in 1 .. Len(reports') : reports'[i].r = q
    <3>. SUFFICES ASSUME NEW q \in Requests, request'[q].at = "told"
                  PROVE  \E i \in 1 .. Len(reports') : reports'[i].r = q
      OBVIOUS
    <3>1. CASE \E k \in 1 .. Len(rs) : rs[k] = q
      <4>1. PICK k \in 1 .. Len(rs) : rs[k] = q
        BY <3>1
      <4>2. Len(reports) + k \in 1 .. Len(reports')
        BY <1>0, <2>1
      <4>. QED
        BY <2>1, <4>1, <4>2
    <3>2. CASE \A k \in 1 .. Len(rs) : rs[k] # q
      <4>1. request[q].at = "told"
        BY <1>1, <3>2
      <4>2. PICK i \in 1 .. Len(reports) : reports[i].r = q
        BY <4>1 DEF ToldOnce
      <4>3. i \in 1 .. Len(reports') /\ reports'[i].r = q
        BY <1>0, <2>1, <4>2
      <4>. QED
        BY <4>3
    <3>. QED
      BY <3>1, <3>2
  <2>. QED
    BY <2>6, <2>7, <2>8 DEF ToldOnce
<1>. QED
  BY <1>3, <1>4

----------------------------------------------------------------------------
(* A session and whoever is at work in it, request by request and caller   *)
(* by caller.                                                              *)
Res(b, s) == call[b].at = "resume" /\ call[b].s = s
Stp(b, s) == call[b].at = "siste" /\ call[b].s = s
Fly(r, s) == request[r].session = s /\ request[r].at \in {"head", "proceeding", "content"}

SomeRes(s) == \E b \in Actors : Res(b, s)
SomeStp(s) == \E b \in Actors : Stp(b, s)
SomeFly(s) == \E r \in Requests : Fly(r, s)

Awaited(s) == Living(s) /\ session[s].waiting # <<>> => session[s].busy \/ SomeRes(s) \/ SomeStp(s)
Worked(s) == Living(s) /\ session[s].busy => Connecting(s) \/ SomeFly(s) \/ SomeRes(s) \/ SomeStp(s)
Emptied(s) == ~Living(s) => session[s].waiting = <<>>
OneFly(s) == s \notin raced => \A q, r \in Requests : Fly(q, s) /\ Fly(r, s) => q = r
OneRes(s) == s \notin raced /\ Living(s) => \A a, b \in Actors : Res(a, s) /\ Res(b, s) => a = b
FlyAlone(s) == s \notin raced /\ Living(s) /\ SomeFly(s) => session[s].busy /\ ~SomeRes(s)
LinkAlone(s) == s \notin raced /\ Living(s) /\ Connecting(s) => session[s].busy /\ ~SomeRes(s) /\ ~SomeFly(s)
Serving(s) == /\ Awaited(s) /\ Worked(s) /\ Emptied(s)
              /\ OneFly(s) /\ OneRes(s) /\ FlyAlone(s) /\ LinkAlone(s)

LEMMA ServingAll ==
    ASSUME NobodyForgotten, OneThing, OneAtATime
    PROVE  \A s \in Sessions : Serving(s)
<1>. TAKE s \in Sessions
<1>1. /\ Resuming(s) = {b \in Actors : Res(b, s)} /\ InFlight(s) = {r \in Requests : Fly(r, s)}
      /\ Stopping(s) <=> SomeStp(s)
  BY DEF Resuming, Res, InFlight, Fly, Stopping, SomeStp, Stp, At
<1>2. /\ Resuming(s) # {} <=> SomeRes(s)
      /\ InFlight(s) # {} <=> SomeFly(s)
      /\ \A b \in Actors : b \in Resuming(s) <=> Res(b, s)
      /\ \A r \in Requests : r \in InFlight(s) <=> Fly(r, s)
  BY <1>1 DEF SomeRes, SomeFly
<1>3. Awaited(s) /\ Worked(s) /\ Emptied(s)
  BY <1>1, <1>2 DEF NobodyForgotten, Awaited, Worked, Emptied, Connecting
<1>4. OneFly(s)
  BY <1>2 DEF OneAtATime, OneFly
<1>5. OneRes(s) /\ FlyAlone(s) /\ LinkAlone(s)
  BY <1>2 DEF OneThing, Alone, OneRes, FlyAlone, LinkAlone
<1>. QED
  BY <1>3, <1>4, <1>5 DEF Serving

LEMMA ServingBack ==
    ASSUME \A s \in Sessions : Serving(s)'
    PROVE  NobodyForgotten' /\ OneThing' /\ OneAtATime'
<1>1. ASSUME NEW s \in Sessions
      PROVE  /\ Resuming(s)' = {b \in Actors : Res(b, s)'} /\ InFlight(s)' = {r \in Requests : Fly(r, s)'}
             /\ Stopping(s)' <=> SomeStp(s)'
  BY DEF Resuming, Res, InFlight, Fly, Stopping, SomeStp, Stp, At
<1>2. ASSUME NEW s \in Sessions
      PROVE  /\ Resuming(s)' # {} <=> SomeRes(s)'
             /\ InFlight(s)' # {} <=> SomeFly(s)'
             /\ \A b : b \in Resuming(s)' <=> b \in Actors /\ Res(b, s)'
             /\ \A r : r \in InFlight(s)' <=> r \in Requests /\ Fly(r, s)'
  BY <1>1 DEF SomeRes, SomeFly
<1>3. ASSUME NEW s \in Sessions
      PROVE  /\ Living(s)' /\ (session[s].waiting # <<>>)' =>
                   (session[s].busy)' \/ Resuming(s)' # {} \/ Stopping(s)'
             /\ Living(s)' /\ (session[s].busy)' =>
                   (session[s].channel = "connecting")' \/ InFlight(s)' # {} \/ Resuming(s)' # {} \/ Stopping(s)'
             /\ ~Living(s)' => (session[s].waiting = <<>>)'
  BY <1>1, <1>2 DEF Serving, Awaited, Worked, Emptied, Connecting
<1>4. ASSUME NEW s \in Sessions, s \notin raced'
      PROVE  \A q, r \in InFlight(s)' : q = r
  BY <1>2, <1>4 DEF Serving, OneFly
<1>5. ASSUME NEW s \in Sessions, s \notin raced', Living(s)'
      PROVE  /\ \A a, b \in Resuming(s)' : a = b
             /\ InFlight(s)' # {} => (session[s].busy)' /\ Resuming(s)' = {}
             /\ Connecting(s)' => (session[s].busy)' /\ Resuming(s)' = {} /\ InFlight(s)' = {}
  <2>1. OneRes(s)' /\ FlyAlone(s)' /\ LinkAlone(s)'
    BY DEF Serving
  <2>2. \A a, b \in Resuming(s)' : a = b
    BY <1>2, <1>5, <2>1 DEF OneRes
  <2>3. InFlight(s)' # {} => (session[s].busy)' /\ Resuming(s)' = {}
    BY <1>2, <1>5, <2>1 DEF FlyAlone
  <2>4. Connecting(s)' => (session[s].busy)' /\ Resuming(s)' = {} /\ InFlight(s)' = {}
    BY <1>2, <1>5, <2>1 DEF LinkAlone
  <2>. QED
    BY <2>2, <2>3, <2>4
<1>6. NobodyForgotten'
  BY <1>3 DEF NobodyForgotten
<1>7. OneAtATime'
  BY <1>4 DEF OneAtATime
<1>8. OneThing'
  BY <1>5 DEF OneThing, Alone
<1>. QED
  BY <1>6, <1>7, <1>8

\* Nobody did anything in this session.
Quiet(s) == /\ \A b \in Actors : (Res(b, s)' <=> Res(b, s)) /\ (Stp(b, s)' <=> Stp(b, s))
            /\ \A r \in Requests : Fly(r, s)' <=> Fly(r, s)
            /\ s \in raced' <=> s \in raced
Untouched(s) == session'[s] = session[s] /\ Quiet(s)

LEMMA ServingSame ==
    ASSUME NEW s \in Sessions, Serving(s), Untouched(s)
    PROVE  Serving(s)'
<1>1. /\ SomeRes(s)' <=> SomeRes(s)
      /\ SomeStp(s)' <=> SomeStp(s)
      /\ SomeFly(s)' <=> SomeFly(s)
      /\ session'[s] = session[s] /\ (s \in raced' <=> s \in raced)
  BY DEF Untouched, Quiet, SomeRes, SomeStp, SomeFly
<1>2. /\ Living(s)' <=> Living(s)
      /\ Connecting(s)' <=> Connecting(s)
  BY <1>1 DEF Living, Connecting
<1>3. OneFly(s)' /\ OneRes(s)'
  BY <1>1, <1>2 DEF Serving, OneFly, OneRes, Untouched, Quiet
<1>. QED
  BY <1>1, <1>2, <1>3 DEF Serving, Awaited, Worked, Emptied, FlyAlone, LinkAlone

----------------------------------------------------------------------------
(* A download that a step does not concern.                                *)
SameLoad(d) == /\ load'[d].state = load[d].state /\ load'[d].content = load[d].content
               /\ load'[d].redirected = load[d].redirected /\ load'[d].final = load[d].final
               /\ load'[d].moved = load[d].moved
SameRequests(d) == \A r \in Requests :
    /\ request'[r].load = d <=> request[r].load = d
    /\ request[r].load = d =>
         /\ request'[r].code = request[r].code
         /\ request'[r].at \in Live => request[r].at \in Live
         /\ request'[r].at \in {"proceeding", "content"} => request'[r].at = request[r].at
SameReports(d) == \A i \in 1 .. Len(reports') :
    request'[reports'[i].r].load = d /\ reports'[i].how = "done" =>
        \E k \in 1 .. Len(reports) : reports[k] = reports'[i]
Steady(d) == SameLoad(d) /\ SameRequests(d) /\ SameReports(d)

LEMMA StraightSame ==
    ASSUME NEW d \in Downloads, Straight(d), Steady(d), reports \in Seq(Report1), request \in [Requests -> Request]
    PROVE  Straight(d)'
<1>1. \A r \in Requests : Ours(d, r)' => Ours(d, r)
  BY DEF Ours, Steady, SameRequests
<1>2. OneTry(d)'
  BY <1>1 DEF Straight, OneTry
<1>3. TryRuns(d)'
  BY <1>1 DEF Straight, TryRuns, Steady, SameLoad
<1>4. Well(d)'
  <2>1. \A r \in Requests : Ours(d, r)' => request'[r].at # "proceeding"
                                           /\ (request'[r].at = "content" => request'[r].code = "ok")
    BY <1>1 DEF Straight, Well, Ours, Steady, SameRequests
  <2>2. \A i \in 1 .. Len(reports') : request'[reports'[i].r].load = d /\ reports'[i].how = "done" =>
                                          request'[reports'[i].r].code = "ok"
    <3>. SUFFICES ASSUME NEW i \in 1 .. Len(reports'),
                         request'[reports'[i].r].load = d /\ reports'[i].how = "done"
                  PROVE  request'[reports'[i].r].code = "ok"
      OBVIOUS
    <3>1. PICK k \in 1 .. Len(reports) : reports[k] = reports'[i]
      BY DEF Steady, SameReports
    <3>2. reports[k].r \in Requests
      BY ReportFacts
    <3>. QED
      BY <3>1, <3>2 DEF Straight, Well, Steady, SameRequests
  <2>. QED
    BY <2>1, <2>2 DEF Well
<1>5. Ended(d)'
  BY DEF Straight, Ended, Sound, Over, Steady, SameLoad, SameRequests
<1>. QED
  BY <1>2, <1>3, <1>4, <1>5 DEF Straight

LEMMA DownloadingBut ==
    ASSUME TypeOK, Downloading, NEW d \in Downloads,
           \A x \in Downloads : x # d => Steady(x), ~load'[d].moved => Straight(d)'
    PROVE  Downloading'
<1>. SUFFICES ASSUME NEW x \in Downloads, ~load'[x].moved
              PROVE  Straight(x)'
  BY DEF Downloading
<1>1. CASE x = d
  BY <1>1
<1>2. CASE x # d
  <2>1. Straight(x)
    BY <1>2 DEF Downloading, Steady, SameLoad
  <2>. QED
    BY <1>2, <2>1, StraightSame DEF TypeOK, Report1
<1>. QED
  BY <1>1, <1>2

LEMMA DownloadingSame ==
    ASSUME TypeOK, Downloading, \A x \in Downloads : Steady(x)
    PROVE  Downloading'
<1>. SUFFICES ASSUME NEW x \in Downloads, ~load'[x].moved
              PROVE  Straight(x)'
  BY DEF Downloading
<1>1. Straight(x)
  BY DEF Downloading, Steady, SameLoad
<1>. QED
  BY <1>1, StraightSame DEF TypeOK, Report1

LEMMA LoadPut ==
    ASSUME TypeOK, NEW d \in Downloads, NEW x \in Load, load' = [load EXCEPT ![d] = x]
    PROVE  /\ load' \in [Downloads -> Load] /\ load'[d] = x
           /\ \A y \in Downloads : y # d => load'[y] = load[y]
  BY DEF TypeOK

LEMMA SessionPut ==
    ASSUME TypeOK, NEW s \in Sessions, NEW x \in Session, session' = [session EXCEPT ![s] = x]
    PROVE  /\ session' \in [Sessions -> Session] /\ session'[s] = x
           /\ \A y \in Sessions : y # s => session'[y] = session[y]
  BY DEF TypeOK

PutSession(s, x) == [session EXCEPT ![s] = x]
LEMMA PutSessionFacts ==
    ASSUME TypeOK, NEW s \in Sessions, NEW x \in Session
    PROVE  /\ PutSession(s, x) \in [Sessions -> Session] /\ PutSession(s, x)[s] = x
           /\ \A y \in Sessions : y # s => PutSession(s, x)[y] = session[y]
  BY DEF TypeOK, PutSession

LEMMA TriedFacts ==
    ASSUME NEW y \in Load
    PROVE  /\ Tried(y) \in Load /\ Tried(y).state = y.state /\ Tried(y).redirected = y.redirected
           /\ Tried(y).final = y.final /\ Tried(y).content = y.content /\ Tried(y).moved = y.moved
  BY DEF Tried, Load

\* The parts of the invariant put together.
LEMMA Whole ==
    ASSUME TypeOK', Blank', Inside', CarriedOnce', WaitingOnce', ToldOnce',
           \A s \in Sessions : Serving(s)', Unanswered', AnswersOwn', Downloading'
    PROVE  Base'
<1>1. NobodyForgotten' /\ OneThing' /\ OneAtATime'
  BY ServingBack
<1>. QED
  BY <1>1 DEF Base, InPlace

LEMMA Parts ==
    ASSUME Base
    PROVE  /\ TypeOK /\ Blank /\ Inside /\ CarriedOnce /\ WaitingOnce /\ ToldOnce
           /\ (\A s \in Sessions : Serving(s)) /\ Unanswered /\ AnswersOwn /\ Downloading
  BY ServingAll DEF Base, InPlace

LEMMA Types ==
    ASSUME TypeOK
    PROVE  /\ \A s \in Sessions : session[s] \in Session /\ session[s].waiting \in Seq(Requests)
           /\ \A r \in Requests : request[r] \in Request
           /\ \A d \in Downloads : load[d] \in Load
           /\ \A a \in Actors : call[a] \in CallRecord
           /\ reports \in Seq(Report1)
  BY DEF TypeOK, Session, CallRecord, Report1

----------------------------------------------------------------------------
(* A program's thread starts a download.                                   *)
LEMMA StartMakes ==
    ASSUME Base, NEW t \in Threads, NEW d \in Downloads, Start(t, d), made < MaxRequests
    PROVE  Base'
<1>. DEFINE n == made + 1
            x == Tried([load[d] EXCEPT !.state = "running"])
<1>0. /\ TypeOK /\ Blank /\ Inside /\ CarriedOnce /\ WaitingOnce /\ ToldOnce
      /\ (\A s \in Sessions : Serving(s)) /\ Unanswered /\ AnswersOwn /\ Downloading
  BY Parts
<1>1. n \in Requests /\ made \in Nat /\ request[n] = NoRequest
  BY <1>0, Numbers DEF TypeOK, Blank, Requests
<1>2. t \in Actors /\ call[t].at = "idle" /\ load[d] = NewLoad
  BY <1>0 DEF Actors, Start, Free, At, Blank
<1>3. /\ x \in Load /\ x.state = "running" /\ x.redirected = FALSE /\ x.final = None
      /\ x.content = {} /\ x.moved = FALSE
  <2>. DEFINE y == [load[d] EXCEPT !.state = "running"]
  <2>1. load[d] \in Load
    BY <1>0, Types
  <2>2. /\ y \in Load /\ y.state = "running" /\ y.redirected = load[d].redirected
        /\ y.final = load[d].final /\ y.content = load[d].content /\ y.moved = load[d].moved
    BY <2>1 DEF Load
  <2>3. x = Tried(y)
    OBVIOUS
  <2>4. /\ load[d].redirected = FALSE /\ load[d].final = None /\ load[d].content = {}
        /\ load[d].moved = FALSE
    BY <1>2 DEF NewLoad
  <2>. HIDE DEF x, y
  <2>5. /\ x \in Load /\ x.state = y.state /\ x.redirected = y.redirected
        /\ x.final = y.final /\ x.content = y.content /\ x.moved = y.moved
    BY <2>2, <2>3, TriedFacts
  <2>. QED
    BY <2>2, <2>4, <2>5
<1>4. /\ load' = [load EXCEPT ![d] = x] /\ made' = n
      /\ request' = [request EXCEPT ![n] = [@ EXCEPT !.load = d, !.at = "made"]]
      /\ Goto(t, "ask", n, None)
      /\ UNCHANGED <<sessionVars, reports, faults, raced>>
  BY DEF Start, Mitte
<1>. HIDE DEF x
<1>5. /\ load' \in [Downloads -> Load] /\ load'[d] = x
      /\ \A y \in Downloads : y # d => load'[y] = load[y]
  BY <1>0, <1>3, <1>4, LoadPut
<1>6. /\ request' \in [Requests -> Request]
      /\ request'[n].at = "made" /\ request'[n].load = d /\ request'[n].session = None
      /\ request'[n].answer = None
      /\ \A q \in Requests : q # n => request'[q] = request[q]
  <2>1. request[n].session = None /\ request[n].answer = None
    BY <1>1 DEF NoRequest
  <2>2. request' = MadeFor(request, n, d)
    BY <1>4 DEF MadeFor
  <2>. HIDE DEF n
  <2>. QED
    BY <1>0, <1>1, <2>1, <2>2, MadeFacts DEF TypeOK
<1>7. /\ call'[t].at = "ask" /\ call'[t].r = n /\ call'[t].s = None
      /\ \A b \in Actors : b # t => call'[b] = call[b]
      /\ call' \in [Actors -> CallRecord]
  BY <1>0, <1>1, <1>2, <1>4, Going DEF Stages
<1>8. /\ session' = session /\ opened' = opened /\ table' = table /\ operating' = operating
      /\ lock' = lock /\ reports' = reports /\ faults' = faults /\ raced' = raced /\ made' = n
  BY <1>4 DEF sessionVars
<1>9. request[n].at = "unmade" /\ request[n].load = None /\ request[n].session = None
  BY <1>1 DEF NoRequest
<1>. HIDE DEF n
<1>10. TypeOK'
  BY <1>0, <1>1, <1>5, <1>6, <1>7, <1>8 DEF TypeOK, CallRecord, Requests
<1>11. Blank'
  BY <1>0, <1>1, <1>2, <1>3, <1>5, <1>6, <1>7, <1>8, Numbers DEF Blank, n
<1>12. Inside'
  BY <1>0, <1>6, <1>7, <1>8 DEF Inside, Living
<1>13. CarriedOnce'
  BY <1>0, <1>1, <1>2, <1>6, <1>7, <1>9, CarriedNew DEF Asking
<1>14. Placing
  BY <1>0 DEF Placing, Inside
<1>15. WaitingOnce'
  BY <1>0, <1>6, <1>8, <1>9, <1>14, WaitingSame, Types
<1>16. ToldOnce'
  BY <1>0, <1>6, <1>8, <1>9, ToldSame, Types
<1>17. \A s \in Sessions : Serving(s)'
  <2>. TAKE s \in Sessions
  <2>1. Untouched(s)
    BY <1>2, <1>6, <1>7, <1>8, <1>9 DEF Untouched, Quiet, Res, Stp, Fly
  <2>. QED
    BY <1>0, <2>1, ServingSame
<1>18. Unanswered'
  BY <1>0, <1>6 DEF Unanswered
<1>19. AnswersOwn'
  BY <1>0, <1>6, <1>8 DEF AnswersOwn
<1>20. Downloading'
  <2>1. \A y \in Downloads : y # d => Steady(y)
    BY <1>5, <1>6, <1>8, <1>9, Distinct DEF Steady, SameLoad, SameRequests, SameReports
  <2>2. \A r \in Requests : Ours(d, r)' => r = n
    <3>1. Straight(d)
      BY <1>0, <1>2 DEF Downloading, NewLoad
    <3>2. \A r \in Requests : ~Ours(d, r)
      BY <1>2, <3>1 DEF Straight, TryRuns, NewLoad
    <3>. QED
      BY <1>6, <3>2 DEF Ours
  <2>3. OneTry(d)' /\ TryRuns(d)'
    BY <1>3, <1>5, <2>2 DEF OneTry, TryRuns
  <2>4. Well(d)'
    <3>1. \A i \in 1 .. Len(reports) : /\ reports[i].r \in Requests /\ reports[i].r # n
                                       /\ request[reports[i].r].at = "told"
      BY <1>0, <1>9, ReportFacts, Types DEF ToldOnce
    <3>2. \A i \in 1 .. Len(reports') : request'[reports'[i].r].load # d
      BY <1>6, <1>8, <2>2, <3>1 DEF Ours, Live
    <3>. QED
      BY <1>6, <2>2, <3>2 DEF Well
  <2>5. Ended(d)'
    BY <1>3, <1>5 DEF Ended, Over
  <2>. QED
    BY <1>0, <2>1, <2>3, <2>4, <2>5, DownloadingBut DEF Straight
<1>. QED
  BY <1>10, <1>11, <1>12, <1>13, <1>15, <1>16, <1>17, <1>18, <1>19, <1>20, Whole

LEMMA StartFails ==
    ASSUME Base, NEW t \in Threads, NEW d \in Downloads, Start(t, d), ~(made < MaxRequests)
    PROVE  Base'
<1>. DEFINE x == [[load[d] EXCEPT !.state = "running"] EXCEPT !.state = "thrown"]
<1>0. /\ TypeOK /\ Blank /\ Inside /\ CarriedOnce /\ WaitingOnce /\ ToldOnce
      /\ (\A s \in Sessions : Serving(s)) /\ Unanswered /\ AnswersOwn /\ Downloading
  BY Parts
<1>1. t \in Actors /\ call[t].at = "idle" /\ load[d] = NewLoad
  BY <1>0 DEF Actors, Start, Free, At, Blank
<1>2. /\ x \in Load /\ x.state = "thrown" /\ x.redirected = load[d].redirected /\ x.final = load[d].final
      /\ x.content = load[d].content /\ x.moved = load[d].moved
  <2>1. load[d] \in Load
    BY <1>0, Types
  <2>. QED
    BY <2>1 DEF Load
<1>3. load[d].redirected = FALSE /\ load[d].content = {} /\ load[d].moved = FALSE /\ load[d].state = "none"
  BY <1>1 DEF NewLoad
<1>4. /\ load' = [load EXCEPT ![d] = x] /\ made' = made /\ request' = request /\ Return(t)
      /\ UNCHANGED <<sessionVars, reports, faults, raced>>
  BY DEF Start, Mitte, GivenUp
<1>. HIDE DEF x
<1>5. /\ load' \in [Downloads -> Load] /\ load'[d] = x
      /\ \A y \in Downloads : y # d => load'[y] = load[y]
  BY <1>0, <1>2, <1>4, LoadPut
<1>6. /\ call'[t].at = "idle" /\ call'[t].r = None /\ call'[t].s = None
      /\ \A b \in Actors : b # t => call'[b] = call[b]
      /\ call' \in [Actors -> CallRecord]
  BY <1>0, <1>1, <1>4, Returning
<1>7. /\ session' = session /\ opened' = opened /\ table' = table /\ operating' = operating
      /\ lock' = lock /\ reports' = reports /\ faults' = faults /\ raced' = raced /\ made' = made
      /\ request' = request
  BY <1>4 DEF sessionVars
<1>8. TypeOK'
  BY <1>0, <1>5, <1>6, <1>7 DEF TypeOK, CallRecord
<1>9. Blank'
  BY <1>0, <1>2, <1>5, <1>6, <1>7 DEF Blank
<1>10. Inside'
  BY <1>0, <1>6, <1>7 DEF Inside, Living
<1>11. CarriedOnce'
  BY <1>0, <1>1, <1>6, <1>7, CarriedSame DEF Asking
<1>12. WaitingOnce' /\ ToldOnce'
  BY <1>0, <1>7 DEF WaitingOnce, ToldOnce
<1>13. \A s \in Sessions : Serving(s)'
  <2>. TAKE s \in Sessions
  <2>1. Untouched(s)
    BY <1>1, <1>6, <1>7 DEF Untouched, Quiet, Res, Stp, Fly
  <2>. QED
    BY <1>0, <2>1, ServingSame
<1>14. Unanswered' /\ AnswersOwn'
  BY <1>0, <1>7 DEF Unanswered, AnswersOwn
<1>15. Downloading'
  <2>1. \A y \in Downloads : y # d => Steady(y)
    BY <1>5, <1>7 DEF Steady, SameLoad, SameRequests, SameReports
  <2>2. Straight(d)
    BY <1>0, <1>3 DEF Downloading
  <2>3. \A r \in Requests : ~Ours(d, r)'
    BY <1>3, <1>7, <2>2 DEF Straight, TryRuns, Ours
  <2>4. OneTry(d)' /\ TryRuns(d)'
    BY <2>3 DEF OneTry, TryRuns
  <2>5. Well(d)'
    BY <1>7, <2>2, <2>3 DEF Straight, Well
  <2>6. Ended(d)'
    BY <1>2, <1>3, <1>5 DEF Ended, Over
  <2>. QED
    BY <1>0, <2>1, <2>4, <2>5, <2>6, DownloadingBut DEF Straight
<1>. QED
  BY <1>8, <1>9, <1>10, <1>11, <1>12, <1>13, <1>14, <1>15, Whole

----------------------------------------------------------------------------
(* A caller of require.                                                    *)
LEMMA ServingDead ==
    ASSUME NEW s \in Sessions, Serving(s), ~Living(s)', session'[s].waiting = <<>>,
           \A r \in Requests : Fly(r, s)' => Fly(r, s), s \in raced' <=> s \in raced
    PROVE  Serving(s)'
<1>1. Awaited(s)' /\ Worked(s)' /\ Emptied(s)'
  BY DEF Awaited, Worked, Emptied
<1>2. OneFly(s)'
  BY DEF Serving, OneFly
<1>3. OneRes(s)' /\ FlyAlone(s)' /\ LinkAlone(s)'
  BY DEF OneRes, FlyAlone, LinkAlone
<1>. QED
  BY <1>1, <1>2, <1>3 DEF Serving

\* The request being carried.
LEMMA Carried ==
    ASSUME TypeOK, Blank, CarriedOnce, NEW a \in Actors, Asking(a)
    PROVE  /\ call[a].r \in Requests /\ request[call[a].r].at = "made"
           /\ request[call[a].r].load \in Downloads /\ call[a].r <= made
<1>1. call[a].r \in Requests /\ request[call[a].r].at = "made"
  BY DEF CarriedOnce
<1>2. ~(call[a].r > made)
  BY <1>1 DEF Blank, NoRequest
<1>3. call[a].r <= made
  BY <1>1, <1>2, Numbers DEF TypeOK
<1>. QED
  BY <1>1, <1>3 DEF Blank

\* A session that has ended already may be marked failed.
SessionsKept == \A s \in Sessions :
    \/ session'[s] = session[s]
    \/ s <= opened /\ ~Living(s) /\ ~Living(s)' /\ session'[s].waiting = session[s].waiting

\* The manager counts that it has taken a request's address, or nobody does.
Counted(rq, r) == /\ rq \in [Requests -> Request]
                  /\ rq[r].at = request[r].at /\ Like(rq[r], request[r])
                  /\ \A q \in Requests : q # r => rq[q] = request[q]

LEMMA TakenFacts ==
    ASSUME TypeOK, NEW r \in Requests
    PROVE  Counted(Taken(r), r) /\ Counted(request, r)
<1>. DEFINE new == [request[r] EXCEPT !.taken = @ + 1]
<1>1. request[r] \in Request
  BY Types
<1>2. new \in Request /\ new.at = request[r].at /\ Like(new, request[r])
  BY <1>1 DEF Request, Like
<1>3. Taken(r) = [request EXCEPT ![r] = new]
  BY DEF Taken
<1>. HIDE DEF new
<1>. QED
  BY <1>2, <1>3, Put DEF TypeOK, Counted, Like

LEMMA ThrownKeeps ==
    ASSUME Base, NEW a \in Actors, Asking(a), NEW rq, Thrown(a, rq),
           NEW r \in Requests, r = call[a].r, NEW d \in Downloads, d = request[r].load, Counted(rq, r),
           session' \in [Sessions -> Session], SessionsKept,
           UNCHANGED <<opened, table, operating, lock, made, reports, faults, raced>>
    PROVE  Base'
<1>0. /\ TypeOK /\ Blank /\ Inside /\ CarriedOnce /\ WaitingOnce /\ ToldOnce
      /\ (\A s \in Sessions : Serving(s)) /\ Unanswered /\ AnswersOwn /\ Downloading
  BY Parts
<1>1. r \in Requests /\ request[r].at = "made" /\ d \in Downloads /\ r <= made
  BY <1>0, Carried
<1>2. /\ opened' = opened /\ table' = table /\ operating' = operating /\ lock' = lock
      /\ made' = made /\ reports' = reports /\ faults' = faults /\ raced' = raced
  OBVIOUS
<1>3. \A s \in Sessions : session'[s].waiting = session[s].waiting
  BY DEF SessionsKept
<1>4. call[a].at \in {"ask", "require"}
  BY DEF Asking
<1>5. load[d] \in Load
  BY <1>0, <1>1, Types
<1>6. CASE load[d].tries < 3
  <2>. DEFINE x == Tried(load[d])
  <2>1. load' = [load EXCEPT ![d] = x] /\ Goto(a, "ask", r, None) /\ request' = rq
    BY <1>6 DEF Thrown
  <2>2. /\ x \in Load /\ x.state = load[d].state /\ x.redirected = load[d].redirected
        /\ x.final = load[d].final /\ x.content = load[d].content /\ x.moved = load[d].moved
    BY <1>5, TriedFacts
  <2>. HIDE DEF x
  <2>3. /\ load' \in [Downloads -> Load] /\ load'[d] = x
        /\ \A y \in Downloads : y # d => load'[y] = load[y]
    BY <1>0, <1>1, <2>1, <2>2, LoadPut
  <2>4. /\ call'[a].at = "ask" /\ call'[a].r = r /\ call'[a].s = None
        /\ \A b \in Actors : b # a => call'[b] = call[b]
        /\ call' \in [Actors -> CallRecord]
    BY <1>0, <1>1, <2>1, Going DEF Stages
  <2>0. /\ request' \in [Requests -> Request]
        /\ request'[r].at = "made" /\ Like(request'[r], request[r])
        /\ \A q \in Requests : q # r => request'[q] = request[q]
    BY <1>1, <2>1 DEF Counted
  <2>5. load[d].state # "none"
    <3>1. CASE load[d].moved
      BY <1>0, <1>1, <3>1 DEF Blank, NewLoad
    <3>2. CASE ~load[d].moved
      BY <1>0, <1>1, <3>2 DEF Downloading, Straight, TryRuns, Ours, Live
    <3>. QED
      BY <3>1, <3>2
  <2>6. TypeOK'
    BY <1>0, <1>2, <2>0, <2>3, <2>4 DEF TypeOK, CallRecord
  <2>7. Blank'
    <3>1. \A s \in Sessions : s > opened => session'[s] = NoSession
      BY <1>0, Numbers DEF Blank, SessionsKept, TypeOK
    <3>. QED
      <4>1. \A q \in Requests : /\ q > made' => request'[q] = NoRequest
                                /\ q <= made' => request'[q].at # "unmade" /\ request'[q].load \in Downloads
                                /\ request'[q].session # None => request'[q].session <= opened'
        <5>1. ~(r > made)
          BY <1>0, <1>1, Numbers DEF TypeOK
        <5>. QED
          BY <1>0, <1>1, <1>2, <2>0, <5>1 DEF Blank, Like
      <4>2. \A b \in Actors : call'[b].s # None => call'[b].s <= opened'
        BY <1>0, <1>2, <2>4 DEF Blank
      <4>3. \A s \in table' : s <= opened'
        BY <1>0, <1>2 DEF Blank
      <4>4. \A y \in Downloads : load'[y].state = "none" => load'[y] = NewLoad
        BY <1>0, <2>2, <2>3, <2>5 DEF Blank
      <4>. QED
        BY <3>1, <4>1, <4>2, <4>3, <4>4 DEF Blank
  <2>8. Inside'
    BY <1>0, <1>1, <2>0, <2>4 DEF Inside, Living, SessionsKept
  <2>9. CarriedOnce'
    BY <1>0, <1>1, <1>4, <2>0, <2>4, CarriedSame DEF Asking
  <2>10. WaitingOnce' /\ ToldOnce'
    BY <1>0, <1>1, <1>2, <1>3, <2>0, WaitingSame, ToldSame, Types DEF Placing, Inside
  <2>11. \A s \in Sessions : Serving(s)'
    <3>. TAKE s \in Sessions
    <3>1. Quiet(s)
      BY <1>1, <1>2, <1>4, <2>0, <2>4 DEF Quiet, Res, Stp, Fly
    <3>2. CASE session'[s] = session[s]
      BY <1>0, <3>1, <3>2, ServingSame DEF Untouched
    <3>3. CASE session'[s] # session[s]
      <4>1. ~Living(s) /\ ~Living(s)' /\ session'[s].waiting = <<>>
        BY <1>0, <3>3 DEF SessionsKept, Serving, Emptied
      <4>. QED
        BY <1>0, <1>2, <3>1, <4>1, ServingDead DEF Quiet
    <3>. QED
      BY <3>2, <3>3
  <2>12. Unanswered' /\ AnswersOwn'
    <3>1. \A q \in Requests : /\ request'[q].at = request[q].at /\ request'[q].answer = request[q].answer
                              /\ request'[q].session = request[q].session
      BY <1>1, <2>0 DEF Like
    <3>. QED
      BY <1>0, <1>2, <3>1 DEF Unanswered, AnswersOwn
  <2>13. Downloading'
    <3>1. \A y \in Downloads : Steady(y)
      BY <1>1, <1>2, <2>0, <2>2, <2>3 DEF Steady, SameLoad, SameRequests, SameReports, Like
    <3>. QED
      BY <1>0, <3>1, DownloadingSame
  <2>. QED
    BY <2>6, <2>7, <2>8, <2>9, <2>10, <2>11, <2>12, <2>13, Whole
<1>7. CASE ~(load[d].tries < 3)
  <2>. DEFINE x == GivenUp(a, load[d])
  <2>1. load' = [load EXCEPT ![d] = x] /\ Return(a) /\ request' = MovedTo(rq, r, "refused")
    BY <1>7 DEF Thrown, MovedTo
  <2>2. /\ x \in Load /\ x.state \in {"thrown", "failed"} /\ x.redirected = load[d].redirected
        /\ (x.state = "failed" => x.final = None) /\ x.content = load[d].content /\ x.moved = load[d].moved
    BY <1>5 DEF GivenUp, Failed, Load
  <2>. HIDE DEF x
  <2>3. /\ load' \in [Downloads -> Load] /\ load'[d] = x
        /\ \A y \in Downloads : y # d => load'[y] = load[y]
    BY <1>0, <1>1, <2>1, <2>2, LoadPut
  <2>4. /\ call'[a].at = "idle" /\ call'[a].r = None /\ call'[a].s = None
        /\ \A b \in Actors : b # a => call'[b] = call[b]
        /\ call' \in [Actors -> CallRecord]
    BY <1>0, <2>1, Returning
  <2>5. /\ request' \in [Requests -> Request]
        /\ request'[r].at = "refused" /\ Like(request'[r], request[r])
        /\ \A q \in Requests : q # r => request'[q] = request[q]
    BY <1>1, <2>1, MovedFacts DEF Counted, Places, Like
  <2>6. TypeOK'
    BY <1>0, <1>2, <2>3, <2>4, <2>5 DEF TypeOK, CallRecord
  <2>7. Blank'
    <3>1. \A s \in Sessions : s > opened => session'[s] = NoSession
      BY <1>0, Numbers DEF Blank, SessionsKept, TypeOK
    <3>2. ~(r > made)
      BY <1>0, <1>1, Numbers DEF TypeOK
    <3>. QED
      BY <1>0, <1>1, <1>2, <2>2, <2>3, <2>4, <2>5, <3>1, <3>2 DEF Blank, Like
  <2>8. Inside'
    BY <1>0, <2>4, <2>5 DEF Inside, Living, SessionsKept
  <2>9. CarriedOnce'
    BY <1>0, <1>1, <1>4, <2>4, <2>5, CarriedGone DEF Asking
  <2>10. WaitingOnce' /\ ToldOnce'
    BY <1>0, <1>1, <1>2, <1>3, <2>5, WaitingSame, ToldSame, Types DEF Placing, Inside
  <2>11. \A s \in Sessions : Serving(s)'
    <3>. TAKE s \in Sessions
    <3>1. Quiet(s)
      BY <1>1, <1>2, <1>4, <2>4, <2>5 DEF Quiet, Res, Stp, Fly
    <3>2. CASE session'[s] = session[s]
      BY <1>0, <3>1, <3>2, ServingSame DEF Untouched
    <3>3. CASE session'[s] # session[s]
      <4>1. ~Living(s) /\ ~Living(s)' /\ session'[s].waiting = <<>>
        BY <1>0, <3>3 DEF SessionsKept, Serving, Emptied
      <4>. QED
        BY <1>0, <1>2, <3>1, <4>1, ServingDead DEF Quiet
    <3>. QED
      BY <3>2, <3>3
  <2>12. Unanswered' /\ AnswersOwn'
    BY <1>0, <1>2, <2>5 DEF Unanswered, AnswersOwn, Like
  <2>13. Downloading'
    <3>1. \A y \in Downloads : y # d => Steady(y)
      BY <1>1, <1>2, <2>3, <2>5 DEF Steady, SameLoad, SameRequests, SameReports, Like
    <3>2. ASSUME ~load'[d].moved
          PROVE  Straight(d)'
      <4>1. Straight(d)
        BY <1>0, <1>1, <2>2, <2>3, <3>2 DEF Downloading
      <4>2. Ours(d, r)
        BY <1>1 DEF Ours, Live
      <4>3. \A q \in Requests : ~Ours(d, q)'
        BY <1>1, <2>5, <4>1, <4>2 DEF Straight, OneTry, Ours, Live, Like
      <4>4. OneTry(d)' /\ TryRuns(d)'
        BY <4>3 DEF OneTry, TryRuns
      <4>5. Well(d)'
        <5>1. \A i \in 1 .. Len(reports) : reports[i].r \in Requests /\ reports[i].r # r
          BY <1>0, <1>1, ReportFacts, Types DEF ToldOnce
        <5>2. \A i \in 1 .. Len(reports') : request'[reports'[i].r].load = d /\ reports'[i].how = "done" =>
                                                request'[reports'[i].r].code = "ok"
          BY <1>2, <2>5, <4>1, <5>1 DEF Straight, Well
        <5>. QED
          BY <4>3, <5>2 DEF Well
      <4>6. Ended(d)'
        <5>1. ~load[d].redirected
          BY <4>1 DEF Straight, Ended
        <5>2. load'[d].state # "crashed" /\ ~load'[d].redirected
          BY <2>2, <2>3, <5>1
        <5>3. (load'[d].state \in {"done", "failed"}) => load'[d].final \notin Requests
          BY <2>2, <2>3, Numbers
        <5>. QED
          BY <5>2, <5>3 DEF Ended, Over, Sound
      <4>. QED
        BY <4>4, <4>5, <4>6 DEF Straight
    <3>. QED
      BY <1>0, <1>1, <3>1, <3>2, DownloadingBut
  <2>. QED
    BY <2>6, <2>7, <2>8, <2>9, <2>10, <2>11, <2>12, <2>13, Whole
<1>. QED
  BY <1>6, <1>7

LEMMA AskKeeps ==
    ASSUME Base, NEW a \in Actors, Ask(a)
    PROVE  Base'
<1>0. /\ TypeOK /\ Blank /\ Inside /\ CarriedOnce /\ WaitingOnce /\ ToldOnce
      /\ (\A s \in Sessions : Serving(s)) /\ Unanswered /\ AnswersOwn /\ Downloading
  BY Parts
<1>1. call[a].at = "ask" /\ Asking(a)
  BY DEF Ask, At, Asking
<1>. DEFINE r == call[a].r
<1>2. r \in Requests /\ request[r].at = "made" /\ request[r].load \in Downloads
  BY <1>0, <1>1, Carried
<1>3. /\ operating' = operating /\ lock' = lock /\ made' = made /\ reports' = reports
      /\ faults' = faults /\ raced' = raced
  BY DEF Ask
<1>4. ASSUME NEW s \in Choosable(r), Goto(a, "require", r, s), request' = Taken(r),
             UNCHANGED <<session, opened, table, load>>
      PROVE  Base'
  <2>. HIDE DEF r
  <2>1. s \in Sessions /\ s \in table
    BY <1>0 DEF Choosable, TypeOK
  <2>2. /\ call'[a].at = "require" /\ call'[a].r = r /\ call'[a].s = s
        /\ \A b \in Actors : b # a => call'[b] = call[b]
        /\ call' \in [Actors -> CallRecord]
    BY <1>0, <1>2, <1>4, <2>1, Going DEF Stages
  <2>0. /\ request' \in [Requests -> Request]
        /\ request'[r].at = "made" /\ Like(request'[r], request[r])
        /\ \A q \in Requests : q # r => request'[q] = request[q]
    BY <1>0, <1>2, <1>4, TakenFacts DEF Counted
  <2>3. TypeOK'
    BY <1>0, <1>2, <1>3, <1>4, <2>0, <2>2 DEF TypeOK, CallRecord
  <2>4. Blank'
    <3>1. ~(r > made)
      BY <1>0, <1>2 DEF Blank, NoRequest
    <3>. QED
      BY <1>0, <1>2, <1>3, <1>4, <2>0, <2>1, <2>2, <3>1 DEF Blank, Like
  <2>5. Inside'
    BY <1>0, <1>2, <1>3, <1>4, <2>0, <2>1, <2>2 DEF Inside, Living, Like
  <2>6. CarriedOnce'
    BY <1>0, <1>1, <1>2, <2>0, <2>2, CarriedSame DEF Asking, r
  <2>7. WaitingOnce' /\ ToldOnce'
    BY <1>0, <1>2, <1>3, <1>4, <2>0, WaitingSame, ToldSame, Types DEF Placing, Inside, Like
  <2>8. \A x \in Sessions : Serving(x)'
    <3>. TAKE x \in Sessions
    <3>1. Untouched(x)
      BY <1>1, <1>2, <1>3, <1>4, <2>0, <2>2 DEF Untouched, Quiet, Res, Stp, Fly
    <3>. QED
      BY <1>0, <3>1, ServingSame
  <2>9. Unanswered' /\ AnswersOwn'
    BY <1>0, <1>2, <1>3, <2>0 DEF Unanswered, AnswersOwn, Like
  <2>10. Downloading'
    <3>1. \A y \in Downloads : Steady(y)
      BY <1>2, <1>3, <1>4, <2>0 DEF Steady, SameLoad, SameRequests, SameReports, Like
    <3>. QED
      BY <1>0, <3>1, DownloadingSame
  <2>. QED
    BY <2>3, <2>4, <2>5, <2>6, <2>7, <2>8, <2>9, <2>10, Whole
<1>5. ASSUME opened < MaxSessions, opened' = opened + 1,
             session' = [session EXCEPT ![opened + 1] = NewSession(Bare(r))], table' = table \cup {opened + 1},
             Goto(a, "require", r, opened + 1), request' = Taken(r), UNCHANGED load
      PROVE  Base'
  <2>. DEFINE n == opened + 1
              sn == NewSession(Bare(r))
  <2>1. n \in Sessions /\ opened \in Nat /\ session[n] = NoSession
    BY <1>0, <1>5, Numbers DEF TypeOK, Blank, Sessions
  <2>2. /\ \A b \in Actors : call[b].s # n
        /\ \A q \in Requests : request[q].session # n
    <3>1. \A b \in Actors : call[b].s # None => call[b].s \in Sessions
      BY <1>0, Types DEF CallRecord
    <3>2. \A q \in Requests : request[q].session # None => request[q].session \in Sessions
      BY <1>0, Types DEF Request
    <3>. QED
      BY <1>0, <2>1, <3>1, <3>2, Numbers DEF Blank
  <2>7. /\ sn \in Session /\ sn.status = "creating" /\ sn.waiting = <<>>
        /\ sn.busy = TRUE /\ sn.queue = TRUE /\ sn.channel = "connecting"
    <3>1. Bare(r) \in BOOLEAN
      BY DEF Bare
    <3>. HIDE DEF r
    <3>. QED
      BY <3>1, EmptySeq DEF NewSession, Session
  <2>. HIDE DEF r
  <2>3. session' = [session EXCEPT ![n] = sn] /\ opened' = n /\ table' = table \cup {n}
        /\ request' = Taken(r) /\ load' = load /\ Goto(a, "require", r, n)
    BY <1>5
  <2>4. opened <= n /\ \A s \in Sessions : s > n => s > opened
    BY <2>1, Numbers
  <2>5. n \in 0 .. MaxSessions
    BY <2>1, Numbers DEF Sessions
  <2>. HIDE DEF n
  <2>6. /\ call'[a].at = "require" /\ call'[a].r = r /\ call'[a].s = n
        /\ \A b \in Actors : b # a => call'[b] = call[b]
        /\ call' \in [Actors -> CallRecord]
    BY <1>0, <1>2, <2>1, <2>3, Going DEF Stages
  <2>8. NoSession.status = "none" /\ NoSession.waiting = <<>>
    BY DEF NoSession
  <2>9. /\ session' \in [Sessions -> Session] /\ session'[n] = sn
        /\ \A s \in Sessions : s # n => session'[s] = session[s]
    <3>. HIDE DEF sn
    <3>. QED
      BY <1>0, <2>1, <2>3, <2>7 DEF TypeOK
  <2>0. /\ request' \in [Requests -> Request]
        /\ request'[r].at = "made" /\ Like(request'[r], request[r])
        /\ \A q \in Requests : q # r => request'[q] = request[q]
    BY <1>0, <1>2, <2>3, TakenFacts DEF Counted
  <2>. HIDE DEF sn, NoSession
  <2>10. TypeOK'
    BY <1>0, <1>3, <2>0, <2>1, <2>3, <2>5, <2>6, <2>9 DEF TypeOK, CallRecord
  <2>11. Blank'
    <3>1. \A s \in Sessions : s > opened' => session'[s] = NoSession
      BY <1>0, <2>1, <2>3, <2>4, <2>9, Numbers DEF Blank
    <3>2. \A q \in Requests : request'[q].session # None => request'[q].session <= opened'
      <4>1. \A q \in Requests : request[q].session # None => request[q].session \in Sessions
        BY <1>0, Types DEF Request
      <4>. QED
        BY <1>0, <1>2, <2>0, <2>1, <2>3, <2>4, <4>1, Numbers DEF Blank, n, Like
    <3>3. \A b \in Actors : call'[b].s # None => call'[b].s <= opened'
      <4>1. \A b \in Actors : call[b].s # None => call[b].s \in Sessions
        BY <1>0, Types DEF CallRecord
      <4>2. \A b \in Actors : call[b].s # None => call[b].s <= n
        BY <1>0, <2>1, <4>1, Numbers DEF Blank, n
      <4>3. n <= n
        BY <2>1, Numbers
      <4>. QED
        BY <2>3, <2>6, <4>2, <4>3
    <3>4. \A s \in table' : s <= opened'
      <4>1. \A s \in table : s \in Sessions /\ s <= n
        BY <1>0, <2>1, Numbers DEF Blank, TypeOK, n
      <4>2. n <= n
        BY <2>1, Numbers
      <4>. QED
        BY <2>3, <4>1, <4>2
    <3>. QED
      <4>1. ~(r > made)
        BY <1>0, <1>2 DEF Blank, NoRequest
      <4>2. \A q \in Requests : /\ q > made' => request'[q] = NoRequest
                                /\ q <= made' => request'[q].at # "unmade" /\ request'[q].load \in Downloads
        BY <1>0, <1>2, <1>3, <2>0, <4>1 DEF Blank, Like
      <4>. QED
        BY <1>0, <1>3, <2>3, <3>1, <3>2, <3>3, <3>4, <4>2 DEF Blank
  <2>12. Inside'
    BY <1>0, <1>2, <2>0, <2>1, <2>3, <2>6, <2>7, <2>9 DEF Inside, Living, Like
  <2>13. CarriedOnce'
    BY <1>0, <1>1, <1>2, <2>0, <2>6, CarriedSame DEF Asking, r
  <2>14. WaitingOnce'
    <3>1. \A s \in Sessions : session'[s].waiting = session[s].waiting
      BY <2>1, <2>7, <2>8, <2>9
    <3>. QED
      BY <1>0, <1>2, <2>0, <3>1, WaitingSame, Types DEF Placing, Inside, Like
  <2>15. ToldOnce'
    BY <1>0, <1>2, <1>3, <2>0, ToldSame, Types
  <2>16. \A x \in Sessions : Serving(x)'
    <3>. TAKE x \in Sessions
    <3>1. CASE x # n
      <4>1. Untouched(x)
        BY <1>1, <1>2, <1>3, <2>0, <2>6, <2>9, <3>1 DEF Untouched, Quiet, Res, Stp, Fly
      <4>. QED
        BY <1>0, <4>1, ServingSame
    <3>2. CASE x = n
      <4>1. ~SomeRes(x)' /\ ~SomeFly(x)'
        BY <1>2, <2>0, <2>2, <2>6, <3>2 DEF Like, SomeRes, SomeFly, Res, Fly
      <4>2. Living(x)' /\ Connecting(x)' /\ session'[x].busy /\ session'[x].waiting = <<>>
        BY <2>7, <2>9, <3>2 DEF Living, Connecting
      <4>. QED
        BY <4>1, <4>2 DEF Serving, Awaited, Worked, Emptied, OneFly, OneRes, FlyAlone, LinkAlone,
                          SomeRes, SomeFly
    <3>. QED
      BY <3>1, <3>2
  <2>17. Unanswered' /\ AnswersOwn'
    BY <1>0, <1>2, <1>3, <2>0 DEF Unanswered, AnswersOwn, Like
  <2>18. Downloading'
    <3>1. \A y \in Downloads : Steady(y)
      BY <1>2, <1>3, <2>0, <2>3 DEF Steady, SameLoad, SameRequests, SameReports, Like
    <3>. QED
      BY <1>0, <3>1, DownloadingSame
  <2>. QED
    BY <2>10, <2>11, <2>12, <2>13, <2>14, <2>15, <2>16, <2>17, <2>18, Whole
<1>6. ASSUME NEW rq \in {request, Taken(r)}, Thrown(a, rq), UNCHANGED <<session, opened, table>>
      PROVE  Base'
  <2>1. session' \in [Sessions -> Session] /\ SessionsKept
    BY <1>0, <1>6 DEF TypeOK, SessionsKept
  <2>2. Counted(rq, r)
    BY <1>0, <1>2, <1>6, TakenFacts
  <2>. QED
    BY <1>1, <1>2, <1>3, <1>6, <2>1, <2>2, ThrownKeeps
<1>. QED
  BY <1>4, <1>5, <1>6 DEF Ask

LEMMA StoppedFacts ==
    ASSUME TypeOK, NEW s \in Sessions, NEW status \in {"failed", "closed"}
    PROVE  /\ Stopped(s, status) \in Session /\ Stopped(s, status).status = status
           /\ Stopped(s, status).waiting = <<>> /\ Stopped(s, status).local = session[s].local
<1>. DEFINE chan == IF session[s].status # "creating" THEN "closed" ELSE session[s].channel
            new == [[[[[session[s] EXCEPT !.status = status] EXCEPT !.busy = FALSE]
                         EXCEPT !.waiting = <<>>] EXCEPT !.queue = FALSE] EXCEPT !.channel = chan]
<1>1. session[s] \in Session /\ <<>> \in Seq(Requests)
  BY Types, EmptySeq
<1>2. chan \in {"none", "connecting", "open", "closed"}
  BY <1>1 DEF Session
<1>3. Stopped(s, status) = new
  BY DEF Stopped
<1>. HIDE DEF chan
<1>. QED
  BY <1>1, <1>2, <1>3 DEF Session

LEMMA RequireRefuses ==
    ASSUME Base, NEW a \in Actors, call[a].at = "require", NEW s \in Sessions, call[a].s = s, ~Living(s),
           session' = [session EXCEPT ![s] = Stopped(s, "failed")], Thrown(a, request),
           UNCHANGED <<opened, table, operating, lock, made, reports, faults, raced>>
    PROVE  Base'
<1>0. TypeOK /\ Blank /\ CarriedOnce /\ Serving(s)
  BY Parts
<1>1. Asking(a)
  BY DEF Asking
<1>2. call[a].r \in Requests /\ request[call[a].r].load \in Downloads
  BY <1>0, <1>1, Carried
<1>3. s <= opened
  BY <1>0, Numbers DEF Blank
<1>4. /\ session' \in [Sessions -> Session]
      /\ session'[s].status = "failed" /\ session'[s].waiting = session[s].waiting
      /\ \A x \in Sessions : x # s => session'[x] = session[x]
  <2>1. session[s].waiting = <<>>
    BY <1>0 DEF Serving, Emptied
  <2>2. Stopped(s, "failed") \in Session /\ Stopped(s, "failed").status = "failed"
        /\ Stopped(s, "failed").waiting = <<>>
    BY <1>0, StoppedFacts
  <2>. QED
    BY <1>0, <2>1, <2>2, SessionPut
<1>5. SessionsKept
  BY <1>3, <1>4 DEF SessionsKept, Living
<1>6. Counted(request, call[a].r)
  BY <1>0, <1>2, TakenFacts
<1>. QED
  BY <1>1, <1>2, <1>4, <1>5, <1>6, ThrownKeeps

LEMMA RequireQueues ==
    ASSUME Base, NEW a \in Actors, call[a].at = "require", NEW s \in Sessions, call[a].s = s, Living(s),
           NEW r \in Requests, r = call[a].r,
           session' = [session EXCEPT ![s].waiting = Append(@, r)],
           request' = [request EXCEPT ![r].at = "waiting", ![r].session = s],
           IF MustResume(s) THEN Goto(a, "resume", None, s) ELSE Return(a),
           raced' = IF ~session[s].busy /\ Resuming(s) # {} THEN raced \cup {s} ELSE raced,
           UNCHANGED <<load, opened, table, operating, lock, made, reports, faults>>
    PROVE  Base'
<1>0. /\ TypeOK /\ Blank /\ Inside /\ CarriedOnce /\ WaitingOnce /\ ToldOnce
      /\ (\A x \in Sessions : Serving(x)) /\ Unanswered /\ AnswersOwn /\ Downloading
  BY Parts
<1>1. Asking(a) /\ request[r].at = "made" /\ r <= made /\ s <= opened
  <2>1. Asking(a)
    BY DEF Asking
  <2>. QED
    BY <1>0, <2>1, Carried, Numbers DEF Blank
<1>2. /\ opened' = opened /\ table' = table /\ operating' = operating /\ lock' = lock
      /\ made' = made /\ reports' = reports /\ faults' = faults /\ load' = load
  OBVIOUS
<1>3. /\ session' \in [Sessions -> Session]
      /\ session'[s].status = session[s].status /\ session'[s].busy = session[s].busy
      /\ session'[s].queue = session[s].queue /\ session'[s].channel = session[s].channel
      /\ session'[s].waiting = Append(session[s].waiting, r)
      /\ \A x \in Sessions : x # s => session'[x] = session[x]
  <2>. DEFINE new == [session[s] EXCEPT !.waiting = Append(session[s].waiting, r)]
  <2>1. session[s] \in Session /\ Append(session[s].waiting, r) \in Seq(Requests)
    BY <1>0, Types, AppendFacts
  <2>2. /\ new \in Session /\ new.status = session[s].status /\ new.busy = session[s].busy
        /\ new.queue = session[s].queue /\ new.channel = session[s].channel
        /\ new.waiting = Append(session[s].waiting, r)
    BY <2>1 DEF Session
  <2>3. session' = [session EXCEPT ![s] = new]
    OBVIOUS
  <2>. HIDE DEF new
  <2>. QED
    BY <1>0, <2>2, <2>3, SessionPut
<1>4. /\ request' \in [Requests -> Request]
      /\ request'[r].at = "waiting" /\ request'[r].session = s /\ request'[r].load = request[r].load
      /\ request'[r].code = request[r].code /\ request'[r].answer = request[r].answer
      /\ \A q \in Requests : q # r => request'[q] = request[q]
  <2>1. request' = QueuedIn(request, r, s)
    BY DEF QueuedIn
  <2>. QED
    BY <1>0, <2>1, QueuedFacts DEF TypeOK
<1>5. /\ call' \in [Actors -> CallRecord]
      /\ \/ session[s].busy /\ call'[a].at = "idle" /\ call'[a].s = None
         \/ ~session[s].busy /\ call'[a].at = "resume" /\ call'[a].s = s
      /\ \A b \in Actors : b # a => call'[b] = call[b]
  <2>1. CASE session[s].busy
    <3>1. Return(a)
      BY <2>1 DEF MustResume
    <3>. QED
      BY <1>0, <2>1, <3>1, Returning
  <2>2. CASE ~session[s].busy
    <3>1. Goto(a, "resume", None, s)
      BY <2>2 DEF MustResume
    <3>2. "resume" \in Stages /\ None \in Requests \cup {None} /\ s \in Sessions \cup {None}
      BY DEF Stages
    <3>3. /\ call'[a].at = "resume" /\ call'[a].s = s /\ call' \in [Actors -> CallRecord]
          /\ \A b \in Actors : b # a => call'[b] = call[b]
      BY <1>0, <3>1, <3>2, Going
    <3>. QED
      BY <2>2, <3>3
  <2>. QED
    BY <2>1, <2>2
<1>6. /\ raced' \subseteq Sessions
      /\ \A x \in Sessions : x # s => (x \in raced' <=> x \in raced)
      /\ s \notin raced' => s \notin raced /\ (session[s].busy \/ ~SomeRes(s))
      /\ raced \subseteq raced'
  BY <1>0 DEF TypeOK, Resuming, SomeRes, Res, At
<1>7. TypeOK'
  BY <1>0, <1>2, <1>3, <1>4, <1>5, <1>6 DEF TypeOK, CallRecord
<1>8. Blank'
  <2>1. ~(r > made) /\ ~(s > opened)
    BY <1>0, <1>1, Numbers DEF TypeOK
  <2>2. \A q \in Requests : /\ q > made' => request'[q] = NoRequest
                            /\ q <= made' => request'[q].at # "unmade" /\ request'[q].load \in Downloads
                            /\ request'[q].session # None => request'[q].session <= opened'
    BY <1>0, <1>1, <1>2, <1>4, <2>1 DEF Blank
  <2>3. \A b \in Actors : call'[b].s # None => call'[b].s <= opened'
    BY <1>0, <1>1, <1>2, <1>5 DEF Blank
  <2>4. \A x \in Sessions : x > opened' => session'[x] = NoSession
    BY <1>0, <1>2, <1>3, <2>1 DEF Blank
  <2>. QED
    BY <1>0, <1>2, <2>2, <2>3, <2>4 DEF Blank
<1>9. Inside'
  BY <1>0, <1>3, <1>4, <1>5 DEF Inside, Living
<1>10. CarriedOnce'
  <2>1. /\ ~Asking(a)'
        /\ \A b \in Actors : b # a => (Asking(b)' <=> Asking(b)) /\ call'[b].r = call[b].r
    BY <1>5 DEF Asking
  <2>2. /\ request'[call[a].r].at # "made"
        /\ \A q \in Requests : q # call[a].r => (request'[q].at = "made" <=> request[q].at = "made")
    BY <1>4
  <2>. QED
    BY <1>0, <1>1, <2>1, <2>2, CarriedGone
<1>11. Placing
  BY <1>0 DEF Placing, Inside
<1>12. WaitingOnce'
  <2>1. /\ \A x \in Sessions : session[x].waiting \in Seq(Requests)
        /\ \A x \in Sessions : x # s => session'[x].waiting = session[x].waiting
    BY <1>0, <1>3, Types
  <2>2. \A q \in Requests : q # r => /\ request'[q].at = "waiting" <=> request[q].at = "waiting"
                                     /\ request[q].at = "waiting" => request'[q].session = request[q].session
    BY <1>4
  <2>. QED
    <3>1. WaitingOnce /\ session'[s].waiting = Append(session[s].waiting, r) /\ request[r].at # "waiting"
      BY <1>0, <1>1, <1>3
    <3>2. request'[r].at = "waiting" /\ request'[r].session = s
      BY <1>4
    <3>. QED
      BY <1>11, <2>1, <2>2, <3>1, <3>2, WaitingMore
<1>13. ToldOnce'
  BY <1>0, <1>1, <1>2, <1>4, ToldSame, Types
<1>14. \A x \in Sessions : Serving(x)'
  <2>. TAKE x \in Sessions
  <2>1. CASE x # s
    <3>1. Untouched(x)
      <4>1. session'[x] = session[x] /\ (x \in raced' <=> x \in raced)
        BY <1>3, <1>6, <2>1
      <4>2. \A b \in Actors : (Res(b, x)' <=> Res(b, x)) /\ (Stp(b, x)' <=> Stp(b, x))
        BY <1>1, <1>5, <2>1 DEF Res, Stp
      <4>3. \A q \in Requests : Fly(q, x)' <=> Fly(q, x)
        BY <1>1, <1>4, <2>1 DEF Fly
      <4>. QED
        BY <4>1, <4>2, <4>3 DEF Untouched, Quiet
    <3>. QED
      BY <1>0, <3>1, ServingSame
  <2>2. CASE x = s
    <3>1. \A q \in Requests : Fly(q, s)' <=> Fly(q, s)
      BY <1>1, <1>4 DEF Fly
    <3>2. \A b \in Actors : (b # a => (Res(b, s)' <=> Res(b, s)) /\ (Stp(b, s)' <=> Stp(b, s)))
                             /\ ~Res(a, s) /\ ~Stp(a, s)
      BY <1>5 DEF Res, Stp
    <3>3. /\ SomeFly(s)' <=> SomeFly(s)
          /\ SomeStp(s)' <=> SomeStp(s)
          /\ SomeRes(s) => SomeRes(s)'
          /\ Living(s)' /\ (Connecting(s)' <=> Connecting(s))
      BY <1>3, <1>5, <3>1, <3>2 DEF SomeFly, SomeStp, SomeRes, Living, Connecting, Res, Stp
    <3>4. Serving(s)
      BY <1>0
    <3>5. CASE session[s].busy
      <4>1. \A b \in Actors : Res(b, s)' <=> Res(b, s)
        BY <1>5, <3>2, <3>5 DEF Res
      <4>2. SomeRes(s)' <=> SomeRes(s)
        BY <4>1 DEF SomeRes
      <4>3. Awaited(s)' /\ Worked(s)' /\ Emptied(s)'
        BY <1>3, <3>3, <3>4, <3>5, <4>2 DEF Serving, Awaited, Worked, Emptied
      <4>4. OneFly(s)' /\ OneRes(s)'
        BY <1>6, <3>1, <3>4, <4>1 DEF Serving, OneFly, OneRes
      <4>5. FlyAlone(s)' /\ LinkAlone(s)'
        BY <1>3, <1>6, <3>3, <3>4, <3>5, <4>2 DEF Serving, FlyAlone, LinkAlone
      <4>. QED
        BY <2>2, <4>3, <4>4, <4>5 DEF Serving
    <3>6. CASE ~session[s].busy
      <4>1. Res(a, s)' /\ SomeRes(s)'
        BY <1>5, <3>6 DEF Res, SomeRes
      <4>2. Awaited(s)' /\ Worked(s)' /\ Emptied(s)'
        BY <3>3, <4>1 DEF Awaited, Worked, Emptied
      <4>3. OneFly(s)'
        BY <1>6, <3>1, <3>4 DEF Serving, OneFly
      <4>4. s \notin raced' => ~SomeRes(s) /\ s \notin raced
        BY <1>6, <3>6
      <4>5. OneRes(s)'
        BY <3>2, <4>4 DEF OneRes, SomeRes
      <4>6. FlyAlone(s)' /\ LinkAlone(s)'
        BY <3>3, <3>4, <3>6, <4>4 DEF Serving, FlyAlone, LinkAlone
      <4>. QED
        BY <2>2, <4>2, <4>3, <4>5, <4>6 DEF Serving
    <3>. QED
      BY <3>5, <3>6
  <2>. QED
    BY <2>1, <2>2
<1>15. Unanswered'
  BY <1>0, <1>1, <1>4 DEF Unanswered
<1>16. AnswersOwn'
  BY <1>0, <1>1, <1>4, <1>6 DEF AnswersOwn, Unanswered
<1>17. Downloading'
  <2>1. \A y \in Downloads : Steady(y)
    <3>. TAKE y \in Downloads
    <3>1. SameLoad(y) /\ SameReports(y)
      BY <1>1, <1>2 DEF SameLoad, SameReports
    <3>2. SameRequests(y)
      BY <1>1, <1>4 DEF SameRequests, Live
    <3>. QED
      BY <3>1, <3>2 DEF Steady
  <2>. QED
    BY <1>0, <2>1, DownloadingSame
<1>. QED
  BY <1>7, <1>8, <1>9, <1>10, <1>12, <1>13, <1>14, <1>15, <1>16, <1>17, Whole

LEMMA RequireKeeps ==
    ASSUME Base, NEW a \in Actors, Require(a)
    PROVE  Base'
<1>0. TypeOK /\ Blank /\ CarriedOnce /\ Inside
  BY Parts
<1>1. call[a].at = "require" /\ Asking(a)
  BY DEF Require, At, Asking
<1>2. call[a].r \in Requests /\ call[a].s \in Sessions
  BY <1>0, <1>1, Carried DEF Inside
<1>3. CASE Living(call[a].s)
  BY <1>1, <1>2, <1>3, RequireQueues DEF Require
<1>4. CASE ~Living(call[a].s)
  BY <1>1, <1>2, <1>4, RequireRefuses DEF Require
<1>. QED
  BY <1>3, <1>4

----------------------------------------------------------------------------
(* A session is stopped or closed.                                         *)
CallsKept(s) == \A b \in Actors :
    \/ call'[b] = call[b]
    \/ call[b].at \in {"siste", "clode"} /\ call[b].s = s /\ call'[b] = Idle

LEMMA StopKeeps ==
    ASSUME Base, NEW s \in Sessions, s <= opened, NEW status \in {"failed", "closed"},
           NEW how \in {"failed", "cancelled"}, Stop(s, status, how),
           call' \in [Actors -> CallRecord], CallsKept(s),
           table' \subseteq table, lock' \in Actors \cup {None},
           UNCHANGED <<opened, operating, made, load, faults, raced>>
    PROVE  Base'
<1>. DEFINE w == session[s].waiting
<1>0. /\ TypeOK /\ Blank /\ Inside /\ CarriedOnce /\ WaitingOnce /\ ToldOnce
      /\ (\A x \in Sessions : Serving(x)) /\ Unanswered /\ AnswersOwn /\ Downloading
  BY Parts
<1>1. w \in Seq(Requests) /\ reports \in Seq(Report1) /\ how \in Outcomes
  BY <1>0, Types DEF Outcomes
<1>2. /\ opened' = opened /\ operating' = operating /\ made' = made /\ load' = load
      /\ faults' = faults /\ raced' = raced
  OBVIOUS
<1>3. reports' = Told(s, w, how) /\ request' = Placed(request, s, w)
  BY DEF Stop, Left
<1>4. /\ session' \in [Sessions -> Session]
      /\ session'[s].status = status /\ session'[s].waiting = <<>>
      /\ \A x \in Sessions : x # s => session'[x] = session[x]
  <2>1. session' = [session EXCEPT ![s] = Stopped(s, status)]
    BY DEF Stop
  <2>. QED
    BY <1>0, <2>1, StoppedFacts, SessionPut
<1>5. /\ request' \in [Requests -> Request]
      /\ \A i \in 1 .. Len(w) : /\ w[i] \in Requests /\ Like(request'[w[i]], request[w[i]])
                                /\ request'[w[i]].at \in {"told", "lost"}
      /\ \A q \in Requests : (\A i \in 1 .. Len(w) : w[i] # q) => request'[q] = request[q]
  <2>. HIDE DEF w
  <2>1. request \in [Requests -> Request] /\ w \in Seq(Requests)
    BY <1>0, <1>1 DEF TypeOK
  <2>2. /\ Placed(request, s, w) \in [Requests -> Request]
        /\ \A i \in 1 .. Len(w) : /\ w[i] \in Requests /\ Like(Placed(request, s, w)[w[i]], request[w[i]])
                                   /\ Placed(request, s, w)[w[i]].at = IF session[s].queue THEN "told" ELSE "lost"
        /\ \A q \in Requests : (\A i \in 1 .. Len(w) : w[i] # q) => Placed(request, s, w)[q] = request[q]
    BY <2>1, PlacedFacts
  <2>. QED
    BY <1>3, <2>2
<1>6. \A i \in 1 .. Len(w) : request[w[i]].at = "waiting" /\ request[w[i]].session = s
  BY <1>0 DEF WaitingOnce
<1>7. Distinctly(w)
  BY <1>0 DEF WaitingOnce, Distinctly
<1>8. /\ reports' \in Seq(Report1)
      /\ ~session[s].queue => reports' = reports
      /\ session[s].queue =>
           /\ Len(reports') = Len(reports) + Len(w)
           /\ \A i \in 1 .. Len(reports) : reports'[i] = reports[i]
           /\ \A i \in 1 .. Len(w) : reports'[Len(reports) + i] = [r |-> w[i], how |-> how]
  BY <1>1, <1>3, ToldFacts
<1>. HIDE DEF w
<1>9. \A q \in Requests :
          \/ request'[q] = request[q]
          \/ /\ request[q].at = "waiting" /\ request[q].session = s
             /\ request'[q].at \in {"told", "lost"} /\ Like(request'[q], request[q])
  <2>. TAKE q \in Requests
  <2>1. CASE \E i \in 1 .. Len(w) : w[i] = q
    BY <1>5, <1>6, <2>1
  <2>2. CASE \A i \in 1 .. Len(w) : w[i] # q
    BY <1>5, <2>2
  <2>. QED
    BY <2>1, <2>2
<1>10. Idle.at = "idle" /\ Idle.s = None
  BY DEF Idle
<1>11. TypeOK'
  BY <1>0, <1>2, <1>4, <1>5, <1>8 DEF TypeOK, CallRecord, Report1
<1>12. Blank'
  <2>1. \A q \in Requests : /\ q > made' => request'[q] = NoRequest
                            /\ q <= made' => request'[q].at # "unmade" /\ request'[q].load \in Downloads
                            /\ request'[q].session # None => request'[q].session <= opened'
    <3>. TAKE q \in Requests
    <3>1. CASE request'[q] = request[q]
      BY <1>0, <1>2, <3>1 DEF Blank
    <3>2. CASE request'[q] # request[q]
      <4>1. /\ request[q].at = "waiting" /\ request'[q].at \in {"told", "lost"}
            /\ request'[q].load = request[q].load /\ request'[q].session = request[q].session
        BY <1>9, <3>2 DEF Like
      <4>2. ~(q > made)
        BY <1>0, <4>1 DEF Blank, NoRequest
      <4>. QED
        BY <1>0, <1>2, <4>1, <4>2 DEF Blank
    <3>. QED
      BY <3>1, <3>2
  <2>2. \A b \in Actors : call'[b].s # None => call'[b].s <= opened'
    BY <1>0, <1>2, <1>10 DEF Blank, CallsKept
  <2>3. \A x \in Sessions : x > opened' => session'[x] = NoSession
    BY <1>0, <1>2, <1>4, Numbers DEF Blank, TypeOK
  <2>. QED
    BY <1>0, <1>2, <2>1, <2>2, <2>3 DEF Blank
<1>13. Inside'
  <2>1. \A b \in Actors : call'[b].at \in {"require", "resume", "siste", "clode"} => call'[b].s \in Sessions
    BY <1>0, <1>10 DEF Inside, CallsKept
  <2>2. \A q \in Requests : request'[q].at \in {"waiting", "head", "proceeding", "content", "told"} =>
                                request'[q].session \in Sessions
    BY <1>0, <1>9 DEF Inside, Like
  <2>3. \A x \in Sessions : Living(x)' => (session[x].queue)'
    BY <1>0, <1>4 DEF Inside, Living
  <2>. QED
    BY <2>1, <2>2, <2>3 DEF Inside
<1>14. CarriedOnce'
  <2>1. \A b \in Actors : (Asking(b)' <=> Asking(b)) /\ (Asking(b) => call'[b].r = call[b].r)
    BY <1>10 DEF Asking, CallsKept
  <2>2. \A q \in Requests : request'[q].at = "made" <=> request[q].at = "made"
    BY <1>9
  <2>. QED
    BY <1>0, <2>1, <2>2, CarriedSame
<1>15. WaitingOnce'
  <2>1. Placing
    BY <1>0 DEF Placing, Inside
  <2>2. /\ \A x \in Sessions : session[x].waiting \in Seq(Requests)
        /\ \A x \in Sessions : x # s => session'[x].waiting = session[x].waiting
        /\ session'[s].waiting = <<>> /\ WaitingOnce
    BY <1>0, <1>4, Types
  <2>3. /\ \A i \in 1 .. Len(session[s].waiting) : request'[session[s].waiting[i]].at # "waiting"
        /\ \A q \in Requests : (\A i \in 1 .. Len(session[s].waiting) : session[s].waiting[i] # q) =>
              /\ request'[q].at = "waiting" <=> request[q].at = "waiting"
              /\ request[q].at = "waiting" => request'[q].session = request[q].session
    BY <1>5 DEF w
  <2>. QED
    BY <2>1, <2>2, <2>3, WaitingNone
<1>16. ToldOnce'
  <2>1. \A i \in 1 .. Len(w) : request[w[i]].at # "told"
    BY <1>6
  <2>2. request \in [Requests -> Request]
    BY <1>0 DEF TypeOK
  <2>3. w \in Seq(Requests)
    BY <1>1
  <2>. QED
    BY <1>0, <1>1, <1>3, <1>7, <2>1, <2>2, <2>3, Tells
<1>17. \A x \in Sessions : Serving(x)'
  <2>. TAKE x \in Sessions
  <2>1. \A q \in Requests : Fly(q, x)' <=> Fly(q, x)
    BY <1>9 DEF Fly
  <2>2. CASE x = s
    <3>1. ~Living(s)'
      BY <1>4 DEF Living
    <3>. QED
      BY <1>0, <1>2, <1>4, <2>1, <2>2, <3>1, ServingDead
  <2>3. CASE x # s
    <3>1. Untouched(x)
      BY <1>2, <1>4, <1>10, <2>1, <2>3 DEF Untouched, Quiet, CallsKept, Res, Stp
    <3>. QED
      BY <1>0, <3>1, ServingSame
  <2>. QED
    BY <2>2, <2>3
<1>18. Unanswered' /\ AnswersOwn'
  BY <1>0, <1>2, <1>9 DEF Unanswered, AnswersOwn, Like
<1>19. Downloading'
  <2>1. \A y \in Downloads : SameLoad(y) /\ SameRequests(y)
    BY <1>2, <1>9 DEF SameLoad, SameRequests, Like, Live
  <2>2. \A i \in 1 .. Len(reports') : reports'[i].how = "done" => \E k \in 1 .. Len(reports) : reports[k] = reports'[i]
    <3>1. CASE ~session[s].queue
      BY <1>8, <3>1
    <3>2. CASE session[s].queue
      <4>. SUFFICES ASSUME NEW i \in 1 .. Len(reports'), reports'[i].how = "done"
                    PROVE  \E k \in 1 .. Len(reports) : reports[k] = reports'[i]
        OBVIOUS
      <4>1. Len(reports) \in Nat /\ Len(w) \in Nat
        BY <1>1, ElementFacts
      <4>2. CASE i \in 1 .. Len(reports)
        BY <1>8, <3>2, <4>2
      <4>3. CASE i \notin 1 .. Len(reports)
        <5>1. i - Len(reports) \in 1 .. Len(w) /\ Len(reports) + (i - Len(reports)) = i
          BY <1>8, <3>2, <4>1, <4>3
        <5>2. reports'[i] = [r |-> w[i - Len(reports)], how |-> how]
          BY <1>8, <3>2, <5>1
        <5>. QED
          BY <5>2
      <4>. QED
        BY <4>2, <4>3
    <3>. QED
      BY <3>1, <3>2
  <2>3. \A y \in Downloads : Steady(y)
    BY <2>1, <2>2 DEF Steady, SameReports
  <2>. QED
    BY <1>0, <2>3, DownloadingSame
<1>. QED
  BY <1>11, <1>12, <1>13, <1>14, <1>15, <1>16, <1>17, <1>18, <1>19, Whole

LEMMA SisteKeeps ==
    ASSUME Base, NEW a \in Actors, Siste(a)
    PROVE  Base'
<1>0. TypeOK /\ Blank /\ Inside
  BY Parts
<1>1. call[a].at = "siste" /\ call[a].s \in Sessions /\ call[a].s <= opened
  BY <1>0, Numbers DEF Siste, At, Inside, Blank
<1>2. call' \in [Actors -> CallRecord]
  BY <1>0, Returning DEF Siste
<1>3. CallsKept(call[a].s)
  BY <1>0, <1>1 DEF CallsKept, Siste, Return, TypeOK
<1>4. table' \subseteq table /\ lock' \in Actors \cup {None}
  BY <1>0 DEF Siste, TypeOK
<1>5. /\ Stop(call[a].s, "failed", "failed")
      /\ UNCHANGED <<opened, operating, made, load, faults, raced>>
  BY DEF Siste
<1>. QED
  BY <1>1, <1>2, <1>3, <1>4, <1>5, StopKeeps

LEMMA CloseExpiredKeeps ==
    ASSUME Base, CloseExpired
    PROVE  Base'
<1>0. TypeOK /\ Blank /\ Inside
  BY Parts
<1>. DEFINE s == call[Timer].s
<1>1. Timer \in Actors /\ call[Timer].at = "clode" /\ s \in Sessions /\ s <= opened
  BY <1>0, Numbers DEF CloseExpired, At, Inside, Blank, Actors
<1>2. call' \in [Actors -> CallRecord]
  BY <1>0, <1>1, Returning DEF CloseExpired
<1>3. CallsKept(s)
  BY <1>0, <1>1 DEF CallsKept, CloseExpired, Return, TypeOK
<1>4. table' \subseteq table /\ lock' \in Actors \cup {None}
  BY <1>0 DEF CloseExpired, TypeOK
<1>5. /\ Stop(s, "closed", "cancelled")
      /\ UNCHANGED <<opened, operating, made, load, faults, raced>>
  BY DEF CloseExpired
<1>. QED
  BY <1>1, <1>2, <1>3, <1>4, <1>5, StopKeeps

(* The manager's lock is taken or given back, and nothing else happens.    *)
LEMMA LockKeeps ==
    ASSUME Base, NEW a \in Actors, call[a].at \in {"idle", "closing"},
           call' \in [Actors -> CallRecord], call'[a].at \in {"idle", "closing", "clode"},
           call'[a].s # None => call'[a].s <= opened, call'[a].at = "clode" => call'[a].s \in Sessions,
           \A b \in Actors : b # a => call'[b] = call[b],
           operating' \in BOOLEAN, lock' \in Actors \cup {None},
           UNCHANGED <<session, opened, table, request, made, reports, load, faults, raced>>
    PROVE  Base'
<1>0. /\ TypeOK /\ Blank /\ Inside /\ CarriedOnce /\ WaitingOnce /\ ToldOnce
      /\ (\A x \in Sessions : Serving(x)) /\ Unanswered /\ AnswersOwn /\ Downloading
  BY Parts
<1>1. /\ session' = session /\ opened' = opened /\ table' = table /\ request' = request
      /\ made' = made /\ reports' = reports /\ load' = load /\ faults' = faults /\ raced' = raced
  OBVIOUS
<1>2. TypeOK'
  BY <1>0, <1>1 DEF TypeOK, CallRecord
<1>3. Blank'
  BY <1>0, <1>1 DEF Blank
<1>4. Inside'
  BY <1>0, <1>1 DEF Inside, Living
<1>5. CarriedOnce'
  BY <1>0, <1>1, CarriedSame DEF Asking
<1>6. WaitingOnce' /\ ToldOnce'
  BY <1>0, <1>1 DEF WaitingOnce, ToldOnce
<1>7. \A x \in Sessions : Serving(x)'
  <2>. TAKE x \in Sessions
  <2>1. Untouched(x)
    BY <1>1 DEF Untouched, Quiet, Res, Stp, Fly
  <2>. QED
    BY <1>0, <2>1, ServingSame
<1>8. Unanswered' /\ AnswersOwn'
  BY <1>0, <1>1 DEF Unanswered, AnswersOwn
<1>9. Downloading'
  <2>1. \A y \in Downloads : Steady(y)
    BY <1>1 DEF Steady, SameLoad, SameRequests, SameReports
  <2>. QED
    BY <1>0, <2>1, DownloadingSame
<1>. QED
  BY <1>2, <1>3, <1>4, <1>5, <1>6, <1>7, <1>8, <1>9, Whole

LEMMA ExpireKeeps ==
    ASSUME Base, NEW s \in Sessions, Expire(s)
    PROVE  Base'
<1>0. TypeOK /\ Blank
  BY Parts
<1>1. Timer \in Actors /\ call[Timer].at = "idle" /\ s <= opened
  BY <1>0 DEF Expire, Free, At, Actors, Blank
<1>2. /\ call'[Timer].at = "clode" /\ call'[Timer].s = s
      /\ \A b \in Actors : b # Timer => call'[b] = call[b]
      /\ call' \in [Actors -> CallRecord]
  BY <1>0, <1>1, Going DEF Expire, Stages
<1>3. operating' \in BOOLEAN /\ lock' \in Actors \cup {None}
      /\ UNCHANGED <<session, opened, table, request, made, reports, load, faults, raced>>
  BY <1>0, <1>1 DEF Expire, TypeOK
<1>. QED
  BY <1>1, <1>2, <1>3, LockKeeps

LEMMA CloseManagerKeeps ==
    ASSUME Base, NEW t \in Threads, CloseManager(t)
    PROVE  Base'
<1>0. TypeOK
  BY Parts
<1>1. t \in Actors /\ call[t].at = "idle"
  BY DEF CloseManager, Free, At, Actors
<1>2. /\ call'[t].at = "closing" /\ call'[t].s = None
      /\ \A b \in Actors : b # t => call'[b] = call[b]
      /\ call' \in [Actors -> CallRecord]
  BY <1>0, <1>1, Going DEF CloseManager, Stages
<1>3. operating' \in BOOLEAN /\ lock' \in Actors \cup {None}
      /\ UNCHANGED <<session, opened, table, request, made, reports, load, faults, raced>>
  BY <1>1 DEF CloseManager
<1>. QED
  BY <1>1, <1>2, <1>3, LockKeeps

LEMMA CloseNextKeeps ==
    ASSUME Base, NEW t \in Threads, CloseNext(t)
    PROVE  Base'
<1>0. TypeOK /\ Blank
  BY Parts
<1>1. t \in Actors /\ call[t].at = "closing"
  BY DEF CloseNext, At, Actors
<1>2. CASE table = {}
  <2>1. /\ call'[t].at = "idle" /\ call'[t].s = None
        /\ \A b \in Actors : b # t => call'[b] = call[b]
        /\ call' \in [Actors -> CallRecord]
    BY <1>0, <1>1, <1>2, Returning DEF CloseNext
  <2>2. operating' \in BOOLEAN /\ lock' \in Actors \cup {None}
        /\ UNCHANGED <<session, opened, table, request, made, reports, load, faults, raced>>
    BY <1>0, <1>2 DEF CloseNext, TypeOK
  <2>. QED
    BY <1>1, <2>1, <2>2, LockKeeps
<1>3. CASE table # {}
  <2>1. PICK s \in table : /\ Stop(s, "closed", "cancelled") /\ table' = table \ {s}
                           /\ UNCHANGED <<lock, call>>
    BY <1>3 DEF CloseNext
  <2>2. s \in Sessions /\ s <= opened
    BY <1>0, <2>1 DEF TypeOK, Blank
  <2>3. call' \in [Actors -> CallRecord] /\ CallsKept(s)
    BY <1>0, <2>1 DEF TypeOK, CallRecord, CallsKept
  <2>4. table' \subseteq table /\ lock' \in Actors \cup {None}
        /\ UNCHANGED <<opened, operating, made, load, faults, raced>>
    BY <1>0, <2>1 DEF TypeOK, CloseNext
  <2>. QED
    BY <2>1, <2>2, <2>3, <2>4, StopKeeps
<1>. QED
  BY <1>2, <1>3

----------------------------------------------------------------------------
(* A connection is made or not.                                            *)
LEMMA LinkMade ==
    ASSUME Base, NEW s \in Sessions, Free(Dispatcher), session[s].channel = "connecting",
           NEW at \in {"resume", "siste"}, Goto(Dispatcher, at, None, s),
           NEW new \in Session, session' = [session EXCEPT ![s] = new],
           new.status = session[s].status, new.waiting = session[s].waiting, new.queue = session[s].queue,
           \/ at = "resume" /\ new.busy = session[s].busy /\ new.channel = "open"
           \/ at = "siste" /\ ~new.busy /\ new.channel = "closed",
           faults' \in Nat,
           UNCHANGED <<opened, table, operating, lock, request, made, reports, load, raced>>
    PROVE  Base'
<1>0. /\ TypeOK /\ Blank /\ Inside /\ CarriedOnce /\ WaitingOnce /\ ToldOnce
      /\ (\A x \in Sessions : Serving(x)) /\ Unanswered /\ AnswersOwn /\ Downloading
  BY Parts
<1>1. /\ opened' = opened /\ table' = table /\ operating' = operating /\ lock' = lock
      /\ made' = made /\ reports' = reports /\ load' = load /\ request' = request /\ raced' = raced
  OBVIOUS
<1>2. Dispatcher \in Actors /\ call[Dispatcher].at = "idle"
  BY DEF Actors, Free, At
<1>3. /\ session' \in [Sessions -> Session] /\ session'[s] = new
      /\ \A x \in Sessions : x # s => session'[x] = session[x]
  BY <1>0, SessionPut
<1>4. /\ call'[Dispatcher].at = at /\ call'[Dispatcher].s = s
      /\ \A b \in Actors : b # Dispatcher => call'[b] = call[b]
      /\ call' \in [Actors -> CallRecord]
  <2>1. at \in Stages
    BY DEF Stages
  <2>. QED
    BY <1>0, <1>2, <2>1, Going
<1>5. s <= opened /\ ~(s > opened)
  <2>1. ~(s > opened)
    BY <1>0 DEF Blank, NoSession
  <2>. QED
    BY <1>0, <2>1, Numbers DEF TypeOK
<1>6. TypeOK'
  BY <1>0, <1>1, <1>3, <1>4 DEF TypeOK, CallRecord
<1>7. Blank'
  BY <1>0, <1>1, <1>3, <1>4, <1>5 DEF Blank
<1>8. Inside'
  BY <1>0, <1>1, <1>3, <1>4 DEF Inside, Living
<1>9. CarriedOnce'
  BY <1>0, <1>1, <1>2, <1>4, CarriedSame DEF Asking
<1>10. WaitingOnce'
  BY <1>0, <1>1, <1>3, WaitingSame, Types DEF Placing, Inside
<1>11. ToldOnce'
  BY <1>0, <1>1 DEF ToldOnce
<1>12. \A x \in Sessions : Serving(x)'
  <2>. TAKE x \in Sessions
  <2>1. CASE x # s
    <3>1. Untouched(x)
      BY <1>1, <1>2, <1>3, <1>4, <2>1 DEF Untouched, Quiet, Res, Stp, Fly
    <3>. QED
      BY <1>0, <3>1, ServingSame
  <2>2. CASE x = s
    <3>1. Serving(s) /\ Connecting(s)
      BY <1>0 DEF Connecting
    <3>2. /\ \A q \in Requests : Fly(q, s)' <=> Fly(q, s)
          /\ SomeFly(s)' <=> SomeFly(s)
          /\ Living(s)' <=> Living(s)
          /\ ~Connecting(s)'
      BY <1>1, <1>3 DEF Fly, SomeFly, Living, Connecting
    <3>3. \A b \in Actors : b # Dispatcher => (Res(b, s)' <=> Res(b, s))
      BY <1>4 DEF Res
    <3>4. SomeRes(s)' \/ (SomeStp(s)' /\ ~session'[s].busy)
      BY <1>2, <1>3, <1>4 DEF SomeRes, SomeStp, Res, Stp
    <3>5. s \notin raced /\ Living(s) => session[s].busy /\ ~SomeRes(s) /\ ~SomeFly(s)
      BY <3>1 DEF Serving, LinkAlone
    <3>6. Awaited(s)' /\ Worked(s)'
      BY <3>4 DEF Awaited, Worked
    <3>7. Emptied(s)'
      BY <1>3, <3>1, <3>2 DEF Serving, Emptied
    <3>8. OneFly(s)'
      BY <1>1, <3>1, <3>2 DEF Serving, OneFly
    <3>9. OneRes(s)'
      BY <1>1, <3>2, <3>3, <3>5 DEF OneRes, SomeRes
    <3>10. FlyAlone(s)' /\ LinkAlone(s)'
      BY <1>1, <3>2, <3>5 DEF FlyAlone, LinkAlone
    <3>. QED
      BY <2>2, <3>6, <3>7, <3>8, <3>9, <3>10 DEF Serving
  <2>. QED
    BY <2>1, <2>2
<1>13. Unanswered' /\ AnswersOwn'
  BY <1>0, <1>1 DEF Unanswered, AnswersOwn
<1>14. Downloading'
  <2>1. \A y \in Downloads : Steady(y)
    BY <1>1 DEF Steady, SameLoad, SameRequests, SameReports
  <2>. QED
    BY <1>0, <2>1, DownloadingSame
<1>. QED
  BY <1>6, <1>7, <1>8, <1>9, <1>10, <1>11, <1>12, <1>13, <1>14, Whole

LEMMA ConnectedKeeps ==
    ASSUME Base, NEW s \in Sessions, Connected(s)
    PROVE  Base'
<1>. DEFINE new == [session[s] EXCEPT !.channel = "open"]
<1>0. TypeOK /\ session[s] \in Session
  BY Parts, Types
<1>1. /\ new \in Session /\ new.status = session[s].status /\ new.waiting = session[s].waiting
      /\ new.queue = session[s].queue /\ new.busy = session[s].busy /\ new.channel = "open"
  BY <1>0 DEF Session
<1>2. session' = [session EXCEPT ![s] = new]
  BY DEF Connected
<1>. HIDE DEF new
<1>3. /\ Free(Dispatcher) /\ session[s].channel = "connecting" /\ Goto(Dispatcher, "resume", None, s)
      /\ faults' \in Nat
      /\ UNCHANGED <<opened, table, operating, lock, request, made, reports, load, raced>>
  BY <1>0 DEF Connected, TypeOK
<1>. QED
  BY <1>1, <1>2, <1>3, LinkMade

LEMMA ConnectFailsKeeps ==
    ASSUME Base, NEW s \in Sessions, ConnectFails(s)
    PROVE  Base'
<1>. DEFINE new == [[session[s] EXCEPT !.channel = "closed"] EXCEPT !.busy = FALSE]
<1>0. TypeOK /\ session[s] \in Session
  BY Parts, Types
<1>1. /\ new \in Session /\ new.status = session[s].status /\ new.waiting = session[s].waiting
      /\ new.queue = session[s].queue /\ ~new.busy /\ new.channel = "closed"
  BY <1>0 DEF Session
<1>2. session' = [session EXCEPT ![s] = new]
  BY DEF ConnectFails
<1>. HIDE DEF new
<1>3. /\ Free(Dispatcher) /\ session[s].channel = "connecting" /\ Goto(Dispatcher, "siste", None, s)
      /\ faults' \in Nat
      /\ UNCHANGED <<opened, table, operating, lock, request, made, reports, load, raced>>
  BY <1>0 DEF ConnectFails, TypeOK
<1>. QED
  BY <1>1, <1>2, <1>3, LinkMade

----------------------------------------------------------------------------
(* Whoever resumes a session sends its next request.                       *)
LEMMA SendingFacts ==
    ASSUME TypeOK, NEW s \in Sessions, session[s].waiting # <<>>
    PROVE  /\ Sending(s) \in Session /\ Sending(s).status = "active" /\ Sending(s).busy
           /\ Sending(s).waiting = Tail(session[s].waiting)
           /\ Sending(s).queue = session[s].queue /\ Sending(s).channel = session[s].channel
<1>1. session[s] \in Session /\ Tail(session[s].waiting) \in Seq(Requests)
  BY Types, TailFacts
<1>. QED
  BY <1>1 DEF Sending, Session

\* The next request of a session.
LEMMA NextFacts ==
    ASSUME TypeOK, Blank, WaitingOnce, NEW s \in Sessions, session[s].waiting # <<>>
    PROVE  /\ Head(session[s].waiting) \in Requests
           /\ request[Head(session[s].waiting)].at = "waiting"
           /\ request[Head(session[s].waiting)].session = s
           /\ ~(Head(session[s].waiting) > made)
<1>1. session[s].waiting \in Seq(Requests)
  BY Types
<1>2. /\ Len(session[s].waiting) \in Nat \ {0} /\ Head(session[s].waiting) \in Requests
      /\ Head(session[s].waiting) = session[s].waiting[1]
  BY <1>1, TailFacts
<1>3. 1 \in 1 .. Len(session[s].waiting)
  BY <1>2
<1>4. request[Head(session[s].waiting)].at = "waiting" /\ request[Head(session[s].waiting)].session = s
  BY <1>2, <1>3 DEF WaitingOnce
<1>. QED
  BY <1>2, <1>4 DEF Blank, NoRequest

LEMMA ResumeSends ==
    ASSUME Base, NEW a \in Actors, call[a].at = "resume", NEW s \in Sessions, call[a].s = s, Living(s),
           session[s].waiting # <<>>, NEW h \in Requests, h = Head(session[s].waiting),
           session' = [session EXCEPT ![s] = Sending(s)], session[s].channel = "open",
           request' = [request EXCEPT ![h].at = "head"], Return(a),
           UNCHANGED <<opened, table, operating, lock, made, reports, load, faults, raced>>
    PROVE  Base'
<1>0. /\ TypeOK /\ Blank /\ Inside /\ CarriedOnce /\ WaitingOnce /\ ToldOnce
      /\ (\A x \in Sessions : Serving(x)) /\ Unanswered /\ AnswersOwn /\ Downloading
  BY Parts
<1>1. /\ opened' = opened /\ table' = table /\ operating' = operating /\ lock' = lock
      /\ made' = made /\ reports' = reports /\ load' = load /\ faults' = faults /\ raced' = raced
  OBVIOUS
<1>2. request[h].at = "waiting" /\ request[h].session = s /\ ~(h > made)
  BY <1>0, NextFacts
<1>3. /\ session' \in [Sessions -> Session]
      /\ session'[s].status = "active" /\ session'[s].busy /\ session'[s].queue = session[s].queue
      /\ session'[s].waiting = Tail(session[s].waiting) /\ session'[s].channel = session[s].channel
      /\ \A x \in Sessions : x # s => session'[x] = session[x]
  BY <1>0, SendingFacts, SessionPut
<1>4. /\ request' \in [Requests -> Request] /\ request'[h].at = "head" /\ Like(request'[h], request[h])
      /\ \A q \in Requests : q # h => request'[q] = request[q]
  <2>1. request' = MovedTo(request, h, "head")
    BY DEF MovedTo
  <2>2. request \in [Requests -> Request] /\ "head" \in Places
    BY <1>0 DEF TypeOK, Places
  <2>3. /\ MovedTo(request, h, "head") \in [Requests -> Request]
        /\ MovedTo(request, h, "head")[h].at = "head" /\ Like(MovedTo(request, h, "head")[h], request[h])
        /\ \A q \in Requests : q # h => MovedTo(request, h, "head")[q] = request[q]
    BY <2>2, MovedFacts
  <2>. QED
    BY <2>1, <2>3
<1>5. /\ call'[a].at = "idle" /\ call'[a].s = None
      /\ \A b \in Actors : b # a => call'[b] = call[b]
      /\ call' \in [Actors -> CallRecord]
  BY <1>0, Returning
<1>6. TypeOK'
  BY <1>0, <1>1, <1>3, <1>4, <1>5 DEF TypeOK, CallRecord
<1>7. Blank'
  <2>1. s <= opened /\ ~(s > opened)
    BY <1>0, Numbers DEF Blank, TypeOK
  <2>. QED
    <3>1. \A q \in Requests : /\ q > made => q # h
                              /\ request'[q].load = request[q].load /\ request'[q].session = request[q].session
      BY <1>2, <1>4 DEF Like
    <3>2. \A q \in Requests : /\ q > made' => request'[q] = NoRequest
                              /\ q <= made' => request'[q].at # "unmade" /\ request'[q].load \in Downloads
                              /\ request'[q].session # None => request'[q].session <= opened'
      BY <1>0, <1>1, <1>4, <3>1 DEF Blank
    <3>3. \A b \in Actors : call'[b].s # None => call'[b].s <= opened'
      BY <1>0, <1>1, <1>5 DEF Blank
    <3>4. \A x \in Sessions : x > opened' => session'[x] = NoSession
      BY <1>0, <1>1, <1>3, <2>1 DEF Blank
    <3>5. /\ \A x \in table' : x <= opened'
          /\ \A y \in Downloads : load'[y].state = "none" => load'[y] = NewLoad
      BY <1>0, <1>1 DEF Blank
    <3>. QED
      BY <3>2, <3>3, <3>4, <3>5 DEF Blank
<1>8. Inside'
  BY <1>0, <1>2, <1>3, <1>4, <1>5 DEF Inside, Living, Like
<1>9. CarriedOnce'
  BY <1>0, <1>2, <1>4, <1>5, CarriedSame DEF Asking
<1>10. WaitingOnce'
  <2>1. Placing /\ WaitingOnce
    BY <1>0 DEF Placing, Inside
  <2>2. /\ \A x \in Sessions : session[x].waiting \in Seq(Requests)
        /\ session'[s].waiting = Tail(session[s].waiting)
        /\ \A x \in Sessions : x # s => session'[x].waiting = session[x].waiting
    BY <1>0, <1>3, Types
  <2>3. /\ request'[Head(session[s].waiting)].at # "waiting"
        /\ \A q \in Requests : q # Head(session[s].waiting) =>
               /\ request'[q].at = "waiting" <=> request[q].at = "waiting"
               /\ request[q].at = "waiting" => request'[q].session = request[q].session
    BY <1>4
  <2>. QED
    BY <2>1, <2>2, <2>3, WaitingLess
<1>11. ToldOnce'
  BY <1>0, <1>1, <1>2, <1>4, ToldSame, Types
<1>12. \A x \in Sessions : Serving(x)'
  <2>. TAKE x \in Sessions
  <2>1. CASE x # s
    <3>1. Untouched(x)
      BY <1>1, <1>2, <1>3, <1>4, <1>5, <2>1 DEF Untouched, Quiet, Res, Stp, Fly, Like
    <3>. QED
      BY <1>0, <3>1, ServingSame
  <2>2. CASE x = s
    <3>1. Serving(s) /\ SomeRes(s) /\ Res(a, s)
      BY <1>0 DEF Res, SomeRes
    <3>2. Fly(h, s)' /\ SomeFly(s)'
      BY <1>2, <1>4 DEF Fly, SomeFly, Like
    <3>3. \A q \in Requests : q # h => (Fly(q, s)' <=> Fly(q, s))
      BY <1>4 DEF Fly
    <3>4. s \notin raced => ~SomeFly(s)
      BY <3>1 DEF Serving, FlyAlone
    <3>5. s \notin raced => ~SomeRes(s)'
      BY <1>5, <3>1 DEF Serving, OneRes, SomeRes, Res
    <3>6. Living(s)' /\ session'[s].busy /\ ~Connecting(s)'
      BY <1>3 DEF Living, Connecting
    <3>7. OneFly(s)'
      BY <1>1, <3>3, <3>4 DEF OneFly, SomeFly
    <3>8. OneRes(s)' /\ FlyAlone(s)' /\ LinkAlone(s)'
      BY <1>1, <3>5, <3>6 DEF OneRes, FlyAlone, LinkAlone, SomeRes
    <3>9. Awaited(s)' /\ Worked(s)' /\ Emptied(s)'
      BY <3>2, <3>6 DEF Awaited, Worked, Emptied
    <3>. QED
      BY <2>2, <3>7, <3>8, <3>9 DEF Serving
  <2>. QED
    BY <2>1, <2>2
<1>13. Unanswered' /\ AnswersOwn'
  BY <1>0, <1>1, <1>4 DEF Unanswered, AnswersOwn, Like
<1>14. Downloading'
  <2>1. \A y \in Downloads : Steady(y)
    <3>. TAKE y \in Downloads
    <3>1. SameLoad(y)
      BY <1>1 DEF SameLoad
    <3>2. \A q \in Requests : request'[q].load = request[q].load /\ request'[q].code = request[q].code
                              /\ (request'[q].at = request[q].at \/ (q = h /\ request'[q].at = "head"))
      BY <1>4 DEF Like
    <3>3. request[h].at \in Live
      BY <1>2 DEF Live
    <3>4. SameRequests(y)
      BY <3>2, <3>3 DEF SameRequests
    <3>5. SameReports(y)
      BY <1>1 DEF SameReports
    <3>. QED
      BY <3>1, <3>4, <3>5 DEF Steady
  <2>. QED
    BY <1>0, <2>1, DownloadingSame
<1>. QED
  BY <1>6, <1>7, <1>8, <1>9, <1>10, <1>11, <1>12, <1>13, <1>14, Whole

\* The reports grow by failures only.
LEMMA NothingDone ==
    ASSUME reports \in Seq(Report1), NEW s \in Sessions, NEW rs \in Seq(Requests),
           NEW how \in {"failed", "cancelled"}, reports' = Told(s, rs, how)
    PROVE  \A i \in 1 .. Len(reports') : reports'[i].how = "done" =>
               \E k \in 1 .. Len(reports) : reports[k] = reports'[i]
<1>1. Len(reports) \in Nat /\ Len(rs) \in Nat
  BY ElementFacts
<1>2. /\ ~session[s].queue => reports' = reports
      /\ session[s].queue =>
           /\ Len(reports') = Len(reports) + Len(rs)
           /\ \A i \in 1 .. Len(reports) : reports'[i] = reports[i]
           /\ \A i \in 1 .. Len(rs) : reports'[Len(reports) + i] = [r |-> rs[i], how |-> how]
  <2>1. how \in Outcomes
    BY DEF Outcomes
  <2>. QED
    BY <2>1, ToldFacts
<1>3. CASE ~session[s].queue
  BY <1>2, <1>3
<1>4. CASE session[s].queue
  <2>. SUFFICES ASSUME NEW i \in 1 .. Len(reports'), reports'[i].how = "done"
                PROVE  \E k \in 1 .. Len(reports) : reports[k] = reports'[i]
    OBVIOUS
  <2>1. CASE i \in 1 .. Len(reports)
    BY <1>2, <1>4, <2>1
  <2>2. CASE i \notin 1 .. Len(reports)
    <3>1. i - Len(reports) \in 1 .. Len(rs) /\ Len(reports) + (i - Len(reports)) = i
      BY <1>1, <1>2, <1>4, <2>2
    <3>2. reports'[i] = [r |-> rs[i - Len(reports)], how |-> how]
      BY <1>2, <1>4, <3>1
    <3>. QED
      BY <3>2
  <2>. QED
    BY <2>1, <2>2
<1>. QED
  BY <1>3, <1>4

\* One request is told of.
PlacedOne(rq, s, r) == Placed(rq, s, <<r>>)
ToldOne(s, r, how) == Told(s, <<r>>, how)
LEMMA OneTold ==
    ASSUME NEW rq \in [Requests -> Request], NEW s \in Sessions, NEW r \in Requests
    PROVE  /\ PlacedOne(rq, s, r) \in [Requests -> Request]
           /\ PlacedOne(rq, s, r)[r].at = (IF session[s].queue THEN "told" ELSE "lost")
           /\ Like(PlacedOne(rq, s, r)[r], rq[r])
           /\ \A q \in Requests : q # r => PlacedOne(rq, s, r)[q] = rq[q]
<1>. DEFINE rs == <<r>>
<1>1. rs \in Seq(Requests) /\ Len(rs) = 1 /\ rs[1] = r
  BY OneOf
<1>2. PlacedOne(rq, s, r) = Placed(rq, s, rs)
  BY DEF PlacedOne
<1>. HIDE DEF rs
<1>3. 1 \in 1 .. Len(rs) /\ \A i \in 1 .. Len(rs) : rs[i] = r
  BY <1>1
<1>4. /\ Placed(rq, s, rs) \in [Requests -> Request]
      /\ \A i \in 1 .. Len(rs) : /\ rs[i] \in Requests /\ Like(Placed(rq, s, rs)[rs[i]], rq[rs[i]])
                                 /\ Placed(rq, s, rs)[rs[i]].at = IF session[s].queue THEN "told" ELSE "lost"
      /\ \A q \in Requests : (\A i \in 1 .. Len(rs) : rs[i] # q) => Placed(rq, s, rs)[q] = rq[q]
  BY <1>1, PlacedFacts
<1>. QED
  BY <1>1, <1>2, <1>3, <1>4

LEMMA OneReport ==
    ASSUME reports \in Seq(Report1), NEW s \in Sessions, NEW r \in Requests, NEW how \in Outcomes
    PROVE  /\ ToldOne(s, r, how) \in Seq(Report1)
           /\ \A i \in 1 .. Len(ToldOne(s, r, how)) :
                  \/ \E k \in 1 .. Len(reports) : reports[k] = ToldOne(s, r, how)[i]
                  \/ ToldOne(s, r, how)[i] = [r |-> r, how |-> how]
<1>1. PICK rs \in Seq(Requests) : rs = <<r>> /\ Len(rs) = 1 /\ rs[1] = r
  BY OneOf
<1>2. ToldOne(s, r, how) = Told(s, rs, how)
  BY <1>1 DEF ToldOne
<1>3. Told(s, rs, how) \in Seq(Report1) /\ (~session[s].queue => Told(s, rs, how) = reports)
  BY ToldFacts
<1>4. session[s].queue =>
           /\ Len(Told(s, rs, how)) = Len(reports) + Len(rs)
           /\ \A i \in 1 .. Len(reports) : Told(s, rs, how)[i] = reports[i]
           /\ \A i \in 1 .. Len(rs) : Told(s, rs, how)[Len(reports) + i] = [r |-> rs[i], how |-> how]
  BY ToldFacts
<1>5. Len(reports) \in Nat
  BY ElementFacts
<1>6. \A i \in 1 .. Len(Told(s, rs, how)) : \/ \E k \in 1 .. Len(reports) : reports[k] = Told(s, rs, how)[i]
                                            \/ Told(s, rs, how)[i] = [r |-> r, how |-> how]
  <2>. TAKE i \in 1 .. Len(Told(s, rs, how))
  <2>1. CASE ~session[s].queue
    BY <1>3, <2>1
  <2>2. CASE session[s].queue /\ i \in 1 .. Len(reports)
    BY <1>4, <2>2
  <2>3. CASE session[s].queue /\ i \notin 1 .. Len(reports)
    <3>1. i = Len(reports) + 1 /\ 1 \in 1 .. Len(rs)
      BY <1>1, <1>4, <1>5, <2>3
    <3>. QED
      BY <1>1, <1>4, <2>3, <3>1
  <2>. QED
    BY <2>1, <2>2, <2>3
<1>. QED
  BY <1>2, <1>3, <1>6

LEMMA ResumeFails ==
    ASSUME Base, NEW a \in Actors, call[a].at = "resume", NEW s \in Sessions, call[a].s = s, Living(s),
           session[s].waiting # <<>>, NEW h \in Requests, h = Head(session[s].waiting),
           session' = [session EXCEPT ![s] = Sending(s)], session[s].channel # "open", Fails(a, h),
           UNCHANGED <<opened, table, operating, lock, made, load, faults, raced>>
    PROVE  Base'
<1>0. /\ TypeOK /\ Blank /\ Inside /\ CarriedOnce /\ WaitingOnce /\ ToldOnce
      /\ (\A x \in Sessions : Serving(x)) /\ Unanswered /\ AnswersOwn /\ Downloading
  BY Parts
<1>1. /\ opened' = opened /\ table' = table /\ operating' = operating /\ lock' = lock
      /\ made' = made /\ load' = load /\ faults' = faults /\ raced' = raced
  OBVIOUS
<1>2. request[h].at = "waiting" /\ request[h].session = s /\ ~(h > made)
  BY <1>0, NextFacts
<1>3. /\ session' \in [Sessions -> Session]
      /\ session'[s].status = "active" /\ session'[s].busy /\ session'[s].queue = session[s].queue
      /\ session'[s].waiting = Tail(session[s].waiting) /\ session'[s].channel = session[s].channel
      /\ \A x \in Sessions : x # s => session'[x] = session[x]
  BY <1>0, SendingFacts, SessionPut
<1>4. /\ reports' = Told(s, <<h>>, "failed") /\ request' = Placed(request, s, <<h>>)
      /\ Goto(a, "siste", None, s)
  BY <1>2 DEF Fails
<1>5. /\ request' \in [Requests -> Request] /\ reports' \in Seq(Report1)
      /\ request'[h].at \in {"told", "lost"} /\ Like(request'[h], request[h])
      /\ \A q \in Requests : q # h => request'[q] = request[q]
  <2>1. request \in [Requests -> Request] /\ reports \in Seq(Report1) /\ "failed" \in Outcomes
    BY <1>0, Types DEF TypeOK, Outcomes
  <2>2. reports' = ToldOne(s, h, "failed") /\ request' = PlacedOne(request, s, h)
    BY <1>4 DEF ToldOne, PlacedOne
  <2>3. /\ PlacedOne(request, s, h) \in [Requests -> Request]
        /\ PlacedOne(request, s, h)[h].at = (IF session[s].queue THEN "told" ELSE "lost")
        /\ Like(PlacedOne(request, s, h)[h], request[h])
        /\ \A q \in Requests : q # h => PlacedOne(request, s, h)[q] = request[q]
    BY <2>1, OneTold
  <2>4. ToldOne(s, h, "failed") \in Seq(Report1)
    BY <2>1, OneReport
  <2>. QED
    BY <2>2, <2>3, <2>4
<1>6. /\ call'[a].at = "siste" /\ call'[a].s = s
      /\ \A b \in Actors : b # a => call'[b] = call[b]
      /\ call' \in [Actors -> CallRecord]
  <2>1. "siste" \in Stages /\ None \in Requests \cup {None} /\ s \in Sessions \cup {None}
    BY <1>2 DEF Stages
  <2>. QED
    BY <1>0, <1>4, <2>1, Going
<1>7. TypeOK'
  BY <1>0, <1>1, <1>3, <1>5, <1>6 DEF TypeOK, CallRecord, Report1
<1>8. Blank'
  <2>1. s <= opened /\ ~(s > opened)
    BY <1>0, Numbers DEF Blank, TypeOK
  <2>. QED
    BY <1>0, <1>1, <1>2, <1>3, <1>5, <1>6, <2>1 DEF Blank, Like
<1>9. Inside'
  BY <1>0, <1>2, <1>3, <1>5, <1>6 DEF Inside, Living, Like
<1>10. CarriedOnce'
  BY <1>0, <1>2, <1>5, <1>6, CarriedSame DEF Asking
<1>11. WaitingOnce'
  <2>1. Placing /\ WaitingOnce
    BY <1>0 DEF Placing, Inside
  <2>2. /\ \A x \in Sessions : session[x].waiting \in Seq(Requests)
        /\ session'[s].waiting = Tail(session[s].waiting)
        /\ \A x \in Sessions : x # s => session'[x].waiting = session[x].waiting
    BY <1>0, <1>3, Types
  <2>3. /\ request'[Head(session[s].waiting)].at # "waiting"
        /\ \A q \in Requests : q # Head(session[s].waiting) =>
               /\ request'[q].at = "waiting" <=> request[q].at = "waiting"
               /\ request[q].at = "waiting" => request'[q].session = request[q].session
    BY <1>5
  <2>. QED
    BY <2>1, <2>2, <2>3, WaitingLess
<1>12. ToldOnce'
  <2>1. <<h>> \in Seq(Requests) /\ Distinctly(<<h>>) /\ \A i \in 1 .. Len(<<h>>) : request[<<h>>[i]].at # "told"
    BY <1>2, OneOf DEF Distinctly
  <2>2. request \in [Requests -> Request] /\ reports \in Seq(Report1) /\ "failed" \in Outcomes
    BY <1>0, Types DEF TypeOK, Outcomes
  <2>. QED
    BY <1>0, <1>4, <2>1, <2>2, Tells
<1>13. \A x \in Sessions : Serving(x)'
  <2>. TAKE x \in Sessions
  <2>1. CASE x # s
    <3>1. Untouched(x)
      BY <1>1, <1>2, <1>3, <1>5, <1>6, <2>1 DEF Untouched, Quiet, Res, Stp, Fly, Like
    <3>. QED
      BY <1>0, <3>1, ServingSame
  <2>2. CASE x = s
    <3>1. Serving(s) /\ SomeRes(s) /\ Res(a, s)
      BY <1>0 DEF Res, SomeRes
    <3>2. \A q \in Requests : Fly(q, s)' <=> Fly(q, s)
      BY <1>2, <1>5 DEF Fly
    <3>3. /\ SomeFly(s)' <=> SomeFly(s)
          /\ Living(s)' /\ (Connecting(s)' <=> Connecting(s))
      BY <1>3, <3>2 DEF SomeFly, Living, Connecting
    <3>4. s \notin raced => ~SomeFly(s) /\ ~Connecting(s)
      BY <3>1 DEF Serving, FlyAlone, LinkAlone
    <3>5. \A b \in Actors : Res(b, s)' => Res(b, s)
      BY <1>6 DEF Res
    <3>6. SomeStp(s)'
      BY <1>6 DEF SomeStp, Stp
    <3>7. Awaited(s)' /\ Worked(s)' /\ Emptied(s)'
      BY <3>3, <3>6 DEF Awaited, Worked, Emptied
    <3>8. OneFly(s)' /\ OneRes(s)'
      BY <1>1, <3>1, <3>2, <3>5 DEF Serving, OneFly, OneRes
    <3>9. FlyAlone(s)' /\ LinkAlone(s)'
      BY <1>1, <3>3, <3>4 DEF FlyAlone, LinkAlone
    <3>. QED
      BY <2>2, <3>7, <3>8, <3>9 DEF Serving
  <2>. QED
    BY <2>1, <2>2
<1>14. Unanswered' /\ AnswersOwn'
  BY <1>0, <1>1, <1>5 DEF Unanswered, AnswersOwn, Like
<1>15. Downloading'
  <2>1. \A i \in 1 .. Len(reports') : reports'[i].how = "done" => \E k \in 1 .. Len(reports) : reports[k] = reports'[i]
    BY <1>0, <1>4, NothingDone, OneOf, Types
  <2>2. \A y \in Downloads : SameLoad(y) /\ SameRequests(y)
    BY <1>1, <1>2, <1>5 DEF SameLoad, SameRequests, Like, Live
  <2>3. \A y \in Downloads : Steady(y)
    BY <2>1, <2>2 DEF Steady, SameReports
  <2>. QED
    BY <1>0, <2>3, DownloadingSame
<1>. QED
  BY <1>7, <1>8, <1>9, <1>10, <1>11, <1>12, <1>13, <1>14, <1>15, Whole

Rested(s) == [session EXCEPT ![s].status = IF @ = "creating" THEN "active" ELSE @, ![s].busy = FALSE]
LEMMA ResumeRests ==
    ASSUME Base, NEW a \in Actors, call[a].at = "resume", NEW s \in Sessions, call[a].s = s,
           ~Living(s) \/ session[s].waiting = <<>>,
           session' = Rested(s), Return(a),
           UNCHANGED <<opened, table, operating, lock, request, made, reports, load, faults, raced>>
    PROVE  Base'
<1>0. /\ TypeOK /\ Blank /\ Inside /\ CarriedOnce /\ WaitingOnce /\ ToldOnce
      /\ (\A x \in Sessions : Serving(x)) /\ Unanswered /\ AnswersOwn /\ Downloading
  BY Parts
<1>1. /\ opened' = opened /\ table' = table /\ operating' = operating /\ lock' = lock /\ request' = request
      /\ made' = made /\ reports' = reports /\ load' = load /\ faults' = faults /\ raced' = raced
  OBVIOUS
<1>2. /\ session' \in [Sessions -> Session] /\ (Living(s)' <=> Living(s))
      /\ ~session'[s].busy /\ session'[s].queue = session[s].queue
      /\ session'[s].waiting = session[s].waiting /\ session'[s].channel = session[s].channel
      /\ \A x \in Sessions : x # s => session'[x] = session[x]
  <2>. DEFINE st == IF session[s].status = "creating" THEN "active" ELSE session[s].status
              new == [[session[s] EXCEPT !.status = st] EXCEPT !.busy = FALSE]
  <2>1. session[s] \in Session
    BY <1>0, Types
  <2>2. st \in {"none", "active", "failed", "closed"} /\ (st = "active" <=> Living(s))
    BY <2>1 DEF Session, Living
  <2>3. session' = PutSession(s, new)
    BY DEF PutSession, Rested
  <2>. HIDE DEF st
  <2>4. /\ new \in Session /\ new.status = st /\ ~new.busy /\ new.queue = session[s].queue
        /\ new.waiting = session[s].waiting /\ new.channel = session[s].channel
    BY <2>1, <2>2 DEF Session
  <2>. HIDE DEF new
  <2>5. /\ session' \in [Sessions -> Session] /\ session'[s] = new
        /\ \A x \in Sessions : x # s => session'[x] = session[x]
    BY <1>0, <2>3, <2>4, PutSessionFacts
  <2>6. Living(s)' <=> Living(s)
    BY <2>2, <2>4, <2>5 DEF Living
  <2>. QED
    BY <2>4, <2>5, <2>6
<1>3. /\ call'[a].at = "idle" /\ call'[a].s = None
      /\ \A b \in Actors : b # a => call'[b] = call[b]
      /\ call' \in [Actors -> CallRecord]
  BY <1>0, Returning
<1>4. TypeOK'
  BY <1>0, <1>1, <1>2, <1>3 DEF TypeOK, CallRecord
<1>5. Blank'
  <2>1. s <= opened /\ ~(s > opened)
    BY <1>0, Numbers DEF Blank, TypeOK
  <2>. QED
    BY <1>0, <1>1, <1>2, <1>3, <2>1 DEF Blank
<1>6. Inside'
  <2>1. \A x \in Sessions : Living(x)' => (session[x].queue)'
    BY <1>0, <1>2 DEF Inside, Living
  <2>. QED
    BY <1>0, <1>1, <1>3, <2>1 DEF Inside
<1>7. CarriedOnce'
  BY <1>0, <1>1, <1>3, CarriedSame DEF Asking
<1>8. WaitingOnce'
  BY <1>0, <1>1, <1>2, WaitingSame, Types DEF Placing, Inside
<1>9. ToldOnce'
  BY <1>0, <1>1 DEF ToldOnce
<1>10. \A x \in Sessions : Serving(x)'
  <2>. TAKE x \in Sessions
  <2>1. CASE x # s
    <3>1. Untouched(x)
      BY <1>1, <1>2, <1>3, <2>1 DEF Untouched, Quiet, Res, Stp, Fly
    <3>. QED
      BY <1>0, <3>1, ServingSame
  <2>2. CASE x = s
    <3>1. Serving(s) /\ SomeRes(s)
      BY <1>0 DEF Res, SomeRes
    <3>2. /\ \A q \in Requests : Fly(q, s)' <=> Fly(q, s)
          /\ SomeFly(s)' <=> SomeFly(s)
          /\ Connecting(s)' <=> Connecting(s)
      BY <1>1, <1>2 DEF Fly, SomeFly, Connecting
    <3>3. s \notin raced /\ Living(s) => ~SomeFly(s) /\ ~Connecting(s)
      BY <3>1 DEF Serving, FlyAlone, LinkAlone
    <3>4. \A b \in Actors : Res(b, s)' => Res(b, s)
      BY <1>3 DEF Res
    <3>5. session'[s].waiting = <<>>
      BY <1>2, <3>1 DEF Serving, Emptied
    <3>6. Awaited(s)' /\ Worked(s)' /\ Emptied(s)'
      BY <1>2, <3>5 DEF Awaited, Worked, Emptied
    <3>7. OneFly(s)' /\ OneRes(s)'
      BY <1>1, <1>2, <3>1, <3>2, <3>4 DEF Serving, OneFly, OneRes
    <3>8. FlyAlone(s)' /\ LinkAlone(s)'
      BY <1>1, <1>2, <3>2, <3>3 DEF FlyAlone, LinkAlone
    <3>. QED
      BY <2>2, <3>6, <3>7, <3>8 DEF Serving
  <2>. QED
    BY <2>1, <2>2
<1>11. Unanswered' /\ AnswersOwn'
  BY <1>0, <1>1 DEF Unanswered, AnswersOwn
<1>12. Downloading'
  <2>1. \A y \in Downloads : Steady(y)
    BY <1>1 DEF Steady, SameLoad, SameRequests, SameReports
  <2>. QED
    BY <1>0, <2>1, DownloadingSame
<1>. QED
  BY <1>4, <1>5, <1>6, <1>7, <1>8, <1>9, <1>10, <1>11, <1>12, Whole

LEMMA ResumeKeeps ==
    ASSUME Base, NEW a \in Actors, Resume(a)
    PROVE  Base'
<1>0. TypeOK /\ Blank /\ WaitingOnce /\ Inside
  BY Parts
<1>1. call[a].at = "resume" /\ call[a].s \in Sessions
  BY <1>0 DEF Resume, At, Inside
<1>. DEFINE s == call[a].s
<1>2. UNCHANGED <<opened, table, operating, lock, made, load, faults, raced>>
  BY DEF Resume
<1>3. CASE Living(s) /\ session[s].waiting # <<>>
  <2>1. Head(session[s].waiting) \in Requests
    BY <1>0, <1>1, <1>3, NextFacts
  <2>2. session' = [session EXCEPT ![s] = Sending(s)]
    BY <1>3 DEF Resume
  <2>3. CASE session[s].channel = "open"
    <3>1. request' = [request EXCEPT ![Head(session[s].waiting)].at = "head"] /\ Return(a) /\ UNCHANGED reports
      BY <1>3, <2>3 DEF Resume
    <3>. QED
      BY <1>1, <1>2, <1>3, <2>1, <2>2, <2>3, <3>1, ResumeSends
  <2>4. CASE session[s].channel # "open"
    <3>1. Fails(a, Head(session[s].waiting))
      BY <1>3, <2>4 DEF Resume
    <3>. QED
      BY <1>1, <1>2, <1>3, <2>1, <2>2, <2>4, <3>1, ResumeFails
  <2>. QED
    BY <2>3, <2>4
<1>4. CASE ~Living(s) \/ session[s].waiting = <<>>
  <2>1. session' = Rested(s) /\ Return(a) /\ UNCHANGED <<request, reports>>
    BY <1>4 DEF Resume, Rested
  <2>. QED
    BY <1>1, <1>2, <1>4, <2>1, ResumeRests
<1>. QED
  BY <1>3, <1>4

----------------------------------------------------------------------------
(* The dispatcher is done with a request: it is reported, and the session  *)
(* is resumed or stopped.                                                  *)

\* A download with a request under way was started.
LEMMA Started ==
    ASSUME Base, NEW r \in Requests, request[r].at \in Live
    PROVE  /\ request[r].load \in Downloads /\ ~(r > made)
           /\ load[request[r].load].state # "none"
<1>0. TypeOK /\ Blank /\ Downloading
  BY Parts
<1>1. ~(r > made)
  BY <1>0 DEF Blank, NoRequest, Live
<1>2. r <= made
  BY <1>0, <1>1, Numbers DEF TypeOK
<1>3. request[r].load \in Downloads
  BY <1>0, <1>2 DEF Blank
<1>4. ASSUME load[request[r].load].state = "none"
      PROVE  FALSE
  <2>1. load[request[r].load] = NewLoad
    BY <1>0, <1>3, <1>4 DEF Blank
  <2>2. ~load[request[r].load].moved
    BY <2>1 DEF NewLoad
  <2>3. TryRuns(request[r].load)
    BY <1>0, <1>3, <2>2 DEF Downloading, Straight
  <2>. QED
    BY <1>4, <2>3 DEF TryRuns, Ours
<1>. QED
  BY <1>1, <1>3, <1>4

\* What the request leaves its download with.
LeftWell(rq, r, d, how) ==
    /\ load'[d].state = load[d].state
    /\ ~load'[d].moved => /\ ~load[d].moved /\ ~load'[d].redirected
                          /\ load'[d].content \subseteq load[d].content \cup {r}
                          /\ how = "done" => rq[r].code = "ok"

LEMMA Passing ==
    ASSUME TypeOK, NEW at \in {"resume", "siste"}, NEW s \in Sessions, Goto(Dispatcher, at, None, s)
    PROVE  /\ call'[Dispatcher].at = at /\ call'[Dispatcher].s = s
           /\ \A b \in Actors : b # Dispatcher => call'[b] = call[b]
           /\ call' \in [Actors -> CallRecord]
<1>1. Dispatcher \in Actors /\ at \in Stages
  BY DEF Actors, Stages
<1>2. /\ call'[Dispatcher].at = at /\ call'[Dispatcher].r = None /\ call'[Dispatcher].s = s
      /\ \A b \in Actors : b # Dispatcher => call'[b] = call[b]
      /\ call' \in [Actors -> CallRecord]
  BY <1>1, Going
<1>. QED
  BY <1>2

LEMMA LeaveKeeps ==
    ASSUME Base, NEW r \in Requests, NEW s \in Sessions, request[r].session = s,
           request[r].at \in {"head", "proceeding", "content"}, call[Dispatcher].at = "idle",
           NEW at \in {"resume", "siste"}, Goto(Dispatcher, at, None, s),
           NEW rq \in [Requests -> Request], rq[r].at = request[r].at, rq[r].session = s,
           rq[r].load = request[r].load, \A q \in Requests : q # r => rq[q] = request[q],
           rq[r].answer \in {None, r} \/ s \in raced,
           NEW how \in Outcomes, reports' = ToldOne(s, r, how), request' = PlacedOne(rq, s, r),
           session' \in [Sessions -> Session], session'[s].status = session[s].status,
           session'[s].waiting = session[s].waiting, session'[s].busy = session[s].busy,
           session'[s].queue = session[s].queue, Connecting(s)' => Connecting(s),
           \A x \in Sessions : x # s => session'[x] = session[x],
           NEW d \in Downloads, request[r].load = d, load' \in [Downloads -> Load],
           \A y \in Downloads : y # d => load'[y] = load[y], LeftWell(rq, r, d, how),
           faults' \in Nat, UNCHANGED <<opened, table, operating, lock, made, raced>>
    PROVE  Base'
<1>0. /\ TypeOK /\ Blank /\ Inside /\ CarriedOnce /\ WaitingOnce /\ ToldOnce
      /\ (\A x \in Sessions : Serving(x)) /\ Unanswered /\ AnswersOwn /\ Downloading
  BY Parts
<1>1. /\ opened' = opened /\ table' = table /\ operating' = operating /\ lock' = lock
      /\ made' = made /\ raced' = raced
  OBVIOUS
<1>2. Dispatcher \in Actors
  BY DEF Actors
<1>3. ~(r > made) /\ load[d].state # "none" /\ load'[d].state = load[d].state
  BY Started DEF Live, LeftWell
<1>4. /\ request' \in [Requests -> Request]
      /\ request'[r].at \in {"told", "lost"} /\ Like(request'[r], rq[r])
      /\ \A q \in Requests : q # r => request'[q] = request[q]
  <2>1. /\ PlacedOne(rq, s, r) \in [Requests -> Request]
        /\ PlacedOne(rq, s, r)[r].at = (IF session[s].queue THEN "told" ELSE "lost")
        /\ Like(PlacedOne(rq, s, r)[r], rq[r])
        /\ \A q \in Requests : q # r => PlacedOne(rq, s, r)[q] = rq[q]
    BY OneTold
  <2>. QED
    BY <2>1
<1>5. /\ request'[r].load = d /\ request'[r].session = s /\ request'[r].code = rq[r].code
      /\ request'[r].answer = rq[r].answer
  BY <1>4 DEF Like
<1>6. /\ reports' \in Seq(Report1)
      /\ \A i \in 1 .. Len(reports') : \/ \E k \in 1 .. Len(reports) : reports[k] = reports'[i]
                                       \/ reports'[i] = [r |-> r, how |-> how]
  BY <1>0, OneReport, Types
<1>7. /\ call'[Dispatcher].at = at /\ call'[Dispatcher].s = s
      /\ \A b \in Actors : b # Dispatcher => call'[b] = call[b]
      /\ call' \in [Actors -> CallRecord]
  BY <1>0, Passing
<1>8. TypeOK'
  BY <1>0, <1>1, <1>4, <1>6, <1>7 DEF TypeOK, CallRecord, Report1
<1>9. Blank'
  <2>1. s <= opened /\ ~(s > opened)
    BY <1>0, Numbers DEF Blank, TypeOK
  <2>2. \A q \in Requests : /\ q > made' => request'[q] = NoRequest
                            /\ q <= made' => request'[q].at # "unmade" /\ request'[q].load \in Downloads
                            /\ request'[q].session # None => request'[q].session <= opened'
    BY <1>0, <1>1, <1>3, <1>4, <1>5, <2>1 DEF Blank
  <2>3. \A b \in Actors : call'[b].s # None => call'[b].s <= opened'
    BY <1>0, <1>1, <1>7, <2>1 DEF Blank
  <2>4. \A x \in Sessions : x > opened' => session'[x] = NoSession
    BY <1>0, <1>1, <2>1 DEF Blank
  <2>5. \A y \in Downloads : load'[y].state = "none" => load'[y] = NewLoad
    BY <1>0, <1>3 DEF Blank
  <2>. QED
    BY <1>0, <1>1, <2>2, <2>3, <2>4, <2>5 DEF Blank
<1>10. Inside'
  <2>1. \A b \in Actors : call'[b].at \in {"require", "resume", "siste", "clode"} => call'[b].s \in Sessions
    BY <1>0, <1>7 DEF Inside
  <2>2. \A q \in Requests : request'[q].at \in {"waiting", "head", "proceeding", "content", "told"} =>
                                request'[q].session \in Sessions
    BY <1>0, <1>4, <1>5 DEF Inside
  <2>3. \A x \in Sessions : Living(x)' => (session[x].queue)'
    BY <1>0 DEF Inside, Living
  <2>. QED
    BY <2>1, <2>2, <2>3 DEF Inside
<1>11. CarriedOnce'
  BY <1>0, <1>2, <1>4, <1>7, CarriedSame DEF Asking
<1>12. WaitingOnce'
  <2>1. Placing /\ WaitingOnce
    BY <1>0 DEF Placing, Inside
  <2>2. \A x \in Sessions : session[x].waiting \in Seq(Requests) /\ session'[x].waiting = session[x].waiting
    BY <1>0, Types
  <2>3. \A q \in Requests : /\ request'[q].at = "waiting" <=> request[q].at = "waiting"
                            /\ request[q].at = "waiting" => request'[q].session = request[q].session
    BY <1>4
  <2>. QED
    BY <2>1, <2>2, <2>3, WaitingSame
<1>13. ToldOnce'
  <2>. DEFINE rs == <<r>>
  <2>1. rs \in Seq(Requests) /\ Distinctly(rs) /\ \A i \in 1 .. Len(rs) : request[rs[i]].at # "told"
    BY OneOf DEF Distinctly
  <2>2. reports \in Seq(Report1) /\ \A q \in Requests : rq[q].at = "told" <=> request[q].at = "told"
    BY <1>0, Types
  <2>3. reports' = Told(s, rs, how) /\ request' = Placed(rq, s, rs)
    BY DEF ToldOne, PlacedOne
  <2>. HIDE DEF rs
  <2>. QED
    BY <1>0, <2>1, <2>2, <2>3, Tells
<1>14. \A x \in Sessions : Serving(x)'
  <2>. TAKE x \in Sessions
  <2>1. CASE x # s
    <3>1. Untouched(x)
      BY <1>1, <1>4, <1>5, <1>7, <2>1 DEF Untouched, Quiet, Res, Stp, Fly
    <3>. QED
      BY <1>0, <3>1, ServingSame
  <2>2. CASE x = s
    <3>1. Serving(s) /\ Fly(r, s) /\ SomeFly(s)
      BY <1>0 DEF Fly, SomeFly
    <3>2. \A q \in Requests : (Fly(q, s)' => Fly(q, s)) /\ (Fly(q, s)' => q # r)
      BY <1>4, <1>5 DEF Fly
    <3>3. Living(s)' <=> Living(s)
      BY DEF Living
    <3>4. s \notin raced => ~SomeFly(s)'
      BY <3>1, <3>2 DEF Serving, OneFly, SomeFly
    <3>5. s \notin raced /\ Living(s) => ~Connecting(s) /\ ~SomeRes(s)
      BY <3>1 DEF Serving, FlyAlone, LinkAlone
    <3>6. SomeRes(s)' \/ SomeStp(s)'
      BY <1>2, <1>7 DEF SomeRes, SomeStp, Res, Stp
    <3>7. Awaited(s)' /\ Worked(s)'
      BY <3>6 DEF Awaited, Worked
    <3>8. Emptied(s)'
      BY <3>1, <3>3 DEF Serving, Emptied
    <3>9. OneFly(s)'
      BY <1>1, <3>1, <3>2 DEF Serving, OneFly
    <3>10. \A b \in Actors : b # Dispatcher => (Res(b, s)' <=> Res(b, s))
      BY <1>7 DEF Res
    <3>11. OneRes(s)'
      BY <1>1, <3>3, <3>5, <3>10 DEF OneRes, SomeRes
    <3>12. FlyAlone(s)' /\ LinkAlone(s)'
      BY <1>1, <3>3, <3>4, <3>5 DEF FlyAlone, LinkAlone
    <3>. QED
      BY <2>2, <3>7, <3>8, <3>9, <3>11, <3>12 DEF Serving
  <2>. QED
    BY <2>1, <2>2
<1>15. Unanswered'
  BY <1>0, <1>4 DEF Unanswered
<1>16. AnswersOwn'
  BY <1>0, <1>1, <1>4, <1>5 DEF AnswersOwn
<1>17. Downloading'
  <2>1. \A y \in Downloads : y # d => Steady(y)
    <3>. TAKE y \in Downloads
    <3>. HAVE y # d
    <3>1. SameLoad(y)
      BY DEF SameLoad
    <3>2. SameRequests(y)
      BY <1>4, <1>5 DEF SameRequests
    <3>3. SameReports(y)
      <4>. SUFFICES ASSUME NEW i \in 1 .. Len(reports'), request'[reports'[i].r].load = y
                    PROVE  \E k \in 1 .. Len(reports) : reports[k] = reports'[i]
        BY DEF SameReports
      <4>1. CASE reports'[i] = [r |-> r, how |-> how]
        BY <1>5, <4>1
      <4>. QED
        BY <1>6, <4>1
    <3>. QED
      BY <3>1, <3>2, <3>3 DEF Steady
  <2>2. ASSUME ~load'[d].moved
        PROVE  Straight(d)'
    <3>1. /\ ~load[d].moved /\ ~load'[d].redirected /\ load'[d].content \subseteq load[d].content \cup {r}
          /\ how = "done" => rq[r].code = "ok"
      BY <2>2 DEF LeftWell
    <3>2. Straight(d)
      BY <1>0, <3>1 DEF Downloading
    <3>3. Ours(d, r) /\ load[d].state = "running" /\ load[d].content \subseteq {r}
      BY <3>2 DEF Straight, TryRuns, Ours, Live
    <3>4. \A q \in Requests : Ours(d, q) => q = r
      BY <3>2, <3>3 DEF Straight, OneTry
    <3>5. \A q \in Requests : Ours(d, q)' => q = r
      BY <1>4, <3>4 DEF Ours
    <3>6. OneTry(d)' /\ TryRuns(d)'
      BY <1>3, <3>1, <3>3, <3>5 DEF OneTry, TryRuns
    <3>7. Well(d)'
      <4>1. \A q \in Requests : Ours(d, q)' => request'[q].at # "proceeding"
                                               /\ (request'[q].at = "content" => request'[q].code = "ok")
        BY <1>4, <3>5
      <4>2. ASSUME NEW i \in 1 .. Len(reports'), request'[reports'[i].r].load = d, reports'[i].how = "done"
            PROVE  request'[reports'[i].r].code = "ok"
        <5>1. CASE reports'[i] = [r |-> r, how |-> how]
          BY <1>5, <3>1, <4>2, <5>1
        <5>2. CASE \E k \in 1 .. Len(reports) : reports[k] = reports'[i]
          <6>1. PICK k \in 1 .. Len(reports) : reports[k] = reports'[i]
            BY <5>2
          <6>2. reports[k].r \in Requests /\ request[reports[k].r].at = "told"
            BY <1>0, ReportFacts, Types DEF ToldOnce
          <6>3. reports[k].r # r
            BY <6>2
          <6>4. Ours(d, reports[k].r)
            BY <1>4, <4>2, <6>1, <6>2, <6>3 DEF Ours, Live
          <6>. QED
            BY <3>4, <6>2, <6>3, <6>4
        <5>. QED
          BY <1>6, <5>1, <5>2
      <4>. QED
        BY <4>1, <4>2 DEF Well
    <3>8. Ended(d)'
      BY <1>3, <3>1, <3>3 DEF Ended, Over
    <3>. QED
      BY <3>6, <3>7, <3>8 DEF Straight
  <2>. QED
    BY <1>0, <2>1, <2>2, DownloadingBut
<1>. QED
  BY <1>8, <1>9, <1>10, <1>11, <1>12, <1>13, <1>14, <1>15, <1>16, <1>17, Whole

----------------------------------------------------------------------------
(* A request under way stays under way.                                    *)
StayedWell(r, d) ==
    /\ load'[d].state # "none"
    /\ ~load'[d].moved => /\ ~load[d].moved /\ ~load'[d].redirected
                          /\ load'[d].content = load[d].content /\ load'[d].state = load[d].state
                          /\ request'[r].at = "content" /\ request'[r].code = "ok"

LEMMA StayKeeps ==
    ASSUME Base, NEW r \in Requests, NEW s \in Sessions, request[r].session = s,
           request[r].at \in {"head", "proceeding"}, request'[r].at \in {"proceeding", "content"},
           request' \in [Requests -> Request], request'[r].session = s,
           \A q \in Requests : q # r => request'[q] = request[q],
           request'[r].answer \in {None, r} \/ s \in raced,
           NEW d \in Downloads, request[r].load = d, request'[r].load = d,
           load' \in [Downloads -> Load], \A y \in Downloads : y # d => load'[y] = load[y],
           StayedWell(r, d), UNCHANGED <<sessionVars, made, reports, call, faults, raced>>
    PROVE  Base'
<1>0. /\ TypeOK /\ Blank /\ Inside /\ CarriedOnce /\ WaitingOnce /\ ToldOnce
      /\ (\A x \in Sessions : Serving(x)) /\ Unanswered /\ AnswersOwn /\ Downloading
  BY Parts
<1>1. /\ session' = session /\ opened' = opened /\ table' = table /\ operating' = operating
      /\ lock' = lock /\ made' = made /\ reports' = reports /\ call' = call /\ faults' = faults
      /\ raced' = raced
  BY DEF sessionVars
<1>2. ~(r > made)
  BY Started DEF Live
<1>3. TypeOK'
  BY <1>0, <1>1 DEF TypeOK
<1>4. Blank'
  <2>1. \A q \in Requests : /\ q > made' => request'[q] = NoRequest
                            /\ q <= made' => request'[q].at # "unmade" /\ request'[q].load \in Downloads
                            /\ request'[q].session # None => request'[q].session <= opened'
    BY <1>0, <1>1, <1>2 DEF Blank
  <2>2. \A y \in Downloads : load'[y].state = "none" => load'[y] = NewLoad
    BY <1>0 DEF Blank, StayedWell
  <2>. QED
    BY <1>0, <1>1, <2>1, <2>2 DEF Blank
<1>5. Inside'
  BY <1>0, <1>1 DEF Inside, Living
<1>6. CarriedOnce'
  BY <1>0, <1>1, CarriedSame DEF Asking
<1>7. WaitingOnce'
  BY <1>0, <1>1, WaitingSame, Types DEF Placing, Inside
<1>8. ToldOnce'
  BY <1>0, <1>1, ToldSame, Types
<1>9. \A x \in Sessions : Serving(x)'
  <2>. TAKE x \in Sessions
  <2>1. Untouched(x)
    BY <1>1 DEF Untouched, Quiet, Res, Stp, Fly
  <2>. QED
    BY <1>0, <2>1, ServingSame
<1>10. Unanswered' /\ AnswersOwn'
  BY <1>0, <1>1 DEF Unanswered, AnswersOwn
<1>11. Downloading'
  <2>1. \A y \in Downloads : y # d => Steady(y)
    BY <1>1 DEF Steady, SameLoad, SameRequests, SameReports
  <2>2. ASSUME ~load'[d].moved
        PROVE  Straight(d)'
    <3>1. /\ ~load[d].moved /\ ~load'[d].redirected
          /\ load'[d].content = load[d].content /\ load'[d].state = load[d].state
          /\ request'[r].at = "content" /\ request'[r].code = "ok"
      BY <2>2 DEF StayedWell
    <3>2. Straight(d)
      BY <1>0, <3>1 DEF Downloading
    <3>3. Ours(d, r) /\ load[d].state = "running"
      BY <3>2 DEF Straight, TryRuns, Ours, Live
    <3>4. \A q \in Requests : Ours(d, q)' <=> Ours(d, q)
      BY <3>1, <3>3 DEF Ours, Live
    <3>5. OneTry(d)' /\ TryRuns(d)'
      BY <3>1, <3>2, <3>4 DEF Straight, OneTry, TryRuns
    <3>6. Well(d)'
      <4>1. \A q \in Requests : Ours(d, q)' => request'[q].at # "proceeding"
                                               /\ (request'[q].at = "content" => request'[q].code = "ok")
        BY <3>1, <3>2, <3>4 DEF Straight, Well
      <4>2. \A i \in 1 .. Len(reports) : reports[i].r \in Requests /\ reports[i].r # r
        BY <1>0, ReportFacts, Types DEF ToldOnce
      <4>3. \A i \in 1 .. Len(reports') : request'[reports'[i].r].load = d /\ reports'[i].how = "done" =>
                                              request'[reports'[i].r].code = "ok"
        BY <1>1, <3>2, <4>2 DEF Straight, Well
      <4>. QED
        BY <4>1, <4>3 DEF Well
    <3>7. Ended(d)'
      BY <3>1, <3>3 DEF Ended, Over
    <3>. QED
      BY <3>5, <3>6, <3>7 DEF Straight
  <2>. QED
    BY <1>0, <2>1, <2>2, DownloadingBut
<1>. QED
  BY <1>3, <1>4, <1>5, <1>6, <1>7, <1>8, <1>9, <1>10, <1>11, Whole

(* A redirection asks again.                                               *)
LEMMA AsksAgain ==
    ASSUME Base, NEW r \in Requests, NEW s \in Sessions, request[r].session = s, request[r].at = "head",
           call[Dispatcher].at = "idle", made < MaxRequests, NEW n, n = made + 1,
           NEW q \in Requests, q = r \/ s \in raced, NEW d \in Downloads, request[r].load = d,
           request' = MadeFor(Proceeded(request, r, q), n, d), made' = n,
           load' \in [Downloads -> Load], load'[d].moved, load'[d].state = load[d].state,
           \A y \in Downloads : y # d => load'[y] = load[y],
           Goto(Dispatcher, "ask", n, None), UNCHANGED <<sessionVars, reports, faults, raced>>
    PROVE  Base'
<1>0. /\ TypeOK /\ Blank /\ Inside /\ CarriedOnce /\ WaitingOnce /\ ToldOnce
      /\ (\A x \in Sessions : Serving(x)) /\ Unanswered /\ AnswersOwn /\ Downloading
  BY Parts
<1>1. n \in Requests /\ made \in Nat /\ request[n] = NoRequest
  BY <1>0, Numbers DEF TypeOK, Blank, Requests
<1>2. Dispatcher \in Actors
  BY DEF Actors
<1>3. /\ session' = session /\ opened' = opened /\ table' = table /\ operating' = operating
      /\ lock' = lock /\ reports' = reports /\ faults' = faults /\ raced' = raced /\ made' = n
  BY DEF sessionVars
<1>4. ~(r > made) /\ load[d].state # "none"
  BY Started DEF Live
<1>5. /\ request[n].at = "unmade" /\ request[n].load = None /\ request[n].session = None
      /\ request[n].answer = None /\ n # r
  BY <1>1 DEF NoRequest
<1>6. /\ request' \in [Requests -> Request]
      /\ request'[n].at = "made" /\ request'[n].load = d /\ request'[n].session = None
      /\ request'[n].answer = None
      /\ request'[r].at = "proceeding" /\ request'[r].load = d /\ request'[r].session = s
      /\ request'[r].answer = q
      /\ \A p \in Requests : p # n /\ p # r => request'[p] = request[p]
  <2>. DEFINE rq == Proceeded(request, r, q)
  <2>1. /\ rq \in [Requests -> Request] /\ rq[r].at = "proceeding" /\ rq[r].answer = q
        /\ rq[r].load = d /\ rq[r].session = s
        /\ \A p \in Requests : p # r => rq[p] = request[p]
    BY <1>0, ProceededFacts DEF TypeOK
  <2>2. request' = MadeFor(rq, n, d)
    OBVIOUS
  <2>. HIDE DEF rq
  <2>3. /\ MadeFor(rq, n, d) \in [Requests -> Request]
        /\ MadeFor(rq, n, d)[n].at = "made" /\ MadeFor(rq, n, d)[n].load = d
        /\ MadeFor(rq, n, d)[n].session = rq[n].session /\ MadeFor(rq, n, d)[n].answer = rq[n].answer
        /\ \A p \in Requests : p # n => MadeFor(rq, n, d)[p] = rq[p]
    BY <1>1, <2>1, MadeFacts
  <2>4. rq[n] = request[n]
    BY <1>1, <1>5, <2>1
  <2>. QED
    BY <1>5, <2>1, <2>2, <2>3, <2>4
<1>7. /\ call'[Dispatcher].at = "ask" /\ call'[Dispatcher].r = n /\ call'[Dispatcher].s = None
      /\ \A b \in Actors : b # Dispatcher => call'[b] = call[b]
      /\ call' \in [Actors -> CallRecord]
  <2>1. "ask" \in Stages /\ n \in Requests \cup {None}
    BY <1>1 DEF Stages
  <2>. QED
    BY <1>0, <1>2, <2>1, Going
<1>8. TypeOK'
  BY <1>0, <1>1, <1>3, <1>6, <1>7 DEF TypeOK, CallRecord, Requests
<1>9. Blank'
  <2>1. \A p \in Requests : (p > n => p > made /\ p # n /\ p # r) /\ (p <= n => p <= made \/ p = n)
    BY <1>0, <1>1, <1>4, Numbers DEF TypeOK
  <2>2. \A p \in Requests : /\ p > made' => request'[p] = NoRequest
                            /\ p <= made' => request'[p].at # "unmade" /\ request'[p].load \in Downloads
                            /\ request'[p].session # None => request'[p].session <= opened'
    BY <1>0, <1>3, <1>5, <1>6, <2>1 DEF Blank
  <2>3. \A b \in Actors : call'[b].s # None => call'[b].s <= opened'
    BY <1>0, <1>3, <1>7 DEF Blank
  <2>4. \A y \in Downloads : load'[y].state = "none" => load'[y] = NewLoad
    BY <1>0, <1>4 DEF Blank
  <2>. QED
    BY <1>0, <1>3, <2>2, <2>3, <2>4 DEF Blank
<1>10. Inside'
  BY <1>0, <1>3, <1>6, <1>7 DEF Inside, Living
<1>11. CarriedOnce'
  <2>1. ~Asking(Dispatcher) /\ Asking(Dispatcher)' /\ call'[Dispatcher].r = n
    BY <1>7 DEF Asking
  <2>2. \A b \in Actors : b # Dispatcher => (Asking(b)' <=> Asking(b)) /\ call'[b].r = call[b].r
    BY <1>7 DEF Asking
  <2>3. request[n].at # "made" /\ request'[n].at = "made"
        /\ \A p \in Requests : p # n => (request'[p].at = "made" <=> request[p].at = "made")
    BY <1>5, <1>6
  <2>. QED
    BY <1>0, <1>1, <1>2, <2>1, <2>2, <2>3, CarriedNew
<1>12. WaitingOnce'
  <2>1. Placing /\ WaitingOnce
    BY <1>0 DEF Placing, Inside
  <2>2. \A x \in Sessions : session[x].waiting \in Seq(Requests) /\ session'[x].waiting = session[x].waiting
    BY <1>0, <1>3, Types
  <2>3. \A p \in Requests : /\ request'[p].at = "waiting" <=> request[p].at = "waiting"
                            /\ request[p].at = "waiting" => request'[p].session = request[p].session
    BY <1>5, <1>6
  <2>. QED
    BY <2>1, <2>2, <2>3, WaitingSame
<1>13. ToldOnce'
  BY <1>0, <1>3, <1>5, <1>6, ToldSame, Types
<1>14. \A x \in Sessions : Serving(x)'
  <2>. TAKE x \in Sessions
  <2>1. \A b \in Actors : (Res(b, x)' <=> Res(b, x)) /\ (Stp(b, x)' <=> Stp(b, x))
    BY <1>7 DEF Res, Stp
  <2>2. \A p \in Requests : Fly(p, x)' <=> Fly(p, x)
    BY <1>5, <1>6 DEF Fly
  <2>3. Untouched(x)
    BY <1>3, <2>1, <2>2 DEF Untouched, Quiet
  <2>. QED
    BY <1>0, <2>3, ServingSame
<1>15. Unanswered' /\ AnswersOwn'
  BY <1>0, <1>3, <1>6 DEF Unanswered, AnswersOwn
<1>16. Downloading'
  <2>1. \A y \in Downloads : y # d => Steady(y)
    <3>. TAKE y \in Downloads
    <3>. HAVE y # d
    <3>1. SameLoad(y)
      BY DEF SameLoad
    <3>2. SameRequests(y)
      BY <1>5, <1>6, Distinct DEF SameRequests
    <3>3. SameReports(y)
      BY <1>3 DEF SameReports
    <3>. QED
      BY <3>1, <3>2, <3>3 DEF Steady
  <2>. QED
    BY <1>0, <2>1, DownloadingBut
<1>. QED
  BY <1>8, <1>9, <1>10, <1>11, <1>12, <1>13, <1>14, <1>15, <1>16, Whole

\* What holds of a request under way.
LEMMA UnderWay ==
    ASSUME Base, NEW r \in Requests, request[r].at \in {"head", "proceeding", "content"},
           NEW s, s = request[r].session, NEW d, d = request[r].load
    PROVE  /\ s \in Sessions /\ d \in Downloads /\ load[d] \in Load /\ load[d].state # "none"
           /\ \A q \in InFlight(s) : q \in Requests /\ (q = r \/ s \in raced)
           /\ request[r].answer \in {None, r} \/ s \in raced
           /\ ~load[d].moved => /\ load[d].state = "running" /\ ~load[d].redirected
                                /\ request[r].at # "proceeding"
                                /\ request[r].at = "content" => request[r].code = "ok"
<1>0. /\ TypeOK /\ Inside /\ AnswersOwn /\ Downloading /\ (\A x \in Sessions : Serving(x))
  BY Parts
<1>1. s \in Sessions
  BY <1>0 DEF Inside
<1>2. d \in Downloads /\ load[d].state # "none" /\ load[d] \in Load
  BY <1>0, Started, Types DEF Live
<1>3. \A q \in InFlight(s) : q \in Requests /\ (q = r \/ s \in raced)
  BY <1>0, <1>1 DEF Serving, OneFly, Fly, InFlight
<1>4. ASSUME ~load[d].moved
      PROVE  /\ load[d].state = "running" /\ ~load[d].redirected
             /\ request[r].at # "proceeding"
             /\ request[r].at = "content" => request[r].code = "ok"
  <2>1. Straight(d) /\ Ours(d, r)
    BY <1>0, <1>2, <1>4 DEF Downloading, Ours, Live
  <2>. QED
    BY <2>1 DEF Straight, TryRuns, Well, Ended
<1>. QED
  BY <1>0, <1>1, <1>2, <1>3, <1>4 DEF AnswersOwn

LEMMA StraightenedFacts ==
    ASSUME NEW y \in Load
    PROVE  /\ [y EXCEPT !.redirected = FALSE] \in Load
           /\ [y EXCEPT !.redirected = FALSE].state = y.state /\ [y EXCEPT !.redirected = FALSE].content = y.content
           /\ [y EXCEPT !.redirected = FALSE].moved = y.moved /\ ~[y EXCEPT !.redirected = FALSE].redirected
  BY DEF Load

\* A request that is carried out is reported, and the session is resumed.
LEMMA EndeKeeps ==
    ASSUME Base, NEW r \in Requests, request[r].at \in {"head", "proceeding", "content"},
           NEW s \in Sessions, s = request[r].session, NEW d \in Downloads, d = request[r].load,
           call[Dispatcher].at = "idle", NEW rq \in [Requests -> Request],
           rq[r].at = request[r].at, rq[r].session = s, rq[r].load = d,
           \A q \in Requests : q # r => rq[q] = request[q], rq[r].answer \in {None, r} \/ s \in raced,
           load' \in [Downloads -> Load], \A y \in Downloads : y # d => load'[y] = load[y],
           LeftWell(rq, r, d, "done"), Ende(rq, r), UNCHANGED <<sessionVars, made, faults, raced>>
    PROVE  Base'
<1>1. TypeOK
  BY Parts
<1>2. reports' = ToldOne(s, r, "done") /\ request' = PlacedOne(rq, s, r) /\ Goto(Dispatcher, "resume", None, s)
  BY DEF Ende, ToldOne, PlacedOne
<1>3. /\ session' = session /\ UNCHANGED <<opened, table, operating, lock, made, raced>> /\ faults' = faults
  BY DEF sessionVars
<1>4. /\ session' \in [Sessions -> Session] /\ session'[s].status = session[s].status
      /\ session'[s].waiting = session[s].waiting /\ session'[s].busy = session[s].busy
      /\ session'[s].queue = session[s].queue /\ (Connecting(s)' => Connecting(s))
      /\ (\A y \in Sessions : y # s => session'[y] = session[y]) /\ faults' \in Nat
  BY <1>1, <1>3 DEF TypeOK, Connecting
<1>5. "done" \in Outcomes /\ "resume" \in {"resume", "siste"}
  BY DEF Outcomes
<1>. QED
  BY <1>2, <1>3, <1>4, <1>5, LeaveKeeps

LEMMA HeadReadStays ==
    ASSUME Base, NEW r \in Requests, NEW s, s = request[r].session, NEW d, d = request[r].load,
           Free(Dispatcher), request[r].at = "head", NEW q \in InFlight(s),
           NEW code \in {"ok", "unwanted"}, code = (IF Over(d) THEN "unwanted" ELSE "ok"),
           Answered(ReadAs(request, r, q, code), r), load' = [load EXCEPT ![d].redirected = FALSE],
           UNCHANGED <<sessionVars, made, faults, raced>>
    PROVE  Base'
<1>. DEFINE rq == ReadAs(request, r, q, code)
            x == [load[d] EXCEPT !.redirected = FALSE]
<1>0. TypeOK /\ Free(Dispatcher) /\ call[Dispatcher].at = "idle"
  BY Parts DEF Free, At
<1>1. /\ s \in Sessions /\ d \in Downloads /\ load[d] \in Load /\ load[d].state # "none"
      /\ q \in Requests /\ (q = r \/ s \in raced)
      /\ ~load[d].moved => load[d].state = "running"
  BY UnderWay
<1>2. /\ x \in Load /\ x.state = load[d].state /\ x.content = load[d].content
      /\ x.moved = load[d].moved /\ ~x.redirected
  BY <1>1, StraightenedFacts
<1>3. load' = [load EXCEPT ![d] = x]
  OBVIOUS
<1>. HIDE DEF x
<1>4. /\ load' \in [Downloads -> Load] /\ load'[d] = x
      /\ \A y \in Downloads : y # d => load'[y] = load[y]
  BY <1>0, <1>1, <1>2, <1>3, LoadPut
<1>5. /\ rq \in [Requests -> Request] /\ rq[r].at = "head" /\ rq[r].code = code
      /\ rq[r].answer = q /\ rq[r].load = d /\ rq[r].session = s
      /\ \A p \in Requests : p # r => rq[p] = request[p]
  BY <1>0, <1>1, ReadFacts DEF TypeOK
<1>. HIDE DEF rq
<1>6. ~load[d].moved => code = "ok"
  BY <1>1 DEF Over
<1>7. Answered(rq, r)
  BY DEF rq
<1>8. CASE request' = [rq EXCEPT ![r].at = "content"] /\ UNCHANGED <<reports, call>>
  <2>1. /\ request' \in [Requests -> Request] /\ request'[r].at = "content" /\ request'[r].code = code
        /\ request'[r].answer = q /\ request'[r].load = d /\ request'[r].session = s
        /\ \A p \in Requests : p # r => request'[p] = request[p]
    <3>1. request' = MovedTo(rq, r, "content")
      BY <1>8 DEF MovedTo
    <3>2. /\ MovedTo(rq, r, "content") \in [Requests -> Request]
          /\ MovedTo(rq, r, "content")[r].at = "content" /\ Like(MovedTo(rq, r, "content")[r], rq[r])
          /\ \A p \in Requests : p # r => MovedTo(rq, r, "content")[p] = rq[p]
      BY <1>5, MovedFacts DEF Places
    <3>. QED
      BY <1>5, <3>1, <3>2 DEF Like
  <2>2. StayedWell(r, d)
    <3>1. load'[d].state # "none"
      BY <1>1, <1>2, <1>4
    <3>2. ~load'[d].moved => ~load[d].moved /\ ~load'[d].redirected
                             /\ load'[d].content = load[d].content /\ load'[d].state = load[d].state
      BY <1>2, <1>4
    <3>3. ~load'[d].moved => request'[r].at = "content" /\ request'[r].code = "ok"
      BY <1>6, <2>1, <3>2
    <3>. QED
      BY <3>1, <3>2, <3>3 DEF StayedWell
  <2>3. UNCHANGED <<sessionVars, made, reports, call, faults, raced>>
    BY <1>8
  <2>4. request'[r].answer \in {None, r} \/ s \in raced
    BY <1>1, <2>1
  <2>5. /\ request[r].at \in {"head", "proceeding"} /\ request'[r].at \in {"proceeding", "content"}
        /\ request[r].session = s /\ request[r].load = d
    BY <2>1
  <2>. QED
    BY <1>1, <1>4, <2>1, <2>2, <2>3, <2>4, <2>5, StayKeeps
<1>9. CASE Ende(rq, r)
  <2>1. LeftWell(rq, r, d, "done")
    BY <1>2, <1>4, <1>5, <1>6 DEF LeftWell
  <2>2. rq[r].answer \in {None, r} \/ s \in raced
    BY <1>1, <1>5
  <2>3. rq[r].at = request[r].at /\ request[r].at \in {"head", "proceeding", "content"}
    BY <1>5
  <2>. QED
    BY <1>0, <1>1, <1>4, <1>5, <1>9, <2>1, <2>2, <2>3, EndeKeeps
<1>. QED
  BY <1>7, <1>8, <1>9 DEF Answered

LEMMA HeadReadMoves ==
    ASSUME Base, NEW r \in Requests, NEW s, s = request[r].session, NEW d, d = request[r].load,
           Free(Dispatcher), request[r].at = "head", NEW q \in InFlight(s), made < MaxRequests,
           request' = Asked(d, Proceeded(request, r, q)),
           made' = IF Over(d) THEN made ELSE made + 1,
           load' = [load EXCEPT ![d] = IF Over(d) THEN Crashed(@)
                                       ELSE [@ EXCEPT !.redirected = TRUE, !.moved = TRUE, !.tries = 1]],
           IF Over(d) THEN UNCHANGED call ELSE Goto(Dispatcher, "ask", made + 1, None),
           UNCHANGED <<sessionVars, reports, faults, raced>>
    PROVE  Base'
<1>0. TypeOK /\ call[Dispatcher].at = "idle"
  BY Parts DEF Free, At
<1>1. /\ s \in Sessions /\ d \in Downloads /\ load[d] \in Load /\ load[d].state # "none"
      /\ q \in Requests /\ (q = r \/ s \in raced)
      /\ ~load[d].moved => load[d].state = "running"
  BY UnderWay
<1>2. CASE Over(d)
  <2>. DEFINE x == Crashed(load[d])
  <2>1. x \in Load /\ x.state = "crashed" /\ x.moved = load[d].moved
    BY <1>1 DEF Crashed, Load
  <2>2. load' = [load EXCEPT ![d] = x] /\ request' = Proceeded(request, r, q) /\ made' = made /\ call' = call
    BY <1>2 DEF Asked
  <2>. HIDE DEF x
  <2>3. /\ load' \in [Downloads -> Load] /\ load'[d] = x
        /\ \A y \in Downloads : y # d => load'[y] = load[y]
    BY <1>0, <1>1, <2>1, <2>2, LoadPut
  <2>4. load'[d].moved /\ load'[d].state # "none"
    BY <1>1, <1>2, <2>1, <2>3 DEF Over
  <2>5. /\ request' \in [Requests -> Request] /\ request'[r].at = "proceeding" /\ request'[r].answer = q
        /\ request'[r].load = d /\ request'[r].session = s
        /\ \A p \in Requests : p # r => request'[p] = request[p]
    BY <1>0, <1>1, <2>2, ProceededFacts DEF TypeOK
  <2>6. StayedWell(r, d)
    BY <2>4 DEF StayedWell
  <2>7. UNCHANGED <<sessionVars, made, reports, call, faults, raced>>
    BY <2>2
  <2>8. /\ request'[r].answer \in {None, r} \/ s \in raced
        /\ request[r].at \in {"head", "proceeding"} /\ request'[r].at \in {"proceeding", "content"}
        /\ request[r].session = s /\ request[r].load = d
    BY <1>1, <2>5
  <2>. QED
    BY <1>1, <2>3, <2>5, <2>6, <2>7, <2>8, StayKeeps
<1>3. CASE ~Over(d)
  <2>. DEFINE x == [[[load[d] EXCEPT !.redirected = TRUE] EXCEPT !.moved = TRUE] EXCEPT !.tries = 1]
              n == made + 1
  <2>1. x \in Load /\ x.state = load[d].state /\ x.moved
    BY <1>1 DEF Load
  <2>2. /\ load' = [load EXCEPT ![d] = x] /\ made' = n
        /\ request' = MadeFor(Proceeded(request, r, q), n, d) /\ Goto(Dispatcher, "ask", n, None)
    BY <1>3 DEF Asked, MadeFor
  <2>. HIDE DEF x
  <2>3. /\ load' \in [Downloads -> Load] /\ load'[d] = x
        /\ \A y \in Downloads : y # d => load'[y] = load[y]
    BY <1>0, <1>1, <2>1, <2>2, LoadPut
  <2>4. load'[d].moved /\ load'[d].state = load[d].state
    BY <2>1, <2>3
  <2>. QED
    BY <1>0, <1>1, <2>2, <2>3, <2>4, AsksAgain
<1>. QED
  BY <1>2, <1>3

LEMMA HeadReadKeeps ==
    ASSUME Base, NEW r \in Requests, HeadRead(r)
    PROVE  Base'
<1>. DEFINE s == request[r].session
            d == request[r].load
<1>1. Free(Dispatcher) /\ request[r].at = "head" /\ UNCHANGED <<sessionVars, faults, raced>>
  BY DEF HeadRead, Working
<1>2. PICK q \in InFlight(s) :
          \/ /\ Answered([request EXCEPT ![r].answer = q,
                                         ![r].code = IF Over(d) THEN "unwanted" ELSE "ok"], r)
             /\ load' = [load EXCEPT ![d].redirected = FALSE]
             /\ UNCHANGED made
          \/ /\ made < MaxRequests
             /\ request' = Asked(d, [request EXCEPT ![r].answer = q, ![r].at = "proceeding",
                                                     ![r].code = "moved"])
             /\ made' = IF Over(d) THEN made ELSE made + 1
             /\ load' = [load EXCEPT ![d] =
                    IF Over(d) THEN Crashed(@)
                    ELSE [@ EXCEPT !.redirected = TRUE, !.moved = TRUE, !.tries = 1]]
             /\ IF Over(d) THEN UNCHANGED call ELSE Goto(Dispatcher, "ask", made + 1, None)
             /\ UNCHANGED reports
  BY DEF HeadRead
<1>3. CASE /\ Answered([request EXCEPT ![r].answer = q,
                                       ![r].code = IF Over(d) THEN "unwanted" ELSE "ok"], r)
           /\ load' = [load EXCEPT ![d].redirected = FALSE]
           /\ UNCHANGED made
  <2>. DEFINE code == IF Over(d) THEN "unwanted" ELSE "ok"
  <2>1. code \in {"ok", "unwanted"}
    OBVIOUS
  <2>2. Answered(ReadAs(request, r, q, code), r)
    BY <1>3 DEF ReadAs
  <2>. QED
    BY <1>1, <1>3, <2>1, <2>2, HeadReadStays
<1>4. CASE /\ request' = Asked(d, [request EXCEPT ![r].answer = q, ![r].at = "proceeding",
                                                   ![r].code = "moved"])
           /\ made < MaxRequests
           /\ made' = IF Over(d) THEN made ELSE made + 1
           /\ load' = [load EXCEPT ![d] =
                  IF Over(d) THEN Crashed(@)
                  ELSE [@ EXCEPT !.redirected = TRUE, !.moved = TRUE, !.tries = 1]]
           /\ IF Over(d) THEN UNCHANGED call ELSE Goto(Dispatcher, "ask", made + 1, None)
           /\ UNCHANGED reports
  <2>1. request' = Asked(d, Proceeded(request, r, q))
    BY <1>4 DEF Proceeded
  <2>2. UNCHANGED <<sessionVars, reports, faults, raced>>
    BY <1>1, <1>4
  <2>. QED
    BY <1>1, <1>4, <2>1, <2>2, HeadReadMoves
<1>. QED
  BY <1>2, <1>3, <1>4

LEMMA ProceedKeeps ==
    ASSUME Base, NEW r \in Requests, Proceed(r)
    PROVE  Base'
<1>0. TypeOK
  BY Parts
<1>1. /\ call[Dispatcher].at = "idle" /\ request[r].at = "proceeding" /\ load' = load
      /\ UNCHANGED <<sessionVars, made, faults, raced>>
  BY DEF Proceed, At, Proceeding
<1>2. PICK s \in Sessions : s = request[r].session
  BY <1>1, UnderWay
<1>3. PICK d \in Downloads : d = request[r].load
  BY <1>1, UnderWay
<1>4. /\ load[d].moved /\ load[d].state # "none"
      /\ request[r].answer \in {None, r} \/ s \in raced
  BY <1>1, <1>2, <1>3, UnderWay
<1>5. request \in [Requests -> Request] /\ load' \in [Downloads -> Load]
      /\ \A y \in Downloads : y # d => load'[y] = load[y]
  BY <1>0, <1>1 DEF TypeOK
<1>6. CASE request' = [request EXCEPT ![r].at = "content"] /\ UNCHANGED <<reports, call>>
  <2>1. /\ request' \in [Requests -> Request] /\ request'[r].at = "content" /\ Like(request'[r], request[r])
        /\ \A p \in Requests : p # r => request'[p] = request[p]
    <3>1. request' = MovedTo(request, r, "content")
      BY <1>6 DEF MovedTo
    <3>2. /\ MovedTo(request, r, "content") \in [Requests -> Request]
          /\ MovedTo(request, r, "content")[r].at = "content" /\ Like(MovedTo(request, r, "content")[r], request[r])
          /\ \A p \in Requests : p # r => MovedTo(request, r, "content")[p] = request[p]
      BY <1>5, MovedFacts DEF Places
    <3>. QED
      BY <3>1, <3>2
  <2>2. StayedWell(r, d)
    BY <1>1, <1>4 DEF StayedWell
  <2>3. /\ request'[r].answer \in {None, r} \/ s \in raced
        /\ request[r].at \in {"head", "proceeding"} /\ request'[r].at \in {"proceeding", "content"}
        /\ request'[r].session = s /\ request'[r].load = d
    BY <1>1, <1>2, <1>3, <1>4, <2>1 DEF Like
  <2>4. UNCHANGED <<sessionVars, made, reports, call, faults, raced>>
    BY <1>1, <1>6
  <2>. QED
    BY <1>2, <1>3, <1>5, <2>1, <2>2, <2>3, <2>4, StayKeeps
<1>7. CASE Ende(request, r)
  <2>1. LeftWell(request, r, d, "done")
    BY <1>1, <1>4 DEF LeftWell
  <2>. QED
    BY <1>1, <1>2, <1>3, <1>4, <1>5, <1>7, <2>1, EndeKeeps
<1>. QED
  BY <1>6, <1>7 DEF Proceed, Answered

\* What was read is written to the stream of the download.
LEMMA WrittenFacts ==
    ASSUME NEW r \in Requests, NEW y \in Load
    PROVE  /\ Written(r, y) \in Load /\ Written(r, y).state = y.state
           /\ Written(r, y).redirected = y.redirected /\ Written(r, y).moved = y.moved
           /\ Written(r, y).content \subseteq y.content \cup {r}
<1>. DEFINE c == IF request[r].code = "ok" THEN y.content \cup {r} ELSE y.content
<1>1. c \in SUBSET Requests /\ c \subseteq y.content \cup {r}
  BY DEF Load
<1>2. Written(r, y) = [y EXCEPT !.content = c]
  BY DEF Written
<1>. HIDE DEF c
<1>. QED
  BY <1>1, <1>2 DEF Load

LEMMA BodyReadKeeps ==
    ASSUME Base, NEW r \in Requests, BodyRead(r)
    PROVE  Base'
<1>0. TypeOK
  BY Parts
<1>1. /\ call[Dispatcher].at = "idle" /\ request[r].at = "content" /\ Ende(request, r)
      /\ UNCHANGED <<sessionVars, made, faults, raced>>
  BY DEF BodyRead, Working, Free, At
<1>2. PICK s \in Sessions : s = request[r].session
  BY <1>1, UnderWay
<1>3. PICK d \in Downloads : d = request[r].load
  BY <1>1, UnderWay
<1>4. /\ load[d] \in Load /\ (request[r].answer \in {None, r} \/ s \in raced)
      /\ ~load[d].moved => ~load[d].redirected /\ request[r].code = "ok"
  BY <1>1, <1>2, <1>3, UnderWay
<1>. DEFINE x == Written(r, load[d])
<1>5. load' = [load EXCEPT ![d] = x]
  BY <1>3 DEF BodyRead, Written
<1>6. /\ x \in Load /\ x.state = load[d].state /\ x.redirected = load[d].redirected
      /\ x.moved = load[d].moved /\ x.content \subseteq load[d].content \cup {r}
  BY <1>4, WrittenFacts
<1>. HIDE DEF x
<1>7. /\ load' \in [Downloads -> Load] /\ load'[d] = x
      /\ \A y \in Downloads : y # d => load'[y] = load[y]
  BY <1>0, <1>5, <1>6, LoadPut
<1>8. LeftWell(request, r, d, "done")
  BY <1>4, <1>6, <1>7 DEF LeftWell
<1>9. request \in [Requests -> Request]
  BY <1>0 DEF TypeOK
<1>. QED
  BY <1>1, <1>2, <1>3, <1>4, <1>7, <1>8, <1>9, EndeKeeps

LEMMA ExchangeFailsKeeps ==
    ASSUME Base, NEW r \in Requests, ExchangeFails(r)
    PROVE  Base'
<1>0. TypeOK
  BY Parts
<1>1. /\ call[Dispatcher].at = "idle" /\ request[r].at \in {"head", "content"}
      /\ Fails(Dispatcher, r) /\ UNCHANGED <<opened, table, operating, lock, made, raced>>
  BY DEF ExchangeFails, Free, At
<1>2. PICK s \in Sessions : s = request[r].session
  BY <1>1, UnderWay
<1>3. PICK d \in Downloads : d = request[r].load
  BY <1>1, UnderWay
<1>4. /\ load[d] \in Load /\ (request[r].answer \in {None, r} \/ s \in raced)
      /\ ~load[d].moved => ~load[d].redirected
  BY <1>1, <1>2, <1>3, UnderWay
<1>5. /\ load' \in [Downloads -> Load] /\ (\A y \in Downloads : y # d => load'[y] = load[y])
      /\ LeftWell(request, r, d, "failed")
  <2>1. CASE UNCHANGED load
    BY <1>0, <1>4, <2>1 DEF TypeOK, LeftWell
  <2>2. CASE load' = [load EXCEPT ![d] = Written(r, @)]
    <3>. DEFINE x == Written(r, load[d])
    <3>1. load' = [load EXCEPT ![d] = x]
      BY <2>2 DEF Written
    <3>2. /\ x \in Load /\ x.state = load[d].state /\ x.redirected = load[d].redirected
          /\ x.moved = load[d].moved /\ x.content \subseteq load[d].content \cup {r}
      BY <1>4, WrittenFacts
    <3>. HIDE DEF x
    <3>3. /\ load' \in [Downloads -> Load] /\ load'[d] = x
          /\ \A y \in Downloads : y # d => load'[y] = load[y]
      BY <1>0, <3>1, <3>2, LoadPut
    <3>. QED
      BY <1>4, <3>2, <3>3 DEF LeftWell
  <2>. QED
    BY <1>3, <2>1, <2>2 DEF ExchangeFails
<1>6. /\ session' \in [Sessions -> Session] /\ session'[s].status = session[s].status
      /\ session'[s].waiting = session[s].waiting /\ session'[s].busy = session[s].busy
      /\ session'[s].queue = session[s].queue /\ (Connecting(s)' => Connecting(s))
      /\ (\A y \in Sessions : y # s => session'[y] = session[y]) /\ faults' \in Nat
  <2>1. CASE UNCHANGED <<session, faults>>
    BY <1>0, <2>1 DEF TypeOK, Connecting
  <2>2. CASE session' = [session EXCEPT ![s].channel = "closed"] /\ faults' = faults + 1
    <3>. DEFINE x == [session[s] EXCEPT !.channel = "closed"]
    <3>1. /\ x \in Session /\ x.status = session[s].status /\ x.waiting = session[s].waiting
          /\ x.busy = session[s].busy /\ x.queue = session[s].queue /\ x.channel = "closed"
      <4>1. session[s] \in Session
        BY <1>0, Types
      <4>. QED
        BY <4>1 DEF Session
    <3>2. session' = [session EXCEPT ![s] = x]
      BY <2>2
    <3>. HIDE DEF x
    <3>3. /\ session' \in [Sessions -> Session] /\ session'[s] = x
          /\ \A y \in Sessions : y # s => session'[y] = session[y]
      BY <1>0, <3>1, <3>2, SessionPut
    <3>4. faults' \in Nat
      BY <1>0, <2>2 DEF TypeOK
    <3>. QED
      BY <3>1, <3>3, <3>4 DEF Connecting
  <2>. QED
    BY <1>2, <2>1, <2>2 DEF ExchangeFails
<1>7. reports' = ToldOne(s, r, "failed") /\ request' = PlacedOne(request, s, r) /\ Goto(Dispatcher, "siste", None, s)
  BY <1>1, <1>2 DEF Fails, ToldOne, PlacedOne
<1>8. "failed" \in Outcomes /\ request \in [Requests -> Request]
      /\ request[r].at \in {"head", "proceeding", "content"}
  BY <1>0, <1>1 DEF Outcomes, TypeOK
<1>. QED
  BY <1>1, <1>2, <1>3, <1>4, <1>5, <1>6, <1>7, <1>8, LeaveKeeps

----------------------------------------------------------------------------
(* The task queue tells a responder what became of its request.            *)
Top(r, how, d) == r = Head(reports).r /\ how = Head(reports).how /\ d = request[r].load

LEMMA TopFacts ==
    ASSUME Base, reports # <<>>, reports' = Tail(reports), NEW r, NEW how, NEW d, Top(r, how, d)
    PROVE  /\ r \in Requests /\ request[r].at = "told" /\ how \in Outcomes
           /\ reports' \in Seq(Report1)
           /\ \A i \in 1 .. Len(reports') : /\ \E k \in 1 .. Len(reports) : reports[k] = reports'[i]
                                            /\ reports'[i].r \in Requests /\ reports'[i].r # r
                                            /\ request[reports'[i].r].at = "told"
           /\ d \in Downloads /\ load[d] \in Load /\ load[d].state # "none" /\ ~(r > made)
           /\ ~load[d].moved => /\ load[d].state = "running" /\ ~load[d].redirected
                                /\ load[d].content \subseteq {r}
                                /\ how = "done" => request[r].code = "ok"
                                /\ \A q \in Requests : Ours(d, q) => q = r
<1>0. TypeOK /\ ToldOnce /\ Downloading /\ reports \in Seq(Report1)
  BY Parts, Types
<1>1. \A i \in 1 .. Len(reports) : reports[i].r \in Requests /\ reports[i].how \in Outcomes
                                   /\ request[reports[i].r].at = "told"
  BY <1>0, ReportFacts DEF ToldOnce
<1>2. /\ Len(reports) \in Nat \ {0} /\ Len(reports') = Len(reports) - 1
      /\ \A i \in 1 .. Len(reports) - 1 : reports'[i] = reports[i + 1]
      /\ r = reports[1].r /\ how = reports[1].how /\ reports' \in Seq(Report1)
  BY <1>0, TailFacts DEF Top
<1>3. 1 \in 1 .. Len(reports)
  BY <1>2
<1>4. r \in Requests /\ request[r].at = "told" /\ how \in Outcomes
  BY <1>1, <1>2, <1>3
<1>5. \A i \in 1 .. Len(reports') : i + 1 \in 1 .. Len(reports) /\ reports'[i] = reports[i + 1] /\ i + 1 # 1
  BY <1>2
<1>6. \A i \in 1 .. Len(reports') : /\ \E k \in 1 .. Len(reports) : reports[k] = reports'[i]
                                    /\ reports'[i].r \in Requests /\ reports'[i].r # r
                                    /\ request[reports'[i].r].at = "told"
  BY <1>0, <1>1, <1>2, <1>3, <1>5 DEF ToldOnce
<1>7. d \in Downloads /\ load[d] \in Load /\ load[d].state # "none" /\ ~(r > made)
  BY <1>0, <1>4, Started, Types DEF Live, Top
<1>8. ASSUME ~load[d].moved
      PROVE  /\ load[d].state = "running" /\ ~load[d].redirected
             /\ load[d].content \subseteq {r}
             /\ how = "done" => request[r].code = "ok"
             /\ \A q \in Requests : Ours(d, q) => q = r
  <2>1. Straight(d) /\ Ours(d, r)
    BY <1>0, <1>4, <1>7, <1>8 DEF Downloading, Ours, Live, Top
  <2>2. how = "done" => request[r].code = "ok"
    BY <1>2, <1>3, <2>1 DEF Straight, Well, Top
  <2>. QED
    BY <1>4, <2>1, <2>2 DEF Straight, TryRuns, OneTry, Ended
<1>. QED
  BY <1>2, <1>4, <1>6, <1>7, <1>8

LEMMA AgainFacts ==
    ASSUME NEW y \in Load
    PROVE  /\ Again(y) \in Load /\ Again(y).state = y.state /\ Again(y).redirected = y.redirected
           /\ Again(y).content = {} /\ Again(y).moved = y.moved
<1>. DEFINE z == [y EXCEPT !.content = {}]
<1>1. /\ z \in Load /\ z.state = y.state /\ z.redirected = y.redirected
      /\ z.content = {} /\ z.moved = y.moved
  BY DEF Load
<1>2. Again(y) = Tried(z)
  BY DEF Again
<1>. HIDE DEF z
<1>. QED
  BY <1>1, <1>2, TriedFacts

LEMMA ReportAgain ==
    ASSUME Base, call[Queue].at = "idle", reports # <<>>, reports' = Tail(reports),
           NEW r \in Requests, NEW how, NEW d \in Downloads, Top(r, how, d),
           made < MaxRequests, NEW n, n = made + 1, made' = n,
           request' = MadeFor(MovedTo(request, r, "reported"), n, d),
           load' \in [Downloads -> Load], load'[d].state = load[d].state,
           load'[d].redirected = load[d].redirected, load'[d].content = {}, load'[d].moved = load[d].moved,
           \A y \in Downloads : y # d => load'[y] = load[y], Goto(Queue, "ask", n, None),
           UNCHANGED <<sessionVars, faults, raced>>
    PROVE  Base'
<1>0. /\ TypeOK /\ Blank /\ Inside /\ CarriedOnce /\ WaitingOnce /\ ToldOnce
      /\ (\A x \in Sessions : Serving(x)) /\ Unanswered /\ AnswersOwn /\ Downloading
  BY Parts
<1>1. n \in Requests /\ made \in Nat /\ request[n] = NoRequest
  BY <1>0, Numbers DEF TypeOK, Blank, Requests
<1>2. Queue \in Actors
  BY DEF Actors
<1>3. /\ session' = session /\ opened' = opened /\ table' = table /\ operating' = operating
      /\ lock' = lock /\ faults' = faults /\ raced' = raced /\ made' = n
  BY DEF sessionVars
<1>4. /\ r \in Requests /\ request[r].at = "told"
      /\ reports' \in Seq(Report1)
      /\ \A i \in 1 .. Len(reports') : /\ \E k \in 1 .. Len(reports) : reports[k] = reports'[i]
                                       /\ reports'[i].r \in Requests /\ reports'[i].r # r
                                       /\ request[reports'[i].r].at = "told"
      /\ d \in Downloads /\ load[d] \in Load /\ load[d].state # "none" /\ ~(r > made)
      /\ ~load[d].moved => /\ load[d].state = "running" /\ ~load[d].redirected
                           /\ \A q \in Requests : Ours(d, q) => q = r
  BY TopFacts
<1>5. /\ request[n].at = "unmade" /\ request[n].load = None /\ request[n].session = None
      /\ request[n].answer = None /\ n # r
  BY <1>1, <1>4 DEF NoRequest
<1>6. /\ request' \in [Requests -> Request]
      /\ request'[n].at = "made" /\ request'[n].load = d /\ request'[n].session = None
      /\ request'[n].answer = None
      /\ request'[r].at = "reported" /\ Like(request'[r], request[r])
      /\ request[r].load = d
      /\ \A p \in Requests : p # n /\ p # r => request'[p] = request[p]
  <2>. DEFINE rq == MovedTo(request, r, "reported")
  <2>1. /\ rq \in [Requests -> Request] /\ rq[r].at = "reported" /\ Like(rq[r], request[r])
        /\ \A p \in Requests : p # r => rq[p] = request[p]
    BY <1>0, <1>4, MovedFacts, SMTT(40) DEF TypeOK, Places
  <2>2. request' = MadeFor(rq, n, d)
    OBVIOUS
  <2>. HIDE DEF rq
  <2>3. /\ MadeFor(rq, n, d) \in [Requests -> Request]
        /\ MadeFor(rq, n, d)[n].at = "made" /\ MadeFor(rq, n, d)[n].load = d
        /\ MadeFor(rq, n, d)[n].session = rq[n].session /\ MadeFor(rq, n, d)[n].answer = rq[n].answer
        /\ \A p \in Requests : p # n => MadeFor(rq, n, d)[p] = rq[p]
    BY <1>1, <1>4, <2>1, MadeFacts
  <2>4. rq[n] = request[n]
    BY <1>1, <1>5, <2>1
  <2>5. request'[r] = rq[r]
    BY <1>4, <1>5, <2>2, <2>3
  <2>8. request[r].load = d
    BY DEF Top
  <2>6. \A p \in Requests : p # n /\ p # r => request'[p] = request[p]
    BY <2>1, <2>2, <2>3
  <2>7. /\ request' \in [Requests -> Request]
        /\ request'[n].at = "made" /\ request'[n].load = d /\ request'[n].session = None
        /\ request'[n].answer = None
    BY <1>5, <2>2, <2>3, <2>4
  <2>. QED
    BY <2>1, <2>5, <2>8, <2>6, <2>7
<1>7. /\ request'[r].load = d /\ request'[r].session = request[r].session
      /\ request'[r].code = request[r].code /\ request'[r].answer = request[r].answer
  BY <1>6 DEF Like
<1>8. /\ call'[Queue].at = "ask" /\ call'[Queue].r = n /\ call'[Queue].s = None
      /\ \A b \in Actors : b # Queue => call'[b] = call[b]
      /\ call' \in [Actors -> CallRecord]
  <2>1. "ask" \in Stages /\ n \in Requests \cup {None}
    BY <1>1 DEF Stages
  <2>. QED
    BY <1>0, <1>2, <2>1, Going
<1>9. /\ load' \in [Downloads -> Load]
      /\ load'[d].state = load[d].state /\ load'[d].redirected = load[d].redirected
      /\ load'[d].content = {} /\ load'[d].moved = load[d].moved
      /\ \A y \in Downloads : y # d => load'[y] = load[y]
  OBVIOUS
<1>10. TypeOK'
  BY <1>0, <1>1, <1>3, <1>4, <1>6, <1>8, <1>9 DEF TypeOK, CallRecord, Requests, Report1
<1>11. Blank'
  <2>1. \A p \in Requests : (p > n => p > made /\ p # n /\ p # r) /\ (p <= n => p <= made \/ p = n)
    BY <1>0, <1>1, <1>4, Numbers DEF TypeOK
  <2>2. \A p \in Requests : /\ p > made' => request'[p] = NoRequest
                            /\ p <= made' => request'[p].at # "unmade" /\ request'[p].load \in Downloads
                            /\ request'[p].session # None => request'[p].session <= opened'
    BY <1>0, <1>3, <1>4, <1>5, <1>6, <1>7, <2>1 DEF Blank
  <2>3. \A b \in Actors : call'[b].s # None => call'[b].s <= opened'
    BY <1>0, <1>3, <1>8 DEF Blank
  <2>4. \A y \in Downloads : load'[y].state = "none" => load'[y] = NewLoad
    BY <1>0, <1>4, <1>9 DEF Blank
  <2>. QED
    BY <1>0, <1>3, <2>2, <2>3, <2>4 DEF Blank
<1>12. Inside'
  BY <1>0, <1>3, <1>6, <1>8 DEF Inside, Living
<1>13. CarriedOnce'
  <2>1. ~Asking(Queue) /\ Asking(Queue)' /\ call'[Queue].r = n
    BY <1>8 DEF Asking
  <2>2. \A b \in Actors : b # Queue => (Asking(b)' <=> Asking(b)) /\ call'[b].r = call[b].r
    BY <1>8 DEF Asking
  <2>3. request[n].at # "made" /\ request'[n].at = "made"
        /\ \A p \in Requests : p # n => (request'[p].at = "made" <=> request[p].at = "made")
    BY <1>4, <1>5, <1>6
  <2>. QED
    BY <1>0, <1>1, <1>2, <2>1, <2>2, <2>3, CarriedNew
<1>14. WaitingOnce'
  <2>1. Placing /\ WaitingOnce
    BY <1>0 DEF Placing, Inside
  <2>2. \A x \in Sessions : session[x].waiting \in Seq(Requests) /\ session'[x].waiting = session[x].waiting
    BY <1>0, <1>3, Types
  <2>3. \A p \in Requests : /\ request'[p].at = "waiting" <=> request[p].at = "waiting"
                            /\ request[p].at = "waiting" => request'[p].session = request[p].session
    BY <1>4, <1>5, <1>6
  <2>. QED
    BY <2>1, <2>2, <2>3, WaitingSame
<1>15. ToldOnce'
  <2>1. request'[Head(reports).r].at # "told"
        /\ \A p \in Requests : p # Head(reports).r => (request'[p].at = "told" <=> request[p].at = "told")
    BY <1>5, <1>6 DEF Top
  <2>. QED
    BY <1>0, <2>1, ToldLess, Types
<1>16. \A x \in Sessions : Serving(x)'
  <2>. TAKE x \in Sessions
  <2>1. \A b \in Actors : (Res(b, x)' <=> Res(b, x)) /\ (Stp(b, x)' <=> Stp(b, x))
    BY <1>8 DEF Res, Stp
  <2>2. \A p \in Requests : Fly(p, x)' <=> Fly(p, x)
    BY <1>4, <1>5, <1>6 DEF Fly
  <2>3. Untouched(x)
    BY <1>3, <2>1, <2>2 DEF Untouched, Quiet
  <2>. QED
    BY <1>0, <2>3, ServingSame
<1>17. Unanswered' /\ AnswersOwn'
  BY <1>0, <1>3, <1>6, <1>7 DEF Unanswered, AnswersOwn
<1>18. Downloading'
  <2>1. \A y \in Downloads : y # d => Steady(y)
    <3>. TAKE y \in Downloads
    <3>. HAVE y # d
    <3>1. SameLoad(y)
      BY <1>9 DEF SameLoad
    <3>2. SameRequests(y)
      BY <1>5, <1>6, <1>7, Distinct DEF SameRequests
    <3>3. SameReports(y)
      BY <1>4 DEF SameReports
    <3>. QED
      BY <3>1, <3>2, <3>3 DEF Steady
  <2>2. ASSUME ~load'[d].moved
        PROVE  Straight(d)'
    <3>1. /\ load[d].state = "running" /\ ~load[d].redirected
          /\ \A q \in Requests : Ours(d, q) => q = r
      BY <1>4, <1>9, <2>2
    <3>2. \A q \in Requests : Ours(d, q)' => q = n
      BY <1>6, <3>1 DEF Ours, Live
    <3>3. OneTry(d)' /\ TryRuns(d)'
      BY <1>9, <3>1, <3>2 DEF OneTry, TryRuns
    <3>4. Well(d)'
      <4>1. \A i \in 1 .. Len(reports') : request'[reports'[i].r].load # d
        BY <1>4, <1>5, <1>6, <3>1 DEF Ours, Live
      <4>. QED
        BY <1>6, <3>2, <4>1 DEF Well
    <3>5. Ended(d)'
      BY <1>9, <3>1 DEF Ended, Over
    <3>. QED
      BY <3>3, <3>4, <3>5 DEF Straight
  <2>. QED
    BY <1>0, <1>4, <2>1, <2>2, DownloadingBut
<1>. QED
  BY <1>10, <1>11, <1>12, <1>13, <1>14, <1>15, <1>16, <1>17, <1>18, Whole

\* What a responder leaves its download with, if it asks no more.
ReportedWell(r, d, how) ==
    /\ load'[d].state # "none"
    /\ ~load'[d].moved =>
         /\ ~load[d].moved /\ ~load'[d].redirected
         /\ load'[d].content = load[d].content
         /\ \/ how = "done" /\ load'[d].state = "done" /\ load'[d].final = r
            \/ load'[d].state = "failed" /\ load'[d].final = None

LEMMA ReportEnds ==
    ASSUME Base, reports # <<>>, reports' = Tail(reports),
           NEW r \in Requests, NEW how, NEW d \in Downloads, Top(r, how, d),
           request' = MovedTo(request, r, "reported"),
           load' \in [Downloads -> Load], \A y \in Downloads : y # d => load'[y] = load[y],
           ReportedWell(r, d, how), UNCHANGED <<sessionVars, made, call, faults, raced>>
    PROVE  Base'
<1>0. /\ TypeOK /\ Blank /\ Inside /\ CarriedOnce /\ WaitingOnce /\ ToldOnce
      /\ (\A x \in Sessions : Serving(x)) /\ Unanswered /\ AnswersOwn /\ Downloading
  BY Parts
<1>1. /\ session' = session /\ opened' = opened /\ table' = table /\ operating' = operating
      /\ lock' = lock /\ faults' = faults /\ raced' = raced /\ made' = made /\ call' = call
  BY DEF sessionVars
<1>2. /\ r \in Requests /\ request[r].at = "told"
      /\ reports' \in Seq(Report1)
      /\ \A i \in 1 .. Len(reports') : /\ \E k \in 1 .. Len(reports) : reports[k] = reports'[i]
                                       /\ reports'[i].r \in Requests /\ reports'[i].r # r
                                       /\ request[reports'[i].r].at = "told"
      /\ d \in Downloads /\ load[d] \in Load /\ load[d].state # "none" /\ ~(r > made)
      /\ ~load[d].moved => /\ load[d].state = "running" /\ ~load[d].redirected
                           /\ load[d].content \subseteq {r}
                           /\ how = "done" => request[r].code = "ok"
                           /\ \A q \in Requests : Ours(d, q) => q = r
  BY TopFacts
<1>3. /\ request' \in [Requests -> Request]
      /\ request'[r].at = "reported" /\ Like(request'[r], request[r])
      /\ \A p \in Requests : p # r => request'[p] = request[p]
  BY <1>0, <1>2, MovedFacts DEF TypeOK, Places
<1>4. /\ request'[r].load = d /\ request'[r].session = request[r].session
      /\ request'[r].code = request[r].code /\ request'[r].answer = request[r].answer
      /\ request[r].load = d
  BY <1>3 DEF Like, Top
<1>5. TypeOK'
  BY <1>0, <1>1, <1>2, <1>3 DEF TypeOK, Report1
<1>6. Blank'
  <2>1. \A p \in Requests : /\ p > made' => request'[p] = NoRequest
                            /\ p <= made' => request'[p].at # "unmade" /\ request'[p].load \in Downloads
                            /\ request'[p].session # None => request'[p].session <= opened'
    BY <1>0, <1>1, <1>2, <1>3, <1>4 DEF Blank
  <2>2. \A y \in Downloads : load'[y].state = "none" => load'[y] = NewLoad
    BY <1>0 DEF Blank, ReportedWell
  <2>. QED
    BY <1>0, <1>1, <2>1, <2>2 DEF Blank
<1>7. Inside'
  BY <1>0, <1>1, <1>3 DEF Inside, Living
<1>8. CarriedOnce'
  BY <1>0, <1>1, <1>2, <1>3, CarriedSame DEF Asking
<1>9. WaitingOnce'
  BY <1>0, <1>1, <1>2, <1>3, WaitingSame, Types DEF Placing, Inside
<1>10. ToldOnce'
  BY <1>0, <1>3, ToldLess, Types DEF Top
<1>11. \A x \in Sessions : Serving(x)'
  <2>. TAKE x \in Sessions
  <2>1. \A p \in Requests : Fly(p, x)' <=> Fly(p, x)
    BY <1>2, <1>3 DEF Fly
  <2>2. Untouched(x)
    BY <1>1, <2>1 DEF Untouched, Quiet, Res, Stp
  <2>. QED
    BY <1>0, <2>2, ServingSame
<1>12. Unanswered' /\ AnswersOwn'
  BY <1>0, <1>1, <1>3, <1>4 DEF Unanswered, AnswersOwn
<1>13. Downloading'
  <2>1. \A y \in Downloads : y # d => Steady(y)
    <3>. TAKE y \in Downloads
    <3>. HAVE y # d
    <3>1. SameLoad(y)
      BY DEF SameLoad
    <3>2. SameRequests(y)
      BY <1>3, <1>4 DEF SameRequests
    <3>3. SameReports(y)
      BY <1>2 DEF SameReports
    <3>. QED
      BY <3>1, <3>2, <3>3 DEF Steady
  <2>2. ASSUME ~load'[d].moved
        PROVE  Straight(d)'
    <3>1. /\ ~load[d].moved /\ ~load'[d].redirected /\ load'[d].content = load[d].content
          /\ \/ how = "done" /\ load'[d].state = "done" /\ load'[d].final = r
             \/ load'[d].state = "failed" /\ load'[d].final = None
      BY <2>2 DEF ReportedWell
    <3>2. /\ load[d].content \subseteq {r} /\ (how = "done" => request[r].code = "ok")
          /\ \A q \in Requests : Ours(d, q) => q = r
      BY <1>2, <3>1
    <3>3. \A q \in Requests : ~Ours(d, q)'
      BY <1>3, <3>2 DEF Ours, Live
    <3>4. OneTry(d)' /\ TryRuns(d)'
      BY <3>3 DEF OneTry, TryRuns
    <3>5. Well(d)'
      <4>1. \A i \in 1 .. Len(reports') : request'[reports'[i].r].load # d
        BY <1>2, <1>3, <3>2 DEF Ours, Live
      <4>. QED
        BY <3>3, <4>1 DEF Well
    <3>6. Ended(d)'
      BY <1>2, <1>4, <3>1, <3>2, Numbers DEF Ended, Over, Sound
    <3>. QED
      BY <3>4, <3>5, <3>6 DEF Straight
  <2>. QED
    BY <1>0, <1>2, <2>1, <2>2, DownloadingBut
<1>. QED
  BY <1>5, <1>6, <1>7, <1>8, <1>9, <1>10, <1>11, <1>12, <1>13, Whole

LEMMA ReportKeeps ==
    ASSUME Base, Report
    PROVE  Base'
<1>. DEFINE r == Head(reports).r
            how == Head(reports).how
            d == request[r].load
            again == how = "failed" /\ load[d].tries < 3
<1>0. TypeOK
  BY Parts
<1>1. /\ call[Queue].at = "idle" /\ reports # <<>> /\ reports' = Tail(reports)
      /\ UNCHANGED <<sessionVars, faults, raced>>
  BY DEF Report, Free, At
<1>2. Top(r, how, d)
  BY DEF Top
<1>3. CASE again /\ ~Over(d) /\ made < MaxRequests
  <2>. DEFINE x == Again(load[d])
  <2>1. /\ made' = made + 1 /\ Goto(Queue, "ask", made + 1, None)
        /\ load' = [load EXCEPT ![d] = x]
        /\ request' = MadeFor(MovedTo(request, r, "reported"), made + 1, d)
    BY <1>3 DEF Report, Asked, MadeFor, MovedTo
  <2>2. r \in Requests /\ d \in Downloads /\ load[d] \in Load
    BY <1>1, <1>2, TopFacts
  <2>. HIDE DEF r, how, d, again
  <2>3. /\ x \in Load /\ x.state = load[d].state /\ x.redirected = load[d].redirected
        /\ x.content = {} /\ x.moved = load[d].moved
    BY <2>2, AgainFacts
  <2>. HIDE DEF x
  <2>4. /\ load' \in [Downloads -> Load] /\ load'[d] = x
        /\ \A y \in Downloads : y # d => load'[y] = load[y]
    BY <1>0, <2>1, <2>2, <2>3, LoadPut
  <2>5. /\ load'[d].state = load[d].state /\ load'[d].redirected = load[d].redirected
        /\ load'[d].content = {} /\ load'[d].moved = load[d].moved
    BY <2>3, <2>4
  <2>. QED
    BY <1>1, <1>3, <1>2, <2>1, <2>2, <2>4, <2>5, ReportAgain
<1>4. CASE ~(again /\ ~Over(d) /\ made < MaxRequests)
  <2>. DEFINE x == IF how = "done" THEN Completed(r, load[d])
                   ELSE IF again /\ Over(d) THEN Crashed(load[d]) ELSE Failed(load[d])
  <2>1. /\ load' = [load EXCEPT ![d] = x] /\ request' = MovedTo(request, r, "reported")
        /\ UNCHANGED <<made, call>>
    BY <1>4 DEF Report, MovedTo
  <2>2. /\ r \in Requests /\ d \in Downloads /\ load[d] \in Load /\ load[d].state # "none"
        /\ ~load[d].moved => load[d].state = "running" /\ ~load[d].redirected
    BY <1>1, <1>2, TopFacts
  <2>. HIDE DEF r, how, d, again
  <2>3. /\ x \in Load /\ x.redirected = load[d].redirected /\ x.moved = load[d].moved
        /\ x.content = load[d].content /\ x.state # "none"
        /\ ~load[d].moved => \/ how = "done" /\ x.state = "done" /\ x.final = r
                             \/ x.state = "failed" /\ x.final = None
    <3>1. CASE how = "done"
      <4>1. Done(load[d], r) \in Load /\ Done(load[d], r).redirected = load[d].redirected
            /\ Done(load[d], r).moved = load[d].moved /\ Done(load[d], r).content = load[d].content
            /\ Done(load[d], r).state = "done" /\ Done(load[d], r).final = r
        BY <2>2 DEF Done, Load
      <4>2. x = IF load[d].redirected THEN load[d] ELSE Done(load[d], r)
        BY <3>1 DEF Completed
      <4>. HIDE DEF x
      <4>. QED
        BY <2>2, <3>1, <4>1, <4>2
    <3>2. CASE how # "done" /\ again /\ Over(d)
      <4>1. Crashed(load[d]) \in Load /\ Crashed(load[d]).redirected = load[d].redirected
            /\ Crashed(load[d]).moved = load[d].moved /\ Crashed(load[d]).content = load[d].content
            /\ Crashed(load[d]).state = "crashed"
        BY <2>2 DEF Crashed, Load
      <4>2. load[d].moved /\ x = Crashed(load[d])
        BY <2>2, <3>2 DEF Over
      <4>. HIDE DEF x
      <4>. QED
        BY <4>1, <4>2
    <3>3. CASE how # "done" /\ ~(again /\ Over(d))
      <4>1. Failed(load[d]) \in Load /\ Failed(load[d]).redirected = load[d].redirected
            /\ Failed(load[d]).moved = load[d].moved /\ Failed(load[d]).content = load[d].content
            /\ Failed(load[d]).state = "failed" /\ Failed(load[d]).final = None
        BY <2>2 DEF Failed, Load
      <4>2. x = Failed(load[d])
        BY <3>3
      <4>. HIDE DEF x
      <4>. QED
        BY <4>1, <4>2
    <3>. QED
      BY <3>1, <3>2, <3>3
  <2>. HIDE DEF x
  <2>4. /\ load' \in [Downloads -> Load] /\ load'[d] = x
        /\ \A y \in Downloads : y # d => load'[y] = load[y]
    BY <1>0, <2>1, <2>2, <2>3, LoadPut
  <2>5. ReportedWell(r, d, how)
    BY <2>2, <2>3, <2>4 DEF ReportedWell
  <2>6. UNCHANGED <<sessionVars, made, call, faults, raced>>
    BY <1>1, <2>1
  <2>. QED
    BY <1>1, <1>2, <2>1, <2>2, <2>4, <2>5, <2>6, ReportEnds
<1>. QED
  BY <1>3, <1>4

----------------------------------------------------------------------------
(* The invariant holds at first and is kept by every step.                 *)
LEMMA InitInvariant == Init => IInv
<1>. SUFFICES ASSUME Init
              PROVE  IInv
  OBVIOUS
<1>1. /\ session = [s \in Sessions |-> NoSession] /\ opened = 0 /\ table = {} /\ operating = TRUE
      /\ lock = None /\ request = [r \in Requests |-> NoRequest] /\ made = 0 /\ reports = <<>>
      /\ load = [d \in Downloads |-> NewLoad] /\ call = [a \in Actors |-> Idle] /\ faults = 0
      /\ raced = {}
  BY DEF Init
<1>2. /\ NoSession \in Session /\ NoSession.status = "none" /\ NoSession.waiting = <<>>
      /\ NoSession.channel = "none"
  BY EmptySeq DEF NoSession, Session
<1>3. /\ NoRequest \in Request /\ NoRequest.at = "unmade" /\ NoRequest.session = None
      /\ NoRequest.answer = None
  BY DEF NoRequest, Request, Places
<1>4. NewLoad \in Load /\ NewLoad.state = "none" /\ NewLoad.redirected = FALSE
  BY DEF NewLoad, Load
<1>5. Idle \in CallRecord /\ Idle.at = "idle" /\ Idle.r = None /\ Idle.s = None
  BY DEF Idle, CallRecord, Stages
<1>. HIDE DEF NoSession, NoRequest, NewLoad, Idle
<1>6. /\ \A s \in Sessions : session[s] = NoSession
      /\ \A r \in Requests : request[r] = NoRequest
      /\ \A d \in Downloads : load[d] = NewLoad
      /\ \A a \in Actors : call[a] = Idle
      /\ Len(reports) = 0 /\ 1 .. 0 = {} /\ Len(<<>>) = 0
  BY <1>1
<1>7. TypeOK
  <2>1. 0 \in 0 .. MaxSessions /\ 0 \in 0 .. MaxRequests
    BY Numbers
  <2>2. reports \in Seq([r : Requests, how : Outcomes])
    BY <1>1, EmptySeq
  <2>. QED
    BY <1>1, <1>2, <1>3, <1>4, <1>5, <2>1, <2>2 DEF TypeOK, CallRecord
<1>8. Blank
  <2>1. \A r \in Requests : ~(r <= made)
    BY <1>1 DEF Requests
  <2>. QED
    BY <1>1, <1>3, <1>5, <1>6, <2>1 DEF Blank
<1>9. Inside
  BY <1>2, <1>3, <1>5, <1>6 DEF Inside, Living
<1>10. InPlace
  <2>1. CarriedOnce
    BY <1>3, <1>5, <1>6 DEF CarriedOnce, Asking
  <2>2. WaitingOnce
    BY <1>2, <1>3, <1>6 DEF WaitingOnce
  <2>3. ToldOnce
    BY <1>3, <1>6 DEF ToldOnce
  <2>. QED
    BY <2>1, <2>2, <2>3 DEF InPlace
<1>11. NobodyForgotten
  BY <1>2, <1>6 DEF NobodyForgotten, Living
<1>12. OneThing
  BY <1>2, <1>6 DEF OneThing, Living
<1>13. OneAtATime
  BY <1>3, <1>6 DEF OneAtATime, InFlight
<1>14. Unanswered /\ AnswersOwn
  BY <1>3, <1>6 DEF Unanswered, AnswersOwn
<1>15. Downloading
  <2>. SUFFICES ASSUME NEW d \in Downloads
                PROVE  Straight(d)
    BY DEF Downloading
  <2>1. \A r \in Requests : ~Ours(d, r)
    BY <1>3, <1>6 DEF Ours, Live
  <2>2. OneTry(d) /\ TryRuns(d)
    BY <2>1 DEF OneTry, TryRuns
  <2>3. Well(d)
    BY <1>6, <2>1 DEF Well
  <2>4. Ended(d)
    BY <1>4, <1>6 DEF Ended, Over
  <2>. QED
    BY <2>2, <2>3, <2>4 DEF Straight
<1>16. Hosted
  BY <1>3, <1>5, <1>6 DEF Hosted, At
<1>. QED
  BY <1>7, <1>8, <1>9, <1>10, <1>11, <1>12, <1>13, <1>14, <1>15, <1>16 DEF IInv, Base

LEMMA NothingHappens ==
    ASSUME Base, UNCHANGED vars
    PROVE  Base'
<1>0. /\ TypeOK /\ Blank /\ Inside /\ CarriedOnce /\ WaitingOnce /\ ToldOnce
      /\ (\A x \in Sessions : Serving(x)) /\ Unanswered /\ AnswersOwn /\ Downloading
  BY Parts
<1>1. /\ session' = session /\ opened' = opened /\ table' = table /\ operating' = operating
      /\ lock' = lock /\ request' = request /\ made' = made /\ reports' = reports /\ load' = load
      /\ call' = call /\ faults' = faults /\ raced' = raced
  BY DEF vars, sessionVars
<1>2. TypeOK'
  BY <1>0, <1>1 DEF TypeOK
<1>3. Blank'
  BY <1>0, <1>1 DEF Blank
<1>4. Inside'
  BY <1>0, <1>1 DEF Inside, Living
<1>5. CarriedOnce' /\ WaitingOnce' /\ ToldOnce'
  BY <1>0, <1>1 DEF CarriedOnce, WaitingOnce, ToldOnce, Asking
<1>6. \A x \in Sessions : Serving(x)'
  BY <1>0, <1>1, ServingSame DEF Untouched, Quiet, Res, Stp, Fly
<1>7. Unanswered' /\ AnswersOwn'
  BY <1>0, <1>1 DEF Unanswered, AnswersOwn
<1>8. Downloading'
  <2>1. \A y \in Downloads : Steady(y)
    BY <1>1 DEF Steady, SameLoad, SameRequests, SameReports
  <2>. QED
    BY <1>0, <2>1, DownloadingSame
<1>. QED
  BY <1>2, <1>3, <1>4, <1>5, <1>6, <1>7, <1>8, Whole

LEMMA BaseStep == Base /\ [Next]_vars => Base'
<1>. SUFFICES ASSUME Base, [Next]_vars
              PROVE  Base'
  OBVIOUS
<1>1. ASSUME NEW t \in Threads, NEW d \in Downloads, Start(t, d) PROVE Base'
  BY <1>1, StartMakes, StartFails
<1>2. ASSUME NEW a \in Actors, Carry(a) PROVE Base'
  BY <1>2, AskKeeps, RequireKeeps, ResumeKeeps, SisteKeeps DEF Carry
<1>3. ASSUME NEW s \in Sessions, Connected(s) \/ ConnectFails(s) PROVE Base'
  BY <1>3, ConnectedKeeps, ConnectFailsKeeps
<1>4. ASSUME NEW r \in Requests, HeadRead(r) \/ BodyRead(r) \/ ExchangeFails(r) \/ Proceed(r) PROVE Base'
  BY <1>4, HeadReadKeeps, BodyReadKeeps, ExchangeFailsKeeps, ProceedKeeps
<1>5. CASE Report
  BY <1>5, ReportKeeps
<1>6. ASSUME NEW s \in Sessions, Expire(s) PROVE Base'
  BY <1>6, ExpireKeeps
<1>7. CASE CloseExpired
  BY <1>7, CloseExpiredKeeps
<1>8. ASSUME NEW t \in Threads, CloseManager(t) \/ CloseNext(t) PROVE Base'
  BY <1>8, CloseManagerKeeps, CloseNextKeeps
<1>9. CASE UNCHANGED vars
  BY <1>9, NothingHappens
<1>. QED
  BY <1>1, <1>2, <1>3, <1>4, <1>5, <1>6, <1>7, <1>8, <1>9 DEF Next, Network

----------------------------------------------------------------------------
(* The host of a session and the host its requests are sent to.            *)

\* What a step leaves of a request.
Still(x, y) == /\ y.session = x.session /\ y.taken = x.taken
               /\ y.at = "made" => x.at = "made" \/ x.session = None
AllStill(rq, nq) == \A r \in Requests : Still(rq[r], nq[r])

LEMMA StillAgain ==
    ASSUME NEW rq, NEW nq, NEW oq, AllStill(rq, nq), AllStill(nq, oq)
    PROVE  AllStill(rq, oq)
  BY DEF AllStill, Still

LEMMA StillPut ==
    ASSUME NEW rq \in [Requests -> Request], NEW r \in Requests, NEW new, Still(rq[r], new)
    PROVE  AllStill(rq, [rq EXCEPT ![r] = new])
  BY DEF AllStill, Still

LEMMA StillMoved ==
    ASSUME NEW rq \in [Requests -> Request], NEW r \in Requests, NEW at \in Places \ {"made"}
    PROVE  AllStill(rq, MovedTo(rq, r, at))
<1>. DEFINE new == [rq[r] EXCEPT !.at = at]
<1>1. Still(rq[r], new)
  BY DEF Request, Still
<1>2. MovedTo(rq, r, at) = [rq EXCEPT ![r] = new]
  BY DEF MovedTo
<1>. HIDE DEF new
<1>. QED
  BY <1>1, <1>2, StillPut

LEMMA StillMade ==
    ASSUME NEW rq \in [Requests -> Request], NEW r \in Requests, NEW d \in Downloads,
           rq[r].session = None
    PROVE  AllStill(rq, MadeFor(rq, r, d))
<1>. DEFINE new == [rq[r] EXCEPT !.load = d, !.at = "made"]
<1>1. Still(rq[r], new)
  BY DEF Request, Still
<1>2. MadeFor(rq, r, d) = [rq EXCEPT ![r] = new]
  BY DEF MadeFor
<1>. HIDE DEF new
<1>. QED
  BY <1>1, <1>2, StillPut

LEMMA StillProceeded ==
    ASSUME NEW rq \in [Requests -> Request], NEW r \in Requests, NEW q \in Requests
    PROVE  AllStill(rq, Proceeded(rq, r, q))
<1>. DEFINE new == [[[rq[r] EXCEPT !.answer = q] EXCEPT !.at = "proceeding"] EXCEPT !.code = "moved"]
<1>1. Still(rq[r], new)
  BY DEF Request, Still
<1>2. Proceeded(rq, r, q) = [rq EXCEPT ![r] = new]
  BY DEF Proceeded
<1>. HIDE DEF new
<1>. QED
  BY <1>1, <1>2, StillPut

LEMMA StillRead ==
    ASSUME NEW rq \in [Requests -> Request], NEW r \in Requests, NEW q \in Requests,
           NEW code \in {"ok", "unwanted"}
    PROVE  AllStill(rq, ReadAs(rq, r, q, code))
<1>. DEFINE new == [[rq[r] EXCEPT !.answer = q] EXCEPT !.code = code]
<1>1. Still(rq[r], new)
  BY DEF Request, Still
<1>2. ReadAs(rq, r, q, code) = [rq EXCEPT ![r] = new]
  BY DEF ReadAs
<1>. HIDE DEF new
<1>3. AllStill(rq, [rq EXCEPT ![r] = new])
  BY <1>1, StillPut
<1>. QED
  BY <1>2, <1>3

LEMMA StillPlaced ==
    ASSUME NEW rq \in [Requests -> Request], NEW s, NEW rs
    PROVE  AllStill(rq, Placed(rq, s, rs))
<1>. DEFINE at == IF session[s].queue THEN "told" ELSE "lost"
            new(r) == [rq[r] EXCEPT !.at = at]
<1>. SUFFICES ASSUME NEW r \in Requests
              PROVE  Still(rq[r], Placed(rq, s, rs)[r])
  BY DEF AllStill
<1>1. Placed(rq, s, rs)[r] \in {rq[r], new(r)}
  BY DEF Placed
<1>2. Still(rq[r], rq[r])
  BY DEF Still
<1>3. Still(rq[r], new(r))
  BY DEF Request, Still
<1>. HIDE DEF new
<1>. QED
  BY <1>1, <1>2, <1>3

LEMMA StillAll == \A rq : AllStill(rq, rq)
  BY DEF AllStill, Still

\* Nobody comes to a session, no session changes its host.
HostsStay == \A s \in Sessions : session'[s].local = session[s].local
NobodyComes == \A a \in Actors : call'[a].at = "require" => call'[a] = call[a]

LEMMA HostedSame ==
    ASSUME Base, Hosted, HostsStay, NobodyComes, AllStill(request, request')
    PROVE  Hosted'
<1>0. TypeOK /\ Inside /\ CarriedOnce
  BY Parts
<1>1. ASSUME NEW a \in Actors, call'[a].at = "require"
      PROVE  session'[call'[a].s].local <=> request'[call'[a].r].taken > 1
  <2>1. call'[a] = call[a] /\ call[a].at = "require"
    BY <1>1 DEF NobodyComes
  <2>2. call[a].s \in Sessions /\ call[a].r \in Requests
    BY <1>0, <2>1 DEF Inside, CarriedOnce, Asking
  <2>3. session[call[a].s].local <=> request[call[a].r].taken > 1
    BY <2>1 DEF Hosted, At, Local
  <2>. QED
    BY <2>1, <2>2, <2>3 DEF HostsStay, AllStill, Still
<1>2. ASSUME NEW r \in Requests, request'[r].session # None
      PROVE  session'[request'[r].session].local <=> request'[r].taken > 1
  <2>1. request'[r].session = request[r].session /\ request'[r].taken = request[r].taken
    BY DEF AllStill, Still
  <2>2. request[r].session \in Sessions
    BY <1>0, <1>2, <2>1, Types DEF Request
  <2>. QED
    BY <1>2, <2>1, <2>2 DEF Hosted, Local, HostsStay
<1>3. ASSUME NEW r \in Requests, request'[r].at = "made"
      PROVE  request'[r].session = None
  BY <1>3 DEF Hosted, AllStill, Still
<1>. QED
  BY <1>1, <1>2, <1>3 DEF Hosted, At, Local

\* Calls that end or go on elsewhere.
LEMMA ComesElsewhere ==
    ASSUME TypeOK, NEW a \in Actors,
           \/ Return(a)
           \/ \E r, s : \E at \in Stages \ {"require"} : Goto(a, at, r, s)
           \/ UNCHANGED call
    PROVE  NobodyComes
<1>1. CASE Return(a)
  BY <1>1 DEF Return, Idle, TypeOK, NobodyComes
<1>2. CASE \E r, s : \E at \in Stages \ {"require"} : Goto(a, at, r, s)
  <2>0. PICK r, s : \E at \in Stages \ {"require"} : Goto(a, at, r, s)
    BY <1>2
  <2>1. PICK at \in Stages \ {"require"} : Goto(a, at, r, s)
    BY <2>0
  <2>. DEFINE new == [at |-> at, r |-> r, s |-> s]
  <2>2. new.at # "require" /\ call' = [call EXCEPT ![a] = new]
    BY <2>1 DEF Goto
  <2>. HIDE DEF new
  <2>. QED
    BY <2>2 DEF TypeOK, NobodyComes
<1>3. CASE UNCHANGED call
  BY <1>3 DEF NobodyComes
<1>. QED
  BY <1>1, <1>2, <1>3

LEMMA HostStays ==
    ASSUME TypeOK, NEW s \in Sessions, NEW new, new.local = session[s].local,
           session' = [session EXCEPT ![s] = new]
    PROVE  HostsStay
  BY DEF TypeOK, HostsStay

LEMMA ThrownHosted ==
    ASSUME Base, Hosted, NEW a \in Actors, Asking(a), NEW rq, Thrown(a, rq), HostsStay,
           rq \in [Requests -> Request],
           \A q \in Requests : /\ rq[q].session = request[q].session /\ rq[q].at = request[q].at
                               /\ q # call[a].r => rq[q].taken = request[q].taken
    PROVE  Hosted'
<1>. DEFINE r == call[a].r
<1>0. TypeOK /\ Blank /\ Inside /\ CarriedOnce
  BY Parts
<1>1. r \in Requests /\ request[r].at = "made" /\ request[r].session = None
  BY <1>0, Carried DEF Hosted
<1>2. NobodyComes /\ call'[a].at # "require"
  <2>1. Return(a) \/ Goto(a, "ask", r, None)
    BY DEF Thrown
  <2>2. NobodyComes
    BY <1>0, <2>1, ComesElsewhere DEF Stages
  <2>3. CASE Return(a)
    BY <1>0, <2>2, <2>3, Returning
  <2>4. CASE Goto(a, "ask", r, None)
    BY <1>0, <1>1, <2>2, <2>4, Going DEF Stages
  <2>. QED
    BY <2>1, <2>3, <2>4
<1>3. AllStill(rq, request')
  <2>1. request' = rq \/ request' = MovedTo(rq, r, "refused")
    BY DEF Thrown, MovedTo
  <2>. QED
    BY <1>1, <2>1, StillAll, StillMoved DEF Places
<1>4. \A q \in Requests : /\ request'[q].session = request[q].session
                          /\ q # r => request'[q].taken = request[q].taken
                          /\ request'[q].at = "made" => request[q].session = None
  BY <1>3 DEF AllStill, Still, Hosted
<1>5. ASSUME NEW b \in Actors, call'[b].at = "require"
      PROVE  session'[call'[b].s].local <=> request'[call'[b].r].taken > 1
  <2>1. call'[b] = call[b] /\ call[b].at = "require" /\ b # a
    BY <1>2, <1>5 DEF NobodyComes
  <2>2. call[b].s \in Sessions /\ call[b].r \in Requests /\ call[b].r # r
    BY <1>0, <2>1 DEF Inside, CarriedOnce, Asking
  <2>3. session[call[b].s].local <=> request[call[b].r].taken > 1
    BY <2>1 DEF Hosted, At, Local
  <2>. QED
    BY <1>4, <2>1, <2>2, <2>3 DEF HostsStay
<1>6. ASSUME NEW q \in Requests, request'[q].session # None
      PROVE  session'[request'[q].session].local <=> request'[q].taken > 1
  <2>1. q # r /\ request'[q].session = request[q].session /\ request'[q].taken = request[q].taken
    BY <1>1, <1>4, <1>6
  <2>2. request[q].session \in Sessions
    BY <1>0, <1>6, <2>1, Types DEF Request
  <2>. QED
    BY <1>6, <2>1, <2>2 DEF Hosted, Local, HostsStay
<1>. QED
  BY <1>4, <1>5, <1>6 DEF Hosted, At, Local

\* The manager takes the address of a request.
LEMMA TakenMore ==
    ASSUME TypeOK, NEW r \in Requests
    PROVE  /\ Taken(r) \in [Requests -> Request]
           /\ Taken(r)[r].taken = request[r].taken + 1 /\ request[r].taken \in Nat
           /\ \A q \in Requests : /\ Taken(r)[q].session = request[q].session
                                  /\ Taken(r)[q].at = request[q].at
                                  /\ q # r => Taken(r)[q].taken = request[q].taken
<1>. DEFINE new == [request[r] EXCEPT !.taken = @ + 1]
<1>1. request[r] \in Request
  BY Types
<1>2. /\ new \in Request /\ new.at = request[r].at /\ new.session = request[r].session
      /\ new.taken = request[r].taken + 1 /\ request[r].taken \in Nat
  BY <1>1 DEF Request
<1>3. Taken(r) = [request EXCEPT ![r] = new]
  BY DEF Taken
<1>. HIDE DEF new
<1>. QED
  BY <1>2, <1>3, Put DEF TypeOK

\* A session is found or opened for a request.
LEMMA FoundHosted ==
    ASSUME Base, Hosted, NEW a \in Actors, Asking(a), NEW r \in Requests, r = call[a].r,
           request' = Taken(r), NEW s \in Sessions, Goto(a, "require", r, s),
           session'[s].local = Bare(r),
           \A x \in Sessions : x # s => session'[x].local = session[x].local,
           \/ session'[s].local = session[s].local
           \/ (\A q \in Requests : request[q].session # s) /\ (\A b \in Actors : call[b].s # s)
    PROVE  Hosted'
<1>0. TypeOK /\ Blank /\ Inside /\ CarriedOnce
  BY Parts
<1>1. request[r].at = "made" /\ request[r].session = None
  BY <1>0, Carried DEF Hosted
<1>2. /\ call'[a].at = "require" /\ call'[a].r = r /\ call'[a].s = s
      /\ \A b \in Actors : b # a => call'[b] = call[b]
  BY <1>0, Going DEF Stages
<1>3. /\ request'[r].taken = request[r].taken + 1 /\ request[r].taken \in Nat
      /\ \A q \in Requests : /\ request'[q].session = request[q].session
                             /\ request'[q].at = request[q].at
                             /\ q # r => request'[q].taken = request[q].taken
  BY <1>0, TakenMore
<1>4. session'[s].local <=> request'[r].taken > 1
  <2>1. request'[r].taken > 1 <=> request[r].taken > 0
    BY <1>3
  <2>2. session'[s].local = (request[r].taken > 0)
    BY DEF Bare
  <2>. QED
    BY <2>1, <2>2
<1>5. ASSUME NEW b \in Actors, call'[b].at = "require"
      PROVE  session'[call'[b].s].local <=> request'[call'[b].r].taken > 1
  <2>1. CASE b = a
    BY <1>2, <1>4, <2>1
  <2>2. CASE b # a
    <3>1. call'[b] = call[b] /\ call[b].at = "require"
      BY <1>2, <1>5, <2>2
    <3>2. call[b].s \in Sessions /\ call[b].r \in Requests /\ call[b].r # r
      BY <1>0, <2>2, <3>1 DEF Inside, CarriedOnce, Asking
    <3>3. session[call[b].s].local <=> request[call[b].r].taken > 1
      BY <3>1 DEF Hosted, At, Local
    <3>4. session'[call[b].s].local = session[call[b].s].local
      BY <3>2
    <3>. QED
      BY <1>3, <3>1, <3>2, <3>3, <3>4
  <2>. QED
    BY <2>1, <2>2
<1>6. ASSUME NEW q \in Requests, request'[q].session # None
      PROVE  session'[request'[q].session].local <=> request'[q].taken > 1
  <2>1. q # r /\ request'[q].session = request[q].session /\ request'[q].taken = request[q].taken
    BY <1>1, <1>3, <1>6
  <2>2. request[q].session \in Sessions
    BY <1>0, <1>6, <2>1, Types DEF Request
  <2>3. session'[request[q].session].local = session[request[q].session].local
    BY <2>2
  <2>. QED
    BY <1>6, <2>1, <2>2, <2>3 DEF Hosted, Local
<1>7. \A q \in Requests : request'[q].at = "made" => request'[q].session = None
  BY <1>3 DEF Hosted
<1>. QED
  BY <1>5, <1>6, <1>7 DEF Hosted, At, Local

LEMMA AskHosted ==
    ASSUME Base, Hosted, NEW a \in Actors, Ask(a)
    PROVE  Hosted'
<1>. DEFINE r == call[a].r
<1>0. TypeOK /\ Blank /\ CarriedOnce
  BY Parts
<1>1. Asking(a)
  BY DEF Ask, At, Asking
<1>2. r \in Requests
  BY <1>0, <1>1, Carried
<1>3. ASSUME NEW s \in Choosable(r), Goto(a, "require", r, s), request' = Taken(r), UNCHANGED session
      PROVE  Hosted'
  <2>1. s \in Sessions /\ session[s].local = Bare(r)
    BY <1>0 DEF Choosable, TypeOK
  <2>. QED
    BY <1>1, <1>2, <1>3, <2>1, FoundHosted
<1>4. ASSUME opened < MaxSessions, session' = [session EXCEPT ![opened + 1] = NewSession(Bare(r))],
             request' = Taken(r), Goto(a, "require", r, opened + 1)
      PROVE  Hosted'
  <2>. DEFINE n == opened + 1
              sn == NewSession(Bare(r))
  <2>1. n \in Sessions /\ opened \in Nat
    BY <1>0, <1>4, Numbers DEF TypeOK, Sessions
  <2>2. /\ \A b \in Actors : call[b].s # n
        /\ \A q \in Requests : request[q].session # n
    <3>1. \A b \in Actors : call[b].s # None => call[b].s \in Sessions
      BY <1>0, Types DEF CallRecord
    <3>2. \A q \in Requests : request[q].session # None => request[q].session \in Sessions
      BY <1>0, Types DEF Request
    <3>. QED
      BY <1>0, <2>1, <3>1, <3>2, Numbers DEF Blank
  <2>3. sn.local = Bare(r)
    BY DEF NewSession
  <2>. HIDE DEF sn
  <2>4. session'[n].local = Bare(r) /\ \A x \in Sessions : x # n => session'[x].local = session[x].local
    <3>1. session' = [session EXCEPT ![n] = sn]
      BY <1>4 DEF sn
    <3>. QED
      BY <1>0, <2>1, <2>3, <3>1 DEF TypeOK
  <2>. QED
    BY <1>1, <1>2, <1>4, <2>1, <2>2, <2>4, FoundHosted
<1>5. ASSUME NEW rq \in {request, Taken(r)}, Thrown(a, rq), UNCHANGED session
      PROVE  Hosted'
  <2>1. rq \in [Requests -> Request] /\ \A q \in Requests :
            /\ rq[q].session = request[q].session /\ rq[q].at = request[q].at
            /\ q # r => rq[q].taken = request[q].taken
    BY <1>0, <1>2, TakenMore DEF TypeOK
  <2>2. HostsStay
    BY <1>5 DEF HostsStay
  <2>. QED
    BY <1>1, <1>5, <2>1, <2>2, ThrownHosted
<1>. QED
  BY <1>3, <1>4, <1>5 DEF Ask

LEMMA RequireHosted ==
    ASSUME Base, Hosted, NEW a \in Actors, Require(a)
    PROVE  Hosted'
<1>. DEFINE r == call[a].r
            s == call[a].s
<1>0. TypeOK /\ Blank /\ Inside /\ CarriedOnce
  BY Parts
<1>1. Asking(a) /\ call[a].at = "require"
  BY DEF Require, At, Asking
<1>2. r \in Requests /\ s \in Sessions /\ request[r].at = "made"
  BY <1>0, <1>1, Carried DEF Inside
<1>3. CASE Living(s)
  <2>1. /\ session' = [session EXCEPT ![s].waiting = Append(@, r)] /\ request' = QueuedIn(request, r, s)
        /\ Goto(a, "resume", None, s) \/ Return(a)
    BY <1>3 DEF Require, QueuedIn, MustResume
  <2>2. NobodyComes /\ call'[a].at # "require"
    <3>1. CASE Goto(a, "resume", None, s)
      <4>1. NobodyComes
        BY <1>0, <3>1, ComesElsewhere DEF Stages
      <4>2. call'[a].at = "resume"
        BY <1>0, <1>2, <3>1, Going DEF Stages
      <4>. QED
        BY <4>1, <4>2
    <3>2. CASE Return(a)
      <4>1. NobodyComes
        BY <1>0, <3>2, ComesElsewhere
      <4>2. call'[a].at = "idle"
        BY <1>0, <3>2, Returning
      <4>. QED
        BY <4>1, <4>2
    <3>. QED
      BY <2>1, <3>1, <3>2
  <2>3. HostsStay
    <3>. DEFINE new == [session[s] EXCEPT !.waiting = Append(session[s].waiting, r)]
    <3>1. session[s] \in Session
      BY <1>0, <1>2, Types
    <3>2. new.local = session[s].local
      BY <3>1 DEF Session
    <3>3. session' = [session EXCEPT ![s] = new]
      BY <2>1
    <3>. HIDE DEF new
    <3>. QED
      BY <1>0, <1>2, <3>2, <3>3, HostStays
  <2>4. /\ request'[r].at = "waiting" /\ request'[r].session = s /\ request'[r].taken = request[r].taken
        /\ \A q \in Requests : q # r => request'[q] = request[q]
    <3>. DEFINE new == [[request[r] EXCEPT !.at = "waiting"] EXCEPT !.session = s]
    <3>1. request[r] \in Request
      BY <1>0, <1>2, Types
    <3>2. new.at = "waiting" /\ new.session = s /\ new.taken = request[r].taken
      BY <3>1 DEF Request
    <3>3. request' = [request EXCEPT ![r] = new]
      BY <2>1 DEF QueuedIn
    <3>. HIDE DEF new
    <3>. QED
      BY <1>0, <1>2, <3>2, <3>3 DEF TypeOK
  <2>5. session[s].local <=> request[r].taken > 1
    BY <1>1 DEF Hosted, At, Local
  <2>6. ASSUME NEW b \in Actors, call'[b].at = "require"
        PROVE  session'[call'[b].s].local <=> request'[call'[b].r].taken > 1
    <3>1. call'[b] = call[b] /\ call[b].at = "require" /\ b # a
      BY <2>2, <2>6 DEF NobodyComes
    <3>2. call[b].s \in Sessions /\ call[b].r \in Requests
      BY <1>0, <3>1 DEF Inside, CarriedOnce, Asking
    <3>3. session[call[b].s].local <=> request[call[b].r].taken > 1
      BY <3>1 DEF Hosted, At, Local
    <3>. QED
      BY <2>3, <2>4, <3>1, <3>2, <3>3 DEF HostsStay
  <2>7. ASSUME NEW q \in Requests, request'[q].session # None
        PROVE  session'[request'[q].session].local <=> request'[q].taken > 1
    <3>1. CASE q = r
      BY <1>2, <2>3, <2>4, <2>5, <3>1 DEF HostsStay
    <3>2. CASE q # r
      <4>1. request'[q] = request[q]
        BY <2>4, <3>2
      <4>2. request[q].session \in Sessions
        BY <1>0, <2>7, <4>1, Types DEF Request
      <4>. QED
        BY <2>3, <2>7, <4>1, <4>2 DEF HostsStay, Hosted, Local
    <3>. QED
      BY <3>1, <3>2
  <2>8. \A q \in Requests : request'[q].at = "made" => request'[q].session = None
    BY <2>4 DEF Hosted
  <2>. QED
    BY <2>6, <2>7, <2>8 DEF Hosted, At, Local
<1>4. CASE ~Living(s)
  <2>1. session' = [session EXCEPT ![s] = Stopped(s, "failed")] /\ Thrown(a, request)
    BY <1>4 DEF Require
  <2>2. HostsStay
    BY <1>0, <1>2, <2>1, StoppedFacts, HostStays
  <2>. QED
    BY <1>0, <1>1, <2>1, <2>2, ThrownHosted DEF TypeOK
<1>. QED
  BY <1>3, <1>4

LEMMA ResumeHosted ==
    ASSUME Base, Hosted, NEW a \in Actors, Resume(a)
    PROVE  Hosted'
<1>. DEFINE s == call[a].s
            w == session[s].waiting
<1>0. TypeOK /\ Blank /\ Inside /\ WaitingOnce
  BY Parts
<1>1. s \in Sessions /\ session[s] \in Session
  BY <1>0, Types DEF Resume, At, Inside
<1>2. CASE Living(s) /\ w # <<>>
  <2>1. session' = [session EXCEPT ![s] = Sending(s)]
        /\ \/ request' = MovedTo(request, Head(w), "head") /\ Return(a)
           \/ Fails(a, Head(w))
    BY <1>2 DEF Resume, MovedTo
  <2>2. Sending(s).local = session[s].local
    BY <1>1 DEF Sending, Session
  <2>3. HostsStay
    BY <1>0, <1>1, <2>1, <2>2, HostStays
  <2>4. NobodyComes
    BY <1>0, <2>1, ComesElsewhere DEF Fails, Stages
  <2>5. Head(w) \in Requests
    BY <1>0, <1>1, <1>2, NextFacts
  <2>6. AllStill(request, request')
    BY <1>0, <2>1, <2>5, StillMoved, StillPlaced DEF Fails, TypeOK, Places
  <2>. QED
    BY <2>3, <2>4, <2>6, HostedSame
<1>3. CASE ~(Living(s) /\ w # <<>>)
  <2>. DEFINE new == [[session[s] EXCEPT !.status = IF @ = "creating" THEN "active" ELSE @] EXCEPT !.busy = FALSE]
  <2>1. session' = [session EXCEPT ![s] = new] /\ Return(a) /\ UNCHANGED request
    BY <1>3 DEF Resume
  <2>2. new.local = session[s].local
    BY <1>1 DEF Session
  <2>. HIDE DEF new
  <2>3. HostsStay
    BY <1>0, <1>1, <2>1, <2>2, HostStays
  <2>4. NobodyComes
    BY <1>0, <2>1, ComesElsewhere
  <2>. QED
    BY <2>1, <2>3, <2>4, StillAll, HostedSame
<1>. QED
  BY <1>2, <1>3

LEMMA StopHosted ==
    ASSUME Base, Hosted, NEW s \in Sessions, NEW status \in {"failed", "closed"}, NEW how,
           Stop(s, status, how), NobodyComes
    PROVE  Hosted'
<1>0. TypeOK
  BY Parts
<1>1. session' = [session EXCEPT ![s] = Stopped(s, status)] /\ request' = Placed(request, s, Left(s))
  BY DEF Stop
<1>2. HostsStay
  BY <1>0, <1>1, StoppedFacts, HostStays
<1>3. AllStill(request, request')
  BY <1>0, <1>1, StillPlaced DEF TypeOK
<1>. QED
  BY <1>2, <1>3, HostedSame

LEMMA LinkHosted ==
    ASSUME Base, Hosted, NEW s \in Sessions, Connected(s) \/ ConnectFails(s)
    PROVE  Hosted'
<1>0. TypeOK /\ session[s] \in Session /\ Dispatcher \in Actors
  BY Parts, Types DEF Actors
<1>1. NobodyComes
  BY <1>0, ComesElsewhere DEF Connected, ConnectFails, Stages
<1>2. HostsStay
  <2>. DEFINE n1 == [session[s] EXCEPT !.channel = "open"]
              n2 == [[session[s] EXCEPT !.channel = "closed"] EXCEPT !.busy = FALSE]
  <2>1. n1.local = session[s].local /\ n2.local = session[s].local
    BY <1>0 DEF Session
  <2>2. session' = [session EXCEPT ![s] = n1] \/ session' = [session EXCEPT ![s] = n2]
    BY DEF Connected, ConnectFails
  <2>. HIDE DEF n1, n2
  <2>. QED
    BY <1>0, <2>1, <2>2, HostStays
<1>. QED
  BY <1>1, <1>2, StillAll, HostedSame DEF Connected, ConnectFails

\* A request goes on to the body of its answer, or is told.
LEMMA AnsweredStill ==
    ASSUME TypeOK, NEW rq \in [Requests -> Request], NEW r \in Requests, Answered(rq, r)
    PROVE  AllStill(rq, request') /\ NobodyComes
<1>0. Dispatcher \in Actors
  BY DEF Actors
<1>1. \/ request' = MovedTo(rq, r, "content") /\ UNCHANGED call
      \/ request' = Placed(rq, rq[r].session, <<r>>) /\ Goto(Dispatcher, "resume", None, rq[r].session)
  BY DEF Answered, Ende, MovedTo
<1>. QED
  BY <1>0, <1>1, StillMoved, StillPlaced, ComesElsewhere DEF Places, Stages

LEMMA AskedStill ==
    ASSUME TypeOK, Blank, NEW rq \in [Requests -> Request], NEW d \in Downloads, made < MaxRequests,
           \A r \in Requests : r > made => rq[r].session = None
    PROVE  AllStill(rq, Asked(d, rq))
<1>1. made + 1 \in Requests /\ made + 1 > made
  BY Numbers DEF TypeOK, Requests
<1>2. Asked(d, rq) \in {rq, MadeFor(rq, made + 1, d)}
  BY DEF Asked, MadeFor
<1>. QED
  BY <1>1, <1>2, StillAll, StillMade

LEMMA LateUnplaced ==
    ASSUME Blank, NEW rq, AllStill(request, rq)
    PROVE  \A r \in Requests : r > made => rq[r].session = None
  BY DEF Blank, AllStill, Still, NoRequest

LEMMA HeadReadHosted ==
    ASSUME Base, Hosted, NEW r \in Requests, HeadRead(r)
    PROVE  Hosted'
<1>. DEFINE s == request[r].session
            d == request[r].load
<1>0. TypeOK /\ Blank /\ HostsStay /\ request \in [Requests -> Request] /\ Dispatcher \in Actors
  <2>1. TypeOK /\ Blank
    BY Parts
  <2>2. session' = session
    BY DEF HeadRead, sessionVars
  <2>. QED
    BY <2>1, <2>2 DEF HostsStay, TypeOK, Actors
<1>1. PICK q \in InFlight(s) :
          \/ Answered([request EXCEPT ![r].answer = q,
                                      ![r].code = IF Over(d) THEN "unwanted" ELSE "ok"], r)
          \/ /\ made < MaxRequests
             /\ request' = Asked(d, [request EXCEPT ![r].answer = q, ![r].at = "proceeding",
                                                    ![r].code = "moved"])
             /\ IF Over(d) THEN UNCHANGED call ELSE Goto(Dispatcher, "ask", made + 1, None)
  BY DEF HeadRead
<1>2. q \in Requests
  BY DEF InFlight
<1>3. CASE Answered([request EXCEPT ![r].answer = q,
                                    ![r].code = IF Over(d) THEN "unwanted" ELSE "ok"], r)
  <2>. DEFINE code == IF Over(d) THEN "unwanted" ELSE "ok"
              rq == ReadAs(request, r, q, code)
  <2>1. code \in {"ok", "unwanted"} /\ Answered(rq, r)
    BY <1>3 DEF ReadAs
  <2>. HIDE DEF code
  <2>2. rq \in [Requests -> Request] /\ AllStill(request, rq)
    BY <1>0, <1>2, <2>1, ReadFacts, StillRead
  <2>. HIDE DEF rq
  <2>3. AllStill(rq, request') /\ NobodyComes
    BY <1>0, <2>1, <2>2, AnsweredStill
  <2>4. AllStill(request, request')
    BY <2>2, <2>3, StillAgain
  <2>. QED
    BY <1>0, <2>3, <2>4, HostedSame
<1>4. CASE /\ made < MaxRequests
           /\ request' = Asked(d, [request EXCEPT ![r].answer = q, ![r].at = "proceeding",
                                                  ![r].code = "moved"])
           /\ IF Over(d) THEN UNCHANGED call ELSE Goto(Dispatcher, "ask", made + 1, None)
  <2>. DEFINE rq == Proceeded(request, r, q)
  <2>1. request' = Asked(d, rq)
    BY <1>4 DEF Proceeded
  <2>2. rq \in [Requests -> Request] /\ AllStill(request, rq)
    BY <1>0, <1>2, ProceededFacts, StillProceeded
  <2>. HIDE DEF rq
  <2>3. \A p \in Requests : p > made => rq[p].session = None
    BY <1>0, <2>2, LateUnplaced
  <2>4. d \in Downloads
    <3>1. ~(r > made)
      BY <1>0 DEF HeadRead, Working, Blank, NoRequest
    <3>. QED
      BY <1>0, <3>1, Numbers DEF Blank, TypeOK
  <2>5. AllStill(rq, request')
    BY <1>0, <1>4, <2>1, <2>2, <2>3, <2>4, AskedStill
  <2>6. AllStill(request, request')
    BY <2>2, <2>5, StillAgain
  <2>7. NobodyComes
    BY <1>0, <1>4, ComesElsewhere DEF Stages
  <2>. QED
    BY <1>0, <2>6, <2>7, HostedSame
<1>. QED
  BY <1>1, <1>3, <1>4

LEMMA WorkHosted ==
    ASSUME Base, Hosted, NEW r \in Requests, BodyRead(r) \/ ExchangeFails(r) \/ Proceed(r)
    PROVE  Hosted'
<1>0. TypeOK /\ request \in [Requests -> Request] /\ Dispatcher \in Actors
  BY Parts DEF TypeOK, Actors
<1>1. CASE BodyRead(r)
  <2>1. HostsStay
    BY <1>1 DEF BodyRead, sessionVars, HostsStay
  <2>2. NobodyComes
    BY <1>0, <1>1, ComesElsewhere DEF BodyRead, Ende, Stages
  <2>3. AllStill(request, request')
    BY <1>0, <1>1, StillPlaced DEF BodyRead, Ende
  <2>. QED
    BY <2>1, <2>2, <2>3, HostedSame
<1>2. CASE ExchangeFails(r)
  <2>. DEFINE s == request[r].session
              new == [session[s] EXCEPT !.channel = "closed"]
  <2>1. s \in Sessions /\ session[s] \in Session
    <3>1. Inside
      BY Parts
    <3>. QED
      BY <1>0, <1>2, <3>1, Types DEF ExchangeFails, Inside
  <2>2. new.local = session[s].local
    BY <2>1 DEF Session
  <2>3. session' = session \/ session' = [session EXCEPT ![s] = new]
    BY <1>2 DEF ExchangeFails
  <2>. HIDE DEF new
  <2>4. HostsStay
    BY <1>0, <2>1, <2>2, <2>3, HostStays DEF HostsStay
  <2>5. Fails(Dispatcher, r)
    BY <1>2 DEF ExchangeFails
  <2>6. NobodyComes
    BY <1>0, <2>5, ComesElsewhere DEF Fails, Stages
  <2>7. AllStill(request, request')
    BY <1>0, <2>5, StillPlaced DEF Fails
  <2>. QED
    BY <2>4, <2>6, <2>7, HostedSame
<1>3. CASE Proceed(r)
  <2>1. HostsStay
    BY <1>3 DEF Proceed, sessionVars, HostsStay
  <2>2. AllStill(request, request') /\ NobodyComes
    BY <1>0, <1>3, AnsweredStill DEF Proceed
  <2>. QED
    BY <2>1, <2>2, HostedSame
<1>. QED
  BY <1>1, <1>2, <1>3

LEMMA ReportHosted ==
    ASSUME Base, Hosted, Report
    PROVE  Hosted'
<1>. DEFINE r == Head(reports).r
            d == request[r].load
            told == MovedTo(request, r, "reported")
<1>0. TypeOK /\ Blank /\ ToldOnce /\ HostsStay /\ request \in [Requests -> Request] /\ Queue \in Actors
  <2>1. TypeOK /\ Blank /\ ToldOnce
    BY Parts
  <2>2. session' = session
    BY DEF Report, sessionVars
  <2>. QED
    BY <2>1, <2>2 DEF HostsStay, TypeOK, Actors
<1>1. /\ \/ request' = told /\ UNCHANGED call
         \/ made < MaxRequests /\ request' = Asked(d, told) /\ Goto(Queue, "ask", made + 1, None)
      /\ reports # <<>>
  BY DEF Report, MovedTo
<1>2. r \in Requests /\ request[r].at = "told"
  <2>1. reports \in Seq(Report1)
    BY <1>0, Types
  <2>2. Len(reports) \in Nat \ {0} /\ Head(reports) \in Report1 /\ Head(reports) = reports[1]
    BY <1>1, <2>1, TailFacts
  <2>3. 1 \in 1 .. Len(reports)
    BY <2>2
  <2>. QED
    BY <1>0, <2>2, <2>3 DEF ToldOnce, Report1
<1>3. d \in Downloads
  <2>1. ~(r > made)
    BY <1>0, <1>2 DEF Blank, NoRequest
  <2>. QED
    BY <1>0, <1>2, <2>1, Numbers DEF Blank, TypeOK
<1>4. told \in [Requests -> Request] /\ AllStill(request, told)
  BY <1>0, <1>2, MovedFacts, StillMoved DEF Places
<1>. HIDE DEF told
<1>5. \A p \in Requests : p > made => told[p].session = None
  BY <1>0, <1>4, LateUnplaced
<1>6. AllStill(told, request')
  BY <1>0, <1>1, <1>3, <1>4, <1>5, AskedStill, StillAll
<1>7. AllStill(request, request')
  BY <1>4, <1>6, StillAgain
<1>8. NobodyComes
  BY <1>0, <1>1, ComesElsewhere DEF Stages
<1>. QED
  BY <1>0, <1>7, <1>8, HostedSame

LEMMA StartHosted ==
    ASSUME Base, Hosted, NEW t \in Threads, NEW d \in Downloads, Start(t, d)
    PROVE  Hosted'
<1>0. TypeOK /\ Blank /\ HostsStay /\ request \in [Requests -> Request] /\ t \in Actors
  <2>1. TypeOK /\ Blank
    BY Parts
  <2>2. session' = session
    BY DEF Start, sessionVars
  <2>. QED
    BY <2>1, <2>2 DEF HostsStay, TypeOK, Actors
<1>1. \/ UNCHANGED request /\ Return(t)
      \/ made < MaxRequests /\ request' = MadeFor(request, made + 1, d) /\ Goto(t, "ask", made + 1, None)
  BY DEF Start, Mitte, MadeFor
<1>2. AllStill(request, request')
  <2>1. CASE UNCHANGED request
    BY <2>1, StillAll
  <2>2. CASE made < MaxRequests /\ request' = MadeFor(request, made + 1, d)
    <3>1. made + 1 \in Requests /\ made + 1 > made
      BY <1>0, <2>2, Numbers DEF TypeOK, Requests
    <3>2. request[made + 1].session = None
      BY <1>0, <3>1 DEF Blank, NoRequest
    <3>. QED
      BY <1>0, <2>2, <3>1, <3>2, StillMade
  <2>. QED
    BY <1>1, <2>1, <2>2
<1>3. NobodyComes
  BY <1>0, <1>1, ComesElsewhere DEF Stages
<1>. QED
  BY <1>0, <1>2, <1>3, HostedSame

LEMMA CloserHosted ==
    ASSUME Base, Hosted,
           \/ \E s \in Sessions : Expire(s)
           \/ CloseExpired
           \/ \E t \in Threads : CloseManager(t) \/ CloseNext(t)
           \/ \E a \in Actors : Siste(a)
    PROVE  Hosted'
<1>0. TypeOK /\ Inside /\ Timer \in Actors /\ Threads \subseteq Actors
  BY Parts DEF Actors
<1>1. ASSUME NEW s \in Sessions, Expire(s) PROVE Hosted'
  <2>1. NobodyComes
    BY <1>0, <1>1, ComesElsewhere DEF Expire, Stages
  <2>. QED
    BY <1>1, <2>1, StillAll, HostedSame DEF Expire, HostsStay
<1>2. ASSUME CloseExpired PROVE Hosted'
  <2>1. NobodyComes
    BY <1>0, <1>2, ComesElsewhere DEF CloseExpired
  <2>2. call[Timer].s \in Sessions
    BY <1>0, <1>2 DEF CloseExpired, At, Inside
  <2>. QED
    BY <1>2, <2>1, <2>2, StopHosted DEF CloseExpired
<1>3. ASSUME NEW t \in Threads, CloseManager(t) PROVE Hosted'
  <2>1. NobodyComes
    BY <1>0, <1>3, ComesElsewhere DEF CloseManager, Stages
  <2>. QED
    BY <1>3, <2>1, StillAll, HostedSame DEF CloseManager, HostsStay
<1>4. ASSUME NEW t \in Threads, CloseNext(t) PROVE Hosted'
  <2>1. NobodyComes
    BY <1>0, <1>4, ComesElsewhere DEF CloseNext
  <2>2. CASE table = {}
    BY <1>4, <2>1, <2>2, StillAll, HostedSame DEF CloseNext, HostsStay
  <2>3. CASE table # {}
    <3>1. PICK s \in table : Stop(s, "closed", "cancelled")
      BY <1>4, <2>3 DEF CloseNext
    <3>. QED
      BY <1>0, <2>1, <3>1, StopHosted DEF TypeOK
  <2>. QED
    BY <2>2, <2>3
<1>5. ASSUME NEW a \in Actors, Siste(a) PROVE Hosted'
  <2>1. NobodyComes
    BY <1>0, <1>5, ComesElsewhere DEF Siste
  <2>2. call[a].s \in Sessions
    BY <1>0, <1>5 DEF Siste, At, Inside
  <2>. QED
    BY <1>5, <2>1, <2>2, StopHosted DEF Siste
<1>. QED
  BY <1>1, <1>2, <1>3, <1>4, <1>5

LEMMA HostedStep == Base /\ Hosted /\ [Next]_vars => Hosted'
<1>. SUFFICES ASSUME Base, Hosted, [Next]_vars
              PROVE  Hosted'
  OBVIOUS
<1>1. ASSUME NEW a \in Actors, Carry(a) PROVE Hosted'
  BY <1>1, AskHosted, RequireHosted, ResumeHosted, CloserHosted DEF Carry
<1>2. CASE Network
  BY <1>2, LinkHosted, HeadReadHosted, WorkHosted DEF Network
<1>3. CASE UNCHANGED vars
  <2>1. session' = session /\ request' = request /\ call' = call
    BY <1>3 DEF vars, sessionVars
  <2>. QED
    BY <2>1, StillAll, HostedSame DEF HostsStay, NobodyComes
<1>. QED
  BY <1>1, <1>2, <1>3, StartHosted, ReportHosted, CloserHosted DEF Next

LEMMA StepInvariant == IInv /\ [Next]_vars => IInv'
  BY BaseStep, HostedStep DEF IInv

(* Every request is in one place, nobody who waits in a living session is   *)
(* forgotten, a connection has one thing going on unless its session was    *)
(* resumed twice at once, and a download that was never redirected has one  *)
(* request at a time (sessio.require, _resume, _siste; oneratio._mitte).    *)
THEOREM Invariance == Spec => []IInv
<1>. QED
  BY InitInvariant, StepInvariant, PTL DEF Spec

(* The variables of the client have their types.                            *)
THEOREM TypeCorrect == Spec => []TypeOK
<1>1. IInv => TypeOK
  BY DEF IInv, Base
<1>. QED
  BY <1>1, Invariance, PTL

(* The answer given to a request is the answer to that request, unless two  *)
(* callers of require resumed its idle session at once (sessio.require,     *)
(* sessio._resume).                                                         *)
THEOREM AnswersReachTheirRequests == Spec => []AnswersOwn
<1>1. IInv => AnswersOwn
  BY DEF IInv, Base
<1>. QED
  BY <1>1, Invariance, PTL

(* A download that was never redirected ends with the answer of its last    *)
(* request and with the content of that answer alone, whatever failed and   *)
(* was asked again before (oneratio.requisitum_completum_est,               *)
(* requisitum_falsum_est), and the answer is of the host asked for unless *)
(* that request was passed to sessiones.require again after a session had   *)
(* refused it (http_sessio.xv:163).                                         *)
THEOREM DownloadsEndSound == Spec => []DownloadsSound
<1>1. ASSUME IInv
      PROVE  DownloadsSound
  <2>. SUFFICES ASSUME NEW d \in Downloads, ~load[d].moved
                PROVE  /\ load[d].state # "crashed"
                       /\ Over(d) => Sound(d)
                       /\ load[d].final \in Requests => OfItsHost(load[d].final)
    BY DEF DownloadsSound
  <2>1. load[d].state # "crashed" /\ (Over(d) => Sound(d))
    BY <1>1 DEF IInv, Base, Downloading, Straight, Ended
  <2>2. \A r \in Requests : OfItsHost(r)
    <3>1. \A s \in Sessions : s # None
      BY Numbers
    <3>. QED
      BY <1>1, <3>1 DEF IInv, Hosted, Local, OfItsHost
  <2>. QED
    BY <2>1, <2>2
<1>. QED
  BY <1>1, Invariance, PTL
=============================================================================

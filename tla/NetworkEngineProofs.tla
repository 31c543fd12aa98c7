------------------------- MODULE NetworkEngineProofs -------------------------
(***************************************************************************)
(* Proofs about the socket engine, for any queues, threads and bounds, and *)
(* for the runs in which the dispatcher releases no reference of a command *)
(* that the writer of the command is yet to take (InTime).                 *)
(***************************************************************************)
EXTENDS NetworkEngineInvariant, SequenceTheorems, FiniteSetTheorems, TLAPS

----------------------------------------------------------------------------
(* Sequences: what Append, Tail and Front do to the elements.               *)

LEMMA SeqFacts ==
    ASSUME NEW S, NEW s \in Seq(S)
    PROVE  /\ Len(s) \in Nat /\ DOMAIN s = 1 .. Len(s)
           /\ \A i \in 1 .. Len(s) : s[i] \in S
           /\ s # <<>> <=> Len(s) > 0
           /\ ToSet(s) \subseteq S
           /\ \A i \in 1 .. Len(s) : s[i] \in ToSet(s)
           /\ \A x \in ToSet(s) : \E i \in 1 .. Len(s) : s[i] = x
  BY LenProperties, EmptySeq, ElementOfSeq DEF ToSet

LEMMA AppendFacts ==
    ASSUME NEW S, NEW s \in Seq(S), NEW e \in S
    PROVE  /\ Append(s, e) \in Seq(S) /\ Append(s, e) # <<>>
           /\ Len(Append(s, e)) = Len(s) + 1
           /\ \A i \in 1 .. Len(s) : Append(s, e)[i] = s[i]
           /\ Append(s, e)[Len(s) + 1] = e /\ Last(Append(s, e)) = e
           /\ ToSet(Append(s, e)) = ToSet(s) \cup {e}
           /\ IsInjective(s) /\ e \notin ToSet(s) => IsInjective(Append(s, e))
<1>. DEFINE t == Append(s, e)
<1>1. /\ t \in Seq(S) /\ t # <<>> /\ Len(t) = Len(s) + 1 /\ Len(s) \in Nat
      /\ \A i \in 1 .. Len(s) : t[i] = s[i]
      /\ t[Len(s) + 1] = e
  BY AppendProperties, LenProperties
<1>2. DOMAIN t = 1 .. Len(s) + 1 /\ DOMAIN s = 1 .. Len(s)
  BY <1>1, LenProperties
<1>. HIDE DEF t
<1>3. Last(t) = e
  BY <1>1 DEF Last
<1>4. ToSet(t) = ToSet(s) \cup {e}
  BY <1>1, <1>2 DEF ToSet
<1>5. ASSUME IsInjective(s), e \notin ToSet(s)
      PROVE  IsInjective(t)
  BY <1>1, <1>2, <1>5 DEF ToSet, IsInjective
<1>. QED
  BY <1>1, <1>3, <1>4, <1>5 DEF t

LEMMA TailFacts ==
    ASSUME NEW S, NEW s \in Seq(S), s # <<>>
    PROVE  /\ Tail(s) \in Seq(S) /\ Len(Tail(s)) = Len(s) - 1
           /\ \A i \in 1 .. Len(s) - 1 : Tail(s)[i] = s[i + 1]
           /\ Head(s) = s[1] /\ Head(s) \in S /\ Head(s) \in ToSet(s)
           /\ ToSet(s) = ToSet(Tail(s)) \cup {Head(s)}
           /\ IsInjective(s) => IsInjective(Tail(s)) /\ Head(s) \notin ToSet(Tail(s))
           /\ Tail(s) # <<>> => Last(Tail(s)) = Last(s)
           /\ Tail(s) = <<>> => Last(s) = Head(s)
<1>. DEFINE t == Tail(s)
<1>1. /\ t \in Seq(S) /\ Len(t) = Len(s) - 1 /\ Len(s) \in Nat \ {0} /\ Len(t) \in Nat
      /\ \A i \in 1 .. Len(s) - 1 : t[i] = s[i + 1]
      /\ Head(s) = s[1] /\ Head(s) \in S
  BY HeadTailProperties, LenProperties, EmptySeq
<1>2. DOMAIN t = 1 .. Len(s) - 1 /\ DOMAIN s = 1 .. Len(s)
  BY <1>1, LenProperties
<1>3. t = <<>> <=> Len(t) = 0
  BY <1>1, EmptySeq
<1>. HIDE DEF t
<1>4. ToSet(s) = ToSet(t) \cup {Head(s)}
  <2>1. ASSUME NEW x \in ToSet(s)
        PROVE  x \in ToSet(t) \cup {Head(s)}
    <3>1. PICK i \in 1 .. Len(s) : s[i] = x
      BY <1>2 DEF ToSet
    <3>2. CASE i = 1
      BY <3>1, <3>2, <1>1
    <3>3. CASE i # 1
      <4>1. i - 1 \in 1 .. Len(s) - 1 /\ t[i - 1] = x
        BY <3>1, <3>3, <1>1
      <4>. QED
        BY <4>1, <1>2 DEF ToSet
    <3>. QED
      BY <3>2, <3>3
  <2>2. ASSUME NEW x \in ToSet(t)
        PROVE  x \in ToSet(s)
    <3>1. PICK i \in 1 .. Len(s) - 1 : t[i] = x
      BY <1>2 DEF ToSet
    <3>2. i + 1 \in 1 .. Len(s) /\ s[i + 1] = x
      BY <3>1, <1>1
    <3>. QED
      BY <3>2, <1>2 DEF ToSet
  <2>3. Head(s) \in ToSet(s)
    BY <1>1, <1>2 DEF ToSet
  <2>. QED
    BY <2>1, <2>2, <2>3
<1>5. ASSUME IsInjective(s)
      PROVE  IsInjective(t) /\ Head(s) \notin ToSet(t)
  <2>1. \A i, j \in 1 .. Len(s) : s[i] = s[j] => i = j
    BY <1>5, <1>2 DEF IsInjective
  <2>2. \A i, j \in 1 .. Len(s) - 1 : t[i] = t[j] => i = j
    BY <2>1, <1>1
  <2>3. IsInjective(t)
    BY <2>2, <1>2 DEF IsInjective
  <2>4. \A i \in 1 .. Len(s) - 1 : t[i] # s[1]
    BY <2>1, <1>1
  <2>5. \A x \in ToSet(t) : \E i \in 1 .. Len(s) - 1 : t[i] = x
    BY <1>2 DEF ToSet
  <2>. QED
    BY <2>3, <2>4, <2>5, <1>1
<1>6. t # <<>> => Last(t) = Last(s)
  BY <1>1, <1>3 DEF Last
<1>7. t = <<>> => Last(s) = Head(s)
  BY <1>1, <1>3 DEF Last
<1>. QED
  BY <1>1, <1>4, <1>5, <1>6, <1>7 DEF t

LEMMA FrontFacts ==
    ASSUME NEW S, NEW s \in Seq(S), s # <<>>
    PROVE  /\ Front(s) \in Seq(S) /\ Len(Front(s)) = Len(s) - 1
           /\ \A i \in 1 .. Len(s) - 1 : Front(s)[i] = s[i]
           /\ Last(s) = s[Len(s)] /\ Last(s) \in S /\ Last(s) \in ToSet(s)
           /\ ToSet(s) = ToSet(Front(s)) \cup {Last(s)}
           /\ IsInjective(s) => IsInjective(Front(s)) /\ Last(s) \notin ToSet(Front(s))
           /\ Len(s) > 1 => Front(s) # <<>> /\ Head(Front(s)) = Head(s)
           /\ Len(s) = 1 => Front(s) = <<>>
<1>. DEFINE t == Front(s)
<1>1. Len(s) \in Nat \ {0} /\ \A i \in 1 .. Len(s) : s[i] \in S
  BY LenProperties, EmptySeq, ElementOfSeq
<1>2. /\ t \in Seq(S) /\ Len(t) = Len(s) - 1
      /\ \A i \in 1 .. Len(s) - 1 : t[i] = s[i]
  <2>. DEFINE n == Len(s) - 1
  <2>1. n \in Int /\ n >= 0 /\ 1 \in Int /\ \A i \in 1 .. n : s[i] \in S
    BY <1>1
  <2>2. t = SubSeq(s, 1, n)
    BY DEF Front
  <2>. HIDE DEF t, n
  <2>3. /\ SubSeq(s, 1, n) \in Seq(S)
        /\ Len(SubSeq(s, 1, n)) = IF 1 <= n THEN n - 1 + 1 ELSE 0
        /\ \A i \in 1 .. n - 1 + 1 : SubSeq(s, 1, n)[i] = s[1 + i - 1]
    BY <2>1, SubSeqProperties
  <2>4. Len(t) = n /\ \A i \in 1 .. n : t[i] = s[i]
    BY <2>1, <2>2, <2>3
  <2>. QED
    BY <2>2, <2>3, <2>4 DEF n
<1>3. DOMAIN t = 1 .. Len(s) - 1 /\ DOMAIN s = 1 .. Len(s)
  BY <1>1, <1>2, LenProperties
<1>4. t = <<>> <=> Len(t) = 0
  BY <1>2, EmptySeq
<1>. HIDE DEF t
<1>5. Last(s) = s[Len(s)] /\ Last(s) \in S /\ Last(s) \in ToSet(s)
  BY <1>1, <1>3 DEF Last, ToSet
<1>6. ToSet(s) = ToSet(t) \cup {Last(s)}
  BY <1>1, <1>2, <1>3, <1>5 DEF ToSet
<1>7. ASSUME IsInjective(s)
      PROVE  IsInjective(t) /\ Last(s) \notin ToSet(t)
  <2>1. \A i, j \in 1 .. Len(s) : s[i] = s[j] => i = j
    BY <1>7, <1>3 DEF IsInjective
  <2>2. \A i, j \in 1 .. Len(s) - 1 : t[i] = t[j] => i = j
    BY <2>1, <1>1, <1>2
  <2>3. IsInjective(t)
    BY <2>2, <1>3 DEF IsInjective
  <2>4. \A i \in 1 .. Len(s) - 1 : t[i] # s[Len(s)]
    BY <2>1, <1>1, <1>2
  <2>5. \A x \in ToSet(t) : \E i \in 1 .. Len(s) - 1 : t[i] = x
    BY <1>3 DEF ToSet
  <2>. QED
    BY <2>3, <2>4, <2>5, <1>5
<1>8. ASSUME Len(s) > 1
      PROVE  t # <<>> /\ Head(t) = Head(s)
  <2>1. t # <<>> /\ t[1] = s[1] /\ s # <<>>
    BY <1>8, <1>1, <1>2, <1>4
  <2>2. Head(t) = t[1] /\ Head(s) = s[1]
    BY <2>1, <1>2, HeadTailProperties
  <2>. QED
    BY <2>1, <2>2
<1>. QED
  BY <1>1, <1>2, <1>4, <1>5, <1>6, <1>7, <1>8 DEF t

----------------------------------------------------------------------------
(* How many commands of the pipe name a queue.                             *)

Commands == [cmd : {Renew, Leave, Cancel}, q : Queues]
PlacesOf(p, q) == {i \in DOMAIN p : p[i].q = q}

LEMMA CommandsType ==
    ASSUME NEW p \in Seq(Commands), NEW q
    PROVE  /\ IsFiniteSet(PlacesOf(p, q))
           /\ CommandsOf(p, q) = Cardinality(PlacesOf(p, q)) /\ CommandsOf(p, q) \in Nat
           /\ CommandsOf(p, q) = 0 <=> \A i \in 1 .. Len(p) : p[i].q # q
<1>1. DOMAIN p = 1 .. Len(p) /\ Len(p) \in Nat
  BY LenProperties
<1>2. IsFiniteSet(1 .. Len(p))
  BY <1>1, FS_Interval
<1>3. PlacesOf(p, q) \in SUBSET (1 .. Len(p))
  BY <1>1 DEF PlacesOf
<1>4. IsFiniteSet(PlacesOf(p, q))
  BY <1>2, <1>3, FS_Subset
<1>5. CommandsOf(p, q) = Cardinality(PlacesOf(p, q))
  BY DEF CommandsOf, PlacesOf
<1>6. CommandsOf(p, q) \in Nat
  BY <1>4, <1>5, FS_CardinalityType
<1>7. CommandsOf(p, q) = 0 <=> PlacesOf(p, q) = {}
  BY <1>4, <1>5, FS_EmptySet
<1>8. PlacesOf(p, q) = {} <=> \A i \in 1 .. Len(p) : p[i].q # q
  BY <1>1 DEF PlacesOf
<1>. QED
  BY <1>4, <1>5, <1>6, <1>7, <1>8

\* A command written is one more of its queue.
LEMMA CommandsAppend ==
    ASSUME NEW p \in Seq(Commands), NEW c \in Commands, NEW q
    PROVE  CommandsOf(Append(p, c), q) = CommandsOf(p, q) + Count(c.q = q)
<1>. DEFINE t == Append(p, c)
            n == Len(p) + 1
<1>1. /\ t \in Seq(Commands) /\ Len(t) = Len(p) + 1 /\ Len(p) \in Nat
      /\ \A i \in 1 .. Len(p) : t[i] = p[i]
      /\ t[Len(p) + 1] = c
      /\ DOMAIN p = 1 .. Len(p) /\ DOMAIN t = 1 .. n
  <2>1. t \in Seq(Commands) /\ Len(t) = Len(p) + 1
    BY AppendFacts
  <2>2. DOMAIN t = 1 .. Len(t)
    BY <2>1, LenProperties
  <2>. QED
    BY <2>1, <2>2, AppendFacts, LenProperties
<1>. HIDE DEF t
<1>2. PlacesOf(t, q) = IF c.q = q THEN PlacesOf(p, q) \cup {n} ELSE PlacesOf(p, q)
  BY <1>1 DEF PlacesOf
<1>3. n \notin PlacesOf(p, q)
  BY <1>1 DEF PlacesOf
<1>4. IsFiniteSet(PlacesOf(p, q)) /\ CommandsOf(p, q) = Cardinality(PlacesOf(p, q))
      /\ CommandsOf(t, q) = Cardinality(PlacesOf(t, q)) /\ CommandsOf(p, q) \in Nat
  BY <1>1, CommandsType
<1>. HIDE DEF n
<1>5. Cardinality(PlacesOf(p, q) \cup {n}) = Cardinality(PlacesOf(p, q)) + 1
  BY <1>3, <1>4, FS_AddElement
<1>. QED
  BY <1>2, <1>4, <1>5 DEF t, Count

\* A command read is one fewer.
LEMMA CommandsTail ==
    ASSUME NEW p \in Seq(Commands), NEW q, p # <<>>
    PROVE  CommandsOf(p, q) = CommandsOf(Tail(p), q) + Count(Head(p).q = q)
<1>. DEFINE t == Tail(p)
            n == Len(p)
            Shifted == {i \in 2 .. n : p[i].q = q}
            f == [i \in PlacesOf(t, q) |-> i + 1]
<1>1. /\ t \in Seq(Commands) /\ Len(t) = n - 1 /\ n \in Nat \ {0}
      /\ \A i \in 1 .. n - 1 : t[i] = p[i + 1]
      /\ Head(p) = p[1]
      /\ DOMAIN p = 1 .. n /\ DOMAIN t = 1 .. n - 1
  <2>1. t \in Seq(Commands) /\ Len(t) = n - 1
    BY TailFacts
  <2>2. DOMAIN t = 1 .. Len(t)
    BY <2>1, LenProperties
  <2>. QED
    BY <2>1, <2>2, TailFacts, SeqFacts
<1>. HIDE DEF t, n
<1>2. f \in Bijection(PlacesOf(t, q), Shifted)
  <2>1. f \in [PlacesOf(t, q) -> Shifted]
    BY <1>1 DEF PlacesOf
  <2>2. \A i, j \in PlacesOf(t, q) : f[i] = f[j] => i = j
    BY <1>1 DEF PlacesOf
  <2>3. \A k \in Shifted : \E i \in PlacesOf(t, q) : f[i] = k
    <3>. SUFFICES ASSUME NEW k \in Shifted
                  PROVE  \E i \in PlacesOf(t, q) : f[i] = k
      OBVIOUS
    <3>1. k - 1 \in PlacesOf(t, q) /\ f[k - 1] = k
      BY <1>1 DEF PlacesOf
    <3>. QED
      BY <3>1
  <2>. HIDE DEF f, Shifted
  <2>. QED
    BY <2>1, <2>2, <2>3 DEF Bijection, Injection, Surjection, IsInjective
<1>3. IsFiniteSet(PlacesOf(t, q)) /\ CommandsOf(t, q) = Cardinality(PlacesOf(t, q))
      /\ CommandsOf(p, q) = Cardinality(PlacesOf(p, q)) /\ CommandsOf(t, q) \in Nat
  BY <1>1, CommandsType
<1>4. ExistsBijection(PlacesOf(t, q), Shifted)
  BY <1>2 DEF ExistsBijection
<1>5. IsFiniteSet(Shifted) /\ Cardinality(Shifted) = CommandsOf(t, q)
  BY <1>3, <1>4, FS_Bijection
<1>6. PlacesOf(p, q) = IF p[1].q = q THEN Shifted \cup {1} ELSE Shifted
  BY <1>1 DEF PlacesOf
<1>7. 1 \notin Shifted
  OBVIOUS
<1>. HIDE DEF Shifted, f
<1>8. Cardinality(Shifted \cup {1}) = Cardinality(Shifted) + 1
  BY <1>5, <1>7, FS_AddElement
<1>. QED
  BY <1>1, <1>3, <1>5, <1>6, <1>8 DEF Count, t

----------------------------------------------------------------------------
(* Tables: what a change of one entry leaves alone.                        *)

Waiting == [Queues -> [Dirs -> Seq(Requests)]]
PutAt(rs, q, d, s) == [rs EXCEPT ![q][d] = s]
LEMMA PutFacts ==
    ASSUME NEW rs \in Waiting, NEW q \in Queues, NEW d \in Dirs, NEW s \in Seq(Requests)
    PROVE  /\ PutAt(rs, q, d, s) \in Waiting
           /\ PutAt(rs, q, d, s)[q][d] = s
           /\ \A x \in Queues, e \in Dirs :
                x # q \/ e # d => PutAt(rs, q, d, s)[x][e] = rs[x][e]
  BY DEF Waiting, PutAt

CallTo == [cmd : {Renew, Leave, Cancel}, q : Queues, r : 0 .. MaxRequests]
Calls == CallTo \cup {NoCall}
LEMMA CallFacts ==
    ASSUME NEW c \in Calls
    PROVE  /\ c.cmd \in {Renew, Leave, Cancel} /\ c.q \in Queues \cup {NoOne}
           /\ c.r \in 0 .. MaxRequests
           /\ c = NoCall <=> c.q = NoOne
           /\ c # NoCall <=> c.q \in Queues
           /\ c # NoCall => c \in CallTo
  BY ActorsDistinct, BoundsNatural DEF Calls, CallTo, NoCall, Queues

RequestSet == [q : Queues, kind : Kinds, left : Int] \cup {NoRequest}
LEMMA RequestFacts ==
    ASSUME NEW t \in RequestSet
    PROVE  DirOf(t.kind) \in Dirs /\ t.left \in Int /\ (t.q \in Queues <=> t # NoRequest)
  BY ActorsDistinct DEF RequestSet, NoRequest, DirOf, Dirs, Queues

ItemSet == [q : Queues, what : Dirs \cup {"command"}] \cup {NoItem}
LEMMA ItemFacts ==
    ASSUME NEW i \in ItemSet
    PROVE  i.q \in Queues \cup {NoOne} /\ (i # NoItem <=> i.q \in Queues)
  BY ActorsDistinct DEF ItemSet, NoItem, Queues

LEMMA Distinctness ==
    /\ Dispatcher \in Actors /\ NoOne \notin Actors /\ NoOne \notin Queues
    /\ Threads \subseteq Actors
    /\ "handler" \notin Queues /\ Channels \subseteq Queues /\ Listeners \subseteq Queues
    /\ Renew # Leave /\ Renew # Cancel /\ Leave # Cancel
    /\ MaxRequests \in Nat /\ MaxCancels \in Nat /\ Requests = 1 .. MaxRequests
    /\ \A q \in Channels : q \notin Listeners
  BY ActorsDistinct, BoundsNatural DEF Actors, Queues, Renew, Leave, Cancel, Requests

(* What is known of one state, in the form the steps use it.               *)
LEMMA StateFacts ==
    ASSUME TypeOK
    PROVE  /\ \A a \in Actors :
                /\ call[a] \in Calls
                /\ call[a].cmd \in {Renew, Leave, Cancel} /\ call[a].q \in Queues \cup {NoOne}
                /\ call[a].r \in 0 .. MaxRequests
                /\ call[a] = NoCall <=> call[a].q = NoOne
                /\ call[a] # NoCall <=> call[a].q \in Queues
           /\ \A r \in Requests : DirOf(request[r].kind) \in Dirs /\ request[r].left \in Int
           /\ item.q \in Queues \cup {NoOne} /\ (item # NoItem <=> item.q \in Queues)
           /\ \A q \in Queues, d \in Dirs :
                /\ requests[q][d] \in Seq(Requests)
                /\ Len(requests[q][d]) \in Nat /\ requests[q][d] # <<>> <=> Len(requests[q][d]) > 0
           /\ Len(pipe) \in Nat /\ pipe # <<>> <=> Len(pipe) > 0
           /\ \A i \in 1 .. Len(pipe) : pipe[i].cmd \in {Renew, Leave, Cancel} /\ pipe[i].q \in Queues
           /\ pipe \in Seq(Commands) /\ requests \in Waiting
<1>1. /\ \A a \in Actors : call[a] \in Calls
      /\ \A r \in Requests : request[r] \in RequestSet
      /\ item \in ItemSet /\ pipe \in Seq(Commands) /\ requests \in Waiting
      /\ \A q \in Queues, d \in Dirs : requests[q][d] \in Seq(Requests)
  BY DEF TypeOK, Calls, CallTo, RequestSet, ItemSet, Commands, Waiting
<1>2. \A i \in 1 .. Len(pipe) : pipe[i] \in Commands
  BY <1>1, SeqFacts
<1>3. \A c \in Commands : c.cmd \in {Renew, Leave, Cancel} /\ c.q \in Queues
  BY DEF Commands
<1>. QED
  BY <1>1, <1>2, <1>3, CallFacts, RequestFacts, ItemFacts, SeqFacts

----------------------------------------------------------------------------
(* The initial state.                                                      *)

LEMMA InitInvariant == Init => IInv
<1>. SUFFICES ASSUME Init
              PROVE  IInv
  OBVIOUS
<1>. USE Distinctness
<1>. USE DEF Init
<1>0. <<>> \in Seq(Requests) /\ Len(<<>>) = 0 /\ ToSet(<<>>) = {} /\ IsInjective(<<>>)
      /\ pipe \in Seq(Commands) /\ Len(pipe) = 0
  BY DEF ToSet, IsInjective
<1>1. TypeOK
  <2>1. request \in [Requests -> [q : Queues, kind : Kinds, left : Int] \cup {NoRequest}]
    OBVIOUS
  <2>2. call \in [Actors -> [cmd : {Renew, Leave, Cancel}, q : Queues, r : 0 .. MaxRequests]
                          \cup {NoCall}]
    OBVIOUS
  <2>3. stack \in [Actors -> Seq(Queues \cup {"handler"})]
    OBVIOUS
  <2>4. requests \in [Queues -> [Dirs -> Seq(Requests)]]
    BY <1>0
  <2>5. pipe \in Seq([cmd : {Renew, Leave, Cancel}, q : Queues])
    OBVIOUS
  <2>6. /\ sync \in [Queues -> Actors \cup {NoOne}] /\ ref \in [Queues -> Int]
        /\ owned \subseteq Queues /\ dead \subseteq Queues
        /\ made \in 0 .. MaxRequests /\ cancels \in [Listeners -> 0 .. MaxCancels]
    OBVIOUS
  <2>7. /\ done \in [Requests -> Statuses \cup {"no"}]
        /\ control \in Actors \cup {NoOne} /\ open \in BOOLEAN
        /\ clients \subseteq Queues /\ attr \in [Queues -> SUBSET Dirs]
        /\ at \in Places /\ seen \in BOOLEAN
        /\ item \in [q : Queues, what : Dirs \cup {"command"}] \cup {NoItem}
    BY DEF Places, Statuses
  <2>8. pc \in [Actors -> {"idle", "lock", "acquire", "write", "retain", "drop", "join"}]
    OBVIOUS
  <2>. HIDE DEF Init
  <2>. QED
    BY <2>1, <2>2, <2>3, <2>4, <2>5, <2>6, <2>7, <2>8 DEF TypeOK
<1>2. \A a \in Actors : pc[a] = "idle" /\ call[a] = NoCall /\ call[a].q = NoOne
                        /\ stack[a] = <<>> /\ call[a].cmd = Leave
  BY DEF NoCall
<1>3. \A q \in Queues, d \in Dirs : requests[q][d] = <<>>
  OBVIOUS
<1>4. CallsSound
  BY <1>2 DEF CallsSound
<1>5. LocksHeld
  BY <1>2 DEF LocksHeld, Sending
<1>6. RequestsInPlace
  BY <1>0, <1>3 DEF RequestsInPlace
<1>7. RequestsFresh
  BY <1>2 DEF RequestsFresh
<1>8. LoopSound /\ CommandsSound
  BY <1>0 DEF LoopSound, CommandsSound, Working
<1>9. CommandOwed
  BY <1>2 DEF CommandOwed
<1>10. ReferencesCounted
  <2>. SUFFICES ASSUME NEW q \in Queues
                PROVE  ref[q] = Holders(q)
    BY DEF ReferencesCounted
  <2>1. InPipe(q) = 0
    <3>. HIDE DEF Init
    <3>1. pipe \in Seq(Commands) /\ Len(pipe) = 0
      BY <1>0
    <3>2. \A i \in 1 .. Len(pipe) : pipe[i].q # q
      BY <3>1
    <3>3. CommandsOf(pipe, q) = 0
      BY <3>1, <3>2, CommandsType
    <3>. QED
      BY <3>3 DEF InPipe
  <2>2. ~Leaving(q) /\ ~Owing(q) /\ ~Executing(q)
    BY <1>2 DEF Leaving, Owing, Executing, Working
  <2>. QED
    BY <2>1, <2>2 DEF Holders, Count
<1>11. NotDestroyedInUse /\ DestructorsOfDead /\ UnbornEmpty
  BY <1>2, <1>3 DEF NotDestroyedInUse, DestructorsOfDead, UnbornEmpty
<1>12. NothingForgotten /\ SentNoticed
  BY DEF NothingForgotten, SentNoticed
<1>. QED
  BY <1>1, <1>4, <1>5, <1>6, <1>7, <1>8, <1>9, <1>10, <1>11, <1>12 DEF IInv

----------------------------------------------------------------------------
(* Types.                                                                  *)

PcType == [Actors -> {"idle", "lock", "acquire", "write", "retain", "drop", "join"}]
QueuesTyped == /\ requests \in Waiting /\ sync \in [Queues -> Actors \cup {NoOne}]
               /\ ref \in [Queues -> Int] /\ owned \subseteq Queues /\ dead \subseteq Queues
ReqsTyped == /\ made \in 0 .. MaxRequests /\ cancels \in [Listeners -> 0 .. MaxCancels]
             /\ request \in [Requests -> RequestSet]
             /\ done \in [Requests -> Statuses \cup {"no"}]
PipeTyped == control \in Actors \cup {NoOne} /\ open \in BOOLEAN /\ pipe \in Seq(Commands)
LoopTyped == /\ clients \subseteq Queues /\ attr \in [Queues -> SUBSET Dirs]
             /\ at \in Places /\ seen \in BOOLEAN /\ item \in ItemSet
ActorsTyped == /\ pc \in PcType /\ call \in [Actors -> Calls]
               /\ stack \in [Actors -> Seq(Queues \cup {"handler"})]

LEMMA TypeParts ==
    TypeOK <=> QueuesTyped /\ ReqsTyped /\ PipeTyped /\ LoopTyped /\ ActorsTyped
  BY DEF TypeOK, QueuesTyped, ReqsTyped, PipeTyped, LoopTyped, ActorsTyped, PcType,
         Waiting, RequestSet, Commands, ItemSet, Calls, CallTo

LEMMA TypeParts1 ==
    TypeOK' <=> QueuesTyped' /\ ReqsTyped' /\ PipeTyped' /\ LoopTyped' /\ ActorsTyped'
  BY DEF TypeOK, QueuesTyped, ReqsTyped, PipeTyped, LoopTyped, ActorsTyped, PcType,
         Waiting, RequestSet, Commands, ItemSet, Calls, CallTo

LEMMA Frames ==
    /\ QueuesTyped /\ UNCHANGED queueVars => QueuesTyped'
    /\ ReqsTyped /\ UNCHANGED reqVars => ReqsTyped'
    /\ PipeTyped /\ UNCHANGED pipeVars => PipeTyped'
    /\ LoopTyped /\ UNCHANGED loopVars => LoopTyped'
    /\ ActorsTyped /\ UNCHANGED actorVars => ActorsTyped'
  BY DEF QueuesTyped, ReqsTyped, PipeTyped, LoopTyped, ActorsTyped,
         queueVars, reqVars, pipeVars, loopVars, actorVars

(* An actor that moves, and what it runs.                                  *)
LEMMA GotoType ==
    ASSUME pc \in PcType, call \in [Actors -> Calls], NEW a \in Actors,
           NEW l \in {"idle", "acquire", "write", "retain", "drop", "join"}, Goto(a, l)
    PROVE  pc' \in PcType /\ call' \in [Actors -> Calls]
<1>1. NoCall \in Calls
  BY DEF Calls
<1>2. pc' \in PcType
  BY DEF Goto, PcType
<1>3. call' \in [Actors -> Calls]
  BY <1>1 DEF Goto
<1>. QED
  BY <1>2, <1>3

LEMMA GoCallingType ==
    ASSUME pc \in PcType, call \in [Actors -> Calls], NEW a \in Actors,
           NEW l \in {"lock", "acquire"}, NEW c \in CallTo, GoCalling(a, l, c)
    PROVE  pc' \in PcType /\ call' \in [Actors -> Calls]
<1>1. c \in Calls
  BY DEF Calls
<1>. QED
  BY <1>1 DEF GoCalling, PcType

StackType == [Actors -> Seq(Queues \cup {"handler"})]
LEMMA PushType ==
    ASSUME stack \in StackType, NEW a \in Actors, NEW x \in Queues \cup {"handler"}, Push(a, x)
    PROVE  stack' \in StackType
<1>1. stack[a] \in Seq(Queues \cup {"handler"})
  BY DEF StackType
<1>2. Append(stack[a], x) \in Seq(Queues \cup {"handler"})
  BY <1>1, AppendFacts
<1>. QED
  BY <1>2 DEF Push, StackType

LEMMA PopType ==
    ASSUME stack \in StackType, NEW a \in Actors, stack[a] # <<>>,
           stack' = [stack EXCEPT ![a] = Front(@)]
    PROVE  stack' \in StackType
<1>1. stack[a] \in Seq(Queues \cup {"handler"})
  BY DEF StackType
<1>2. Front(stack[a]) \in Seq(Queues \cup {"handler"})
  BY <1>1, FrontFacts
<1>. QED
  BY <1>2 DEF StackType

LEMMA ReleaseType ==
    ASSUME ref \in [Queues -> Int], dead \subseteq Queues, stack \in StackType,
           NEW a \in Actors, NEW q \in Queues, NEW n \in Nat, Release(a, q, n)
    PROVE  ref' \in [Queues -> Int] /\ dead' \subseteq Queues /\ stack' \in StackType
<1>1. ref' \in [Queues -> Int] /\ dead' \subseteq Queues
  BY DEF Release
<1>2. CASE ref[q] <= n
  <2>1. Push(a, q)
    BY <1>2 DEF Release
  <2>. QED
    BY <1>1, <2>1, PushType
<1>3. CASE ~(ref[q] <= n)
  BY <1>1, <1>3 DEF Release
<1>. QED
  BY <1>2, <1>3

LEMMA AdoptType ==
    ASSUME ref \in [Queues -> Int], owned \subseteq Queues, NEW q \in Queues, Adopt(q)
    PROVE  ref' \in [Queues -> Int] /\ owned' \subseteq Queues
  BY DEF Adopt

LEMMA EndType ==
    ASSUME done \in [Requests -> Statuses \cup {"no"}], NEW r \in Requests,
           NEW how \in Statuses, End(r, how)
    PROVE  done' \in [Requests -> Statuses \cup {"no"}]
  BY DEF End

(* Requests that leave a queue at its head.                                *)
LEMMA HeadType ==
    ASSUME requests \in Waiting, NEW q \in Queues, NEW d \in Dirs, requests[q][d] # <<>>
    PROVE  /\ Head(requests[q][d]) \in Requests
           /\ [requests EXCEPT ![q][d] = Tail(@)] = PutAt(requests, q, d, Tail(requests[q][d]))
           /\ Tail(requests[q][d]) \in Seq(Requests)
           /\ [requests EXCEPT ![q][d] = Tail(@)] \in Waiting
<1>1. requests[q][d] \in Seq(Requests)
  BY DEF Waiting
<1>2. Head(requests[q][d]) \in Requests /\ Tail(requests[q][d]) \in Seq(Requests)
  BY <1>1, TailFacts
<1>3. [requests EXCEPT ![q][d] = Tail(@)] = PutAt(requests, q, d, Tail(requests[q][d]))
  BY DEF PutAt
<1>4. PutAt(requests, q, d, Tail(requests[q][d])) \in Waiting
  BY <1>2, PutFacts
<1>. QED
  BY <1>2, <1>3, <1>4

(* Where a queue is named in a step, it is one.                            *)
LEMMA NamedQueues ==
    ASSUME IInv
    PROVE  /\ \A a \in Actors : pc[a] \notin {"idle", "join"} => call[a] \in CallTo /\ call[a].q \in Queues
           /\ \A a \in Actors : pc[a] = "lock" \/ (call[a].cmd = Renew /\ call[a].q \in Queues) =>
                call[a].r \in Requests /\ call[a].r <= made /\ call[a].r > 0
           /\ at \in {"handle", "peekRead", "peekWrite", "round",
                      "renewRead", "renewWrite", "cancel", "leave"} => item.q \in Queues
           /\ at \in {"handle", "peekRead", "peekWrite", "round"} => item.what \in Dirs
<1>1. TypeOK /\ CallsSound /\ LoopSound
  BY DEF IInv
<1>2. \A a \in Actors : pc[a] \notin {"idle", "join"} => call[a] # NoCall
  BY <1>1 DEF CallsSound
<1>3. \A a \in Actors : call[a] # NoCall => call[a] \in CallTo
  BY <1>1, StateFacts, CallFacts
<1>4. \A a \in Actors : call[a] # NoCall <=> call[a].q \in Queues
  BY <1>1, StateFacts
<1>5. \A a \in Actors : call[a] # NoCall /\ call[a].cmd = Renew => call[a].r \in 1 .. made
  BY <1>1 DEF CallsSound
<1>6. \A a \in Actors : pc[a] = "lock" => call[a].cmd = Renew
  BY <1>1 DEF CallsSound
<1>7. clients \subseteq Queues /\ made \in 0 .. MaxRequests
  BY <1>1 DEF TypeOK
<1>8. \A r \in 1 .. made : r \in Requests /\ r <= made /\ r > 0
  BY <1>7, Distinctness
<1>9. \A a \in Actors : pc[a] = "lock" \/ (call[a].cmd = Renew /\ call[a].q \in Queues) =>
                call[a].r \in 1 .. made
  BY <1>2, <1>4, <1>5, <1>6
<1>10. /\ at \in {"handle", "peekRead", "peekWrite", "round",
                      "renewRead", "renewWrite", "cancel", "leave"} => item.q \in Queues
       /\ at \in {"handle", "peekRead", "peekWrite", "round"} => item.what \in Dirs
  BY <1>1, <1>7 DEF LoopSound, Working
<1>. QED
  BY <1>2, <1>3, <1>4, <1>8, <1>9, <1>10

(* The request of a call that is to take the pipe is the last of its queue. *)
LEMMA LastSent ==
    ASSUME IInv, NEW a \in Actors, pc[a] = "acquire", call[a].cmd = Renew,
           NEW q, q = call[a].q, NEW r, r = call[a].r, NEW d, d = DirOf(request[r].kind)
    PROVE  /\ q \in Queues /\ q \in owned /\ d \in Dirs /\ r \in Requests /\ r <= made
           /\ requests[q][d] \in Seq(Requests) /\ requests[q][d] # <<>>
           /\ Last(requests[q][d]) = r
<1>1. TypeOK /\ RequestsFresh /\ CallsSound
  BY DEF IInv
<1>2. q \in Queues /\ r \in Requests /\ r <= made
  BY NamedQueues
<1>3. d \in Dirs
  BY <1>1, <1>2, StateFacts
<1>4. requests[q][d] # <<>> /\ Last(requests[q][d]) = r
  BY <1>1 DEF RequestsFresh
<1>5. q \in owned
  BY <1>1, <1>2 DEF CallsSound
<1>6. requests[q][d] \in Seq(Requests)
  BY <1>1, <1>2, <1>3, StateFacts
<1>. QED
  BY <1>2, <1>3, <1>4, <1>5, <1>6

LEMMA ProgramTypes ==
    ASSUME IInv, NEW a \in Actors, Program(a)
    PROVE  TypeOK'
<1>1. TypeOK /\ QueuesTyped /\ ReqsTyped /\ PipeTyped /\ LoopTyped /\ ActorsTyped
  BY TypeParts DEF IInv
<1>2. \A q \in Queues : owned' = owned \cup {q} => owned' \subseteq Queues
  BY <1>1 DEF QueuesTyped
<1>3. ASSUME NEW q \in Queues, BindA(a, q)
      PROVE  TypeOK'
  <2>1. ref' \in [Queues -> Int] /\ owned' \subseteq Queues
    BY <1>1, <1>3, AdoptType DEF BindA, QueuesTyped
  <2>2. QueuesTyped'
    BY <1>1, <1>3, <2>1 DEF BindA, QueuesTyped
  <2>3. ReqsTyped' /\ PipeTyped' /\ LoopTyped' /\ ActorsTyped'
    BY <1>1, <1>3, Frames DEF BindA
  <2>. QED
    BY <2>2, <2>3, TypeParts1
<1>4. ASSUME NEW q \in Queues, NEW k \in Kinds, NEW n \in Int, Enter(a, q, k, n)
      PROVE  ReqsTyped' /\ PipeTyped' /\ LoopTyped' /\ ActorsTyped'
  <2>. DEFINE new == [q |-> q, kind |-> k, left |-> n]
              c == [cmd |-> Renew, q |-> q, r |-> made + 1]
  <2>1. made \in Nat /\ made < MaxRequests /\ made + 1 \in Requests /\ made' = made + 1
    BY <1>1, <1>4, Distinctness DEF Enter, ReqsTyped
  <2>2. new \in RequestSet /\ c \in CallTo
    BY <2>1, Distinctness DEF RequestSet, CallTo
  <2>3. request' = [request EXCEPT ![made + 1] = new] /\ GoCalling(a, "lock", c)
        /\ done' = done /\ cancels' = cancels /\ stack' = stack
    BY <1>4 DEF Enter
  <2>. HIDE DEF new, c
  <2>4. ReqsTyped'
    BY <1>1, <2>1, <2>2, <2>3, Distinctness DEF ReqsTyped
  <2>5. ActorsTyped'
    BY <1>1, <2>2, <2>3, GoCallingType DEF ActorsTyped
  <2>6. PipeTyped' /\ LoopTyped'
    BY <1>1, <1>4, Frames DEF Enter
  <2>. QED
    BY <2>4, <2>5, <2>6
<1>5. ASSUME NEW q \in Queues, ConnectA(a, q)
      PROVE  TypeOK'
  <2>1. ref' \in [Queues -> Int] /\ owned' \subseteq Queues
    BY <1>1, <1>5, AdoptType DEF ConnectA, QueuesTyped
  <2>2. requests' = requests /\ sync' = sync /\ dead' = dead /\ Enter(a, q, "connect", 0)
    BY <1>5 DEF ConnectA, Enter
  <2>3. QueuesTyped'
    BY <1>1, <2>1, <2>2 DEF QueuesTyped
  <2>4. "connect" \in Kinds /\ 0 \in Int
    BY DEF Kinds
  <2>5. ReqsTyped' /\ PipeTyped' /\ LoopTyped' /\ ActorsTyped'
    BY <1>4, <2>2, <2>4
  <2>. QED
    BY <2>3, <2>5, TypeParts1
<1>6. ASSUME NEW q \in Queues, NEW k \in Kinds, NEW n \in Limits \cup {0}, Request(a, q, k, n)
      PROVE  TypeOK'
  <2>1. n \in Int
    BY BoundsNatural
  <2>2. Enter(a, q, k, n) /\ UNCHANGED queueVars
    BY <1>6 DEF Request, Enter, queueVars
  <2>3. QueuesTyped'
    BY <1>1, <2>2, Frames
  <2>5. ReqsTyped' /\ PipeTyped' /\ LoopTyped' /\ ActorsTyped'
    BY <1>4, <2>1, <2>2
  <2>. QED
    BY <2>3, <2>5, TypeParts1
<1>7. ASSUME NEW q \in Queues, Close(a, q)
      PROVE  TypeOK'
  <2>. DEFINE c == [cmd |-> Cancel, q |-> q, r |-> 0]
  <2>1. c \in CallTo
    BY Distinctness DEF CallTo
  <2>2. /\ cancels' = [cancels EXCEPT ![q] = @ + 1] /\ q \in Listeners
        /\ cancels[q] < MaxCancels /\ GoCalling(a, "acquire", c)
        /\ UNCHANGED <<queueVars, made, request, done, pipeVars, loopVars, stack>>
    BY <1>7 DEF Close
  <2>. HIDE DEF c
  <2>3. ReqsTyped'
    BY <1>1, <2>2, Distinctness DEF ReqsTyped
  <2>4. ActorsTyped'
    BY <1>1, <2>1, <2>2, GoCallingType DEF ActorsTyped
  <2>5. QueuesTyped' /\ PipeTyped' /\ LoopTyped'
    BY <1>1, <2>2, Frames
  <2>. QED
    BY <2>3, <2>4, <2>5, TypeParts1
<1>8. ASSUME NEW q \in Queues, Destroy(a, q)
      PROVE  TypeOK'
  <2>. DEFINE c == [cmd |-> Leave, q |-> q, r |-> 0]
  <2>1. c \in CallTo
    BY Distinctness DEF CallTo
  <2>2. /\ owned' = owned \ {q} /\ GoCalling(a, "acquire", c)
        /\ UNCHANGED <<requests, sync, ref, dead, reqVars, pipeVars, loopVars, stack>>
    BY <1>8 DEF Destroy
  <2>. HIDE DEF c
  <2>3. QueuesTyped'
    BY <1>1, <2>2 DEF QueuesTyped
  <2>4. ActorsTyped'
    BY <1>1, <2>1, <2>2, GoCallingType DEF ActorsTyped
  <2>5. ReqsTyped' /\ PipeTyped' /\ LoopTyped'
    BY <1>1, <2>2, Frames
  <2>. QED
    BY <2>3, <2>4, <2>5, TypeParts1
<1>9. ASSUME StopDispatch(a)
      PROVE  TypeOK'
  <2>1. Goto(a, "join") /\ open' = FALSE
        /\ UNCHANGED <<queueVars, reqVars, control, pipe, loopVars, stack>>
    BY <1>9 DEF StopDispatch
  <2>2. ActorsTyped'
    BY <1>1, <2>1, GotoType DEF ActorsTyped
  <2>3. PipeTyped'
    BY <1>1, <2>1 DEF PipeTyped
  <2>4. QueuesTyped' /\ ReqsTyped' /\ LoopTyped'
    BY <1>1, <2>1, Frames
  <2>. QED
    BY <2>2, <2>3, <2>4, TypeParts1
<1>. QED
  BY <1>3, <1>5, <1>6, <1>7, <1>8, <1>9 DEF Program

LEMMA InCallTypes ==
    ASSUME IInv, NEW a \in Actors, InCall(a)
    PROVE  TypeOK'
<1>1. TypeOK /\ QueuesTyped /\ ReqsTyped /\ PipeTyped /\ LoopTyped /\ ActorsTyped
  BY TypeParts DEF IInv
<1>2. pc \in PcType /\ call \in [Actors -> Calls] /\ stack \in StackType
  BY <1>1 DEF ActorsTyped, StackType
<1>3. pc[a] \notin {"idle", "join"} => call[a] \in CallTo /\ call[a].q \in Queues
  BY NamedQueues
<1>4. requests \in Waiting
  BY <1>1 DEF QueuesTyped
<1>5. ASSUME pc' \in PcType, call' \in [Actors -> Calls], stack' \in StackType
      PROVE  ActorsTyped'
  BY <1>5 DEF ActorsTyped, StackType
<1>6. ASSUME Enqueue(a)
      PROVE  TypeOK'
  <2>. DEFINE q == call[a].q
              r == call[a].r
              d == DirOf(request[r].kind)
  <2>1. q \in Queues /\ r \in Requests /\ d \in Dirs
    BY <1>1, <1>3, <1>6, NamedQueues, StateFacts DEF Enqueue
  <2>2. /\ sync' = [sync EXCEPT ![q] = a]
        /\ requests' = [requests EXCEPT ![q][d] = Append(@, r)]
        /\ Goto(a, "acquire")
        /\ UNCHANGED <<ref, owned, dead, reqVars, pipeVars, loopVars, stack>>
    BY <1>6 DEF Enqueue
  <2>. HIDE DEF q, r, d
  <2>3. Append(requests[q][d], r) \in Seq(Requests)
    BY <1>4, <2>1, AppendFacts DEF Waiting
  <2>4. requests' = PutAt(requests, q, d, Append(requests[q][d], r))
    BY <2>2 DEF PutAt
  <2>5. requests' \in Waiting
    BY <1>4, <2>1, <2>3, <2>4, PutFacts
  <2>6. QueuesTyped'
    BY <1>1, <2>1, <2>2, <2>5 DEF QueuesTyped
  <2>7. ActorsTyped'
    BY <1>2, <1>5, <2>2, GotoType
  <2>8. ReqsTyped' /\ PipeTyped' /\ LoopTyped'
    BY <1>1, <2>2, Frames
  <2>. QED
    BY <2>6, <2>7, <2>8, TypeParts1
<1>7. ASSUME ConnectAtOnce(a)
      PROVE  TypeOK'
  <2>1. call[a].r \in Requests /\ "finished" \in Statuses
    BY <1>7, NamedQueues DEF ConnectAtOnce, Statuses
  <2>2. /\ End(call[a].r, "finished") /\ Push(a, "handler") /\ Goto(a, "idle")
        /\ UNCHANGED <<queueVars, made, request, cancels, pipeVars, loopVars>>
    BY <1>7 DEF ConnectAtOnce
  <2>3. done' \in [Requests -> Statuses \cup {"no"}]
    BY <1>1, <2>1, <2>2, EndType DEF ReqsTyped
  <2>4. ReqsTyped'
    BY <1>1, <2>2, <2>3 DEF ReqsTyped
  <2>5. ActorsTyped'
    BY <1>2, <1>5, <2>2, GotoType, PushType
  <2>6. QueuesTyped' /\ PipeTyped' /\ LoopTyped'
    BY <1>1, <2>2, Frames
  <2>. QED
    BY <2>4, <2>5, <2>6, TypeParts1
<1>8. ASSUME Acquire(a)
      PROVE  TypeOK'
  <2>1. Goto(a, "write") /\ control' = a
        /\ UNCHANGED <<queueVars, reqVars, open, pipe, loopVars, stack>>
    BY <1>8 DEF Acquire
  <2>2. ActorsTyped'
    BY <1>2, <1>5, <2>1, GotoType
  <2>3. PipeTyped'
    BY <1>1, <2>1 DEF PipeTyped
  <2>4. QueuesTyped' /\ ReqsTyped' /\ LoopTyped'
    BY <1>1, <2>1, Frames
  <2>. QED
    BY <2>2, <2>3, <2>4, TypeParts1
<1>9. ASSUME Refuse(a)
      PROVE  TypeOK'
  <2>. DEFINE q == call[a].q
              r == call[a].r
              d == DirOf(request[r].kind)
              l == IF call[a].cmd = Leave THEN "drop" ELSE "idle"
  <2>0. q = call[a].q /\ r = call[a].r /\ d = DirOf(request[r].kind)
    OBVIOUS
  <2>2. /\ IF call[a].cmd = Renew
           THEN /\ requests' = [requests EXCEPT ![q][d] = Front(@)]
                /\ sync' = [sync EXCEPT ![q] = NoOne]
                /\ End(r, "refused")
                /\ Push(a, "handler")
           ELSE UNCHANGED <<requests, sync, done, stack>>
        /\ Goto(a, l)
        /\ UNCHANGED <<ref, owned, dead, made, request, cancels, pipeVars, loopVars>>
    BY <1>9 DEF Refuse
  <2>3. l \in {"idle", "drop"}
    OBVIOUS
  <2>. HIDE DEF q, r, d, l
  <2>4. pc' \in PcType /\ call' \in [Actors -> Calls]
    BY <1>2, <2>2, <2>3, GotoType
  <2>5. CASE call[a].cmd = Renew
    <3>1. q \in Queues /\ d \in Dirs /\ r \in Requests /\ requests[q][d] # <<>>
      <4>1. pc[a] = "acquire"
        BY <1>9 DEF Refuse
      <4>2. requests[q][d] # <<>>
        BY <4>1, <2>0, <2>5, LastSent
      <4>. QED
        BY <4>1, <4>2, <2>0, <2>5, LastSent
    <3>2. Front(requests[q][d]) \in Seq(Requests)
      <4>1. requests[q][d] \in Seq(Requests)
        BY <1>4, <3>1 DEF Waiting
      <4>. QED
        BY <3>1, <4>1, FrontFacts
    <3>3. requests' = PutAt(requests, q, d, Front(requests[q][d]))
      BY <2>2, <2>5 DEF PutAt
    <3>4. requests' \in Waiting
      BY <1>4, <3>1, <3>2, <3>3, PutFacts
    <3>5. QueuesTyped'
      BY <1>1, <2>2, <2>5, <3>1, <3>4 DEF QueuesTyped
    <3>6. "refused" \in Statuses
      BY DEF Statuses
    <3>7. done' \in [Requests -> Statuses \cup {"no"}]
      BY <1>1, <2>2, <2>5, <3>1, <3>6, EndType DEF ReqsTyped
    <3>8. ReqsTyped'
      BY <1>1, <2>2, <3>7 DEF ReqsTyped
    <3>9. ActorsTyped'
      BY <1>2, <1>5, <2>2, <2>4, <2>5, PushType
    <3>10. PipeTyped' /\ LoopTyped'
      BY <1>1, <2>2, Frames
    <3>. QED
      BY <3>5, <3>8, <3>9, <3>10, TypeParts1
  <2>6. CASE call[a].cmd # Renew
    <3>1. UNCHANGED queueVars /\ UNCHANGED reqVars /\ UNCHANGED <<pipeVars, loopVars>>
          /\ stack' = stack
      BY <2>2, <2>6 DEF queueVars, reqVars
    <3>2. ActorsTyped'
      BY <1>2, <1>5, <2>4, <3>1
    <3>. QED
      BY <1>1, <3>1, <3>2, Frames, TypeParts1
  <2>. QED
    BY <2>5, <2>6
<1>10. ASSUME Write(a)
       PROVE  TypeOK'
  <2>. DEFINE c == [cmd |-> call[a].cmd, q |-> call[a].q]
  <2>1. c \in Commands
    BY <1>3, <1>10 DEF Write, Commands, CallTo
  <2>2. pipe' = Append(pipe, c) /\ Goto(a, "retain")
        /\ UNCHANGED <<queueVars, reqVars, control, open, loopVars, stack>>
    BY <1>10 DEF Write
  <2>. HIDE DEF c
  <2>3. pipe' \in Seq(Commands)
    BY <1>1, <2>1, <2>2, AppendFacts DEF PipeTyped
  <2>4. PipeTyped'
    BY <1>1, <2>2, <2>3 DEF PipeTyped
  <2>5. ActorsTyped'
    BY <1>2, <1>5, <2>2, GotoType
  <2>6. QueuesTyped' /\ ReqsTyped' /\ LoopTyped'
    BY <1>1, <2>2, Frames
  <2>. QED
    BY <2>4, <2>5, <2>6, TypeParts1
<1>11. ASSUME Retain(a)
       PROVE  TypeOK'
  <2>. DEFINE q == call[a].q
              l == IF call[a].cmd = Leave THEN "drop" ELSE "idle"
  <2>1. q \in Queues /\ l \in {"idle", "drop"}
    BY <1>3, <1>11 DEF Retain
  <2>2. /\ ref' = [ref EXCEPT ![q] = @ + 1] /\ control' = NoOne
        /\ IF call[a].cmd = Renew THEN sync' = [sync EXCEPT ![q] = NoOne] ELSE UNCHANGED sync
        /\ Goto(a, l)
        /\ UNCHANGED <<requests, owned, dead, reqVars, open, pipe, loopVars, stack>>
    BY <1>11 DEF Retain
  <2>. HIDE DEF q, l
  <2>3. QueuesTyped'
    BY <1>1, <2>1, <2>2 DEF QueuesTyped
  <2>4. ActorsTyped'
    BY <1>2, <1>5, <2>1, <2>2, GotoType
  <2>5. PipeTyped'
    BY <1>1, <2>2 DEF PipeTyped
  <2>6. ReqsTyped' /\ LoopTyped'
    BY <1>1, <2>2, Frames
  <2>. QED
    BY <2>3, <2>4, <2>5, <2>6, TypeParts1
<1>12. ASSUME Drop(a)
       PROVE  TypeOK'
  <2>1. call[a].q \in Queues
    BY <1>3, <1>12 DEF Drop
  <2>2. Release(a, call[a].q, 1) /\ Goto(a, "idle")
        /\ UNCHANGED <<requests, sync, owned, reqVars, pipeVars, loopVars>>
    BY <1>12 DEF Drop
  <2>3. ref' \in [Queues -> Int] /\ dead' \subseteq Queues /\ stack' \in StackType
    BY <1>1, <1>2, <2>1, <2>2, ReleaseType DEF QueuesTyped
  <2>4. QueuesTyped'
    BY <1>1, <2>2, <2>3 DEF QueuesTyped
  <2>5. ActorsTyped'
    BY <1>2, <1>5, <2>2, <2>3, GotoType
  <2>6. ReqsTyped' /\ PipeTyped' /\ LoopTyped'
    BY <1>1, <2>2, Frames
  <2>. QED
    BY <2>4, <2>5, <2>6, TypeParts1
<1>13. ASSUME Join(a)
       PROVE  TypeOK'
  <2>1. Goto(a, "idle") /\ UNCHANGED <<queueVars, reqVars, pipeVars, loopVars, stack>>
    BY <1>13 DEF Join
  <2>2. ActorsTyped'
    BY <1>2, <1>5, <2>1, GotoType
  <2>. QED
    BY <1>1, <2>1, <2>2, Frames, TypeParts1
<1>. QED
  BY <1>6, <1>7, <1>8, <1>9, <1>10, <1>11, <1>12, <1>13 DEF InCall

LEMMA RunsTypes ==
    ASSUME IInv, NEW a \in Actors, Runs(a)
    PROVE  TypeOK'
<1>1. TypeOK /\ QueuesTyped /\ ReqsTyped /\ PipeTyped /\ LoopTyped /\ ActorsTyped
  BY TypeParts DEF IInv
<1>2. pc \in PcType /\ call \in [Actors -> Calls] /\ stack \in StackType /\ requests \in Waiting
  BY <1>1 DEF ActorsTyped, StackType, QueuesTyped
<1>3. ASSUME pc' = pc, call' = call, stack' \in StackType
      PROVE  ActorsTyped'
  BY <1>1, <1>3 DEF ActorsTyped, StackType
<1>4. ASSUME HandlerReturns(a)
      PROVE  TypeOK'
  <2>1. stack' \in StackType
    BY <1>2, <1>4, PopType DEF HandlerReturns
  <2>. QED
    BY <1>1, <1>3, <1>4, <2>1, Frames, TypeParts1 DEF HandlerReturns
<1>5. ASSUME DestroyNext(a)
      PROVE  TypeOK'
  <2>1. PICK q, d : /\ q = Last(stack[a]) /\ d \in Dirs
                    /\ IF requests[q][d] # <<>>
                       THEN /\ End(Head(requests[q][d]), "cancelled")
                            /\ requests' = [requests EXCEPT ![q][d] = Tail(@)]
                            /\ Push(a, "handler")
                       ELSE /\ stack' = [stack EXCEPT ![a] = Front(@)]
                            /\ UNCHANGED <<requests, done>>
    BY <1>5 DEF DestroyNext, Dirs
  <2>2. stack[a] # <<>> /\ q # "handler"
        /\ UNCHANGED <<sync, ref, owned, dead, made, request, cancels, pipeVars, loopVars, pc, call>>
    BY <1>5, <2>1 DEF DestroyNext, Destroying
  <2>3. q \in Queues
    <3>1. stack[a] \in Seq(Queues \cup {"handler"})
      BY <1>2 DEF StackType
    <3>2. Last(stack[a]) \in Queues \cup {"handler"}
      BY <3>1, <2>2, FrontFacts
    <3>. QED
      BY <3>2, <2>1, <2>2
  <2>4. CASE requests[q][d] # <<>>
    <3>1. Head(requests[q][d]) \in Requests /\ requests' \in Waiting
      BY <1>2, <2>1, <2>3, <2>4, HeadType
    <3>2. "cancelled" \in Statuses
      BY DEF Statuses
    <3>3. done' \in [Requests -> Statuses \cup {"no"}]
      BY <1>1, <2>1, <2>4, <3>1, <3>2, EndType DEF ReqsTyped
    <3>4. QueuesTyped' /\ ReqsTyped'
      BY <1>1, <2>2, <3>1, <3>3 DEF QueuesTyped, ReqsTyped
    <3>5. ActorsTyped'
      BY <1>2, <1>3, <2>1, <2>2, <2>4, PushType
    <3>. QED
      BY <1>1, <2>2, <3>4, <3>5, Frames, TypeParts1
  <2>5. CASE requests[q][d] = <<>>
    <3>1. stack' \in StackType
      BY <1>2, <2>1, <2>2, <2>5, PopType
    <3>2. ActorsTyped' /\ UNCHANGED queueVars /\ UNCHANGED reqVars
      BY <1>3, <2>1, <2>2, <2>5, <3>1 DEF queueVars, reqVars
    <3>. QED
      BY <1>1, <2>2, <3>2, Frames, TypeParts1
  <2>. QED
    BY <2>4, <2>5
<1>. QED
  BY <1>4, <1>5 DEF Runs

LEMMA LoopTypes ==
    ASSUME IInv, Loop \/ \E q \in Queues, d \in Dirs : PollEvent(q, d)
    PROVE  TypeOK'
<1>1. TypeOK /\ QueuesTyped /\ ReqsTyped /\ PipeTyped /\ LoopTyped /\ ActorsTyped
  BY TypeParts DEF IInv
<1>2. /\ pc \in PcType /\ call \in [Actors -> Calls] /\ stack \in StackType
      /\ requests \in Waiting /\ Dispatcher \in Actors /\ NoItem \in ItemSet
  BY <1>1, Distinctness DEF ActorsTyped, StackType, QueuesTyped, ItemSet
<1>3. ASSUME pc' = pc, call' = call, stack' \in StackType
      PROVE  ActorsTyped'
  BY <1>1, <1>3 DEF ActorsTyped, StackType
<1>4. ASSUME NEW q \in Queues, NEW d \in Dirs, PollEvent(q, d)
      PROVE  TypeOK'
  <2>1. item' \in ItemSet
    BY <1>4 DEF PollEvent, ItemSet
  <2>2. LoopTyped'
    BY <1>1, <1>4, <2>1 DEF LoopTyped, PollEvent, Places
  <2>. QED
    BY <1>1, <1>4, <2>2, Frames, TypeParts1 DEF PollEvent
<1>5. ASSUME PollCommand
      PROVE  TypeOK'
  <2>2. LoopTyped'
    BY <1>1, <1>5 DEF LoopTyped, PollCommand, Places
  <2>. QED
    BY <1>1, <1>5, <2>2, Frames, TypeParts1 DEF PollCommand
<1>6. ASSUME NEW d \in Dirs, NothingDone(d)
      PROVE  TypeOK'
  <2>2. LoopTyped'
    BY <1>1, <1>6 DEF LoopTyped, NothingDone, Places
  <2>. QED
    BY <1>1, <1>6, <2>2, Frames, TypeParts1 DEF NothingDone
<1>7. ASSUME NEW d \in Dirs, Finish(d)
      PROVE  TypeOK'
  <2>1. item.q \in Queues
    BY <1>7, NamedQueues DEF Finish, Ready, InLoop
  <2>2. /\ requests[item.q][d] # <<>> /\ End(Head(requests[item.q][d]), "finished")
        /\ requests' = [requests EXCEPT ![item.q][d] = Tail(@)]
        /\ Push(Dispatcher, "handler") /\ at' = "peekRead"
        /\ UNCHANGED <<sync, ref, owned, dead, made, request, cancels, pipeVars,
                       clients, attr, item, seen, pc, call>>
    BY <1>7 DEF Finish, HeadOf, Pop
  <2>3. Head(requests[item.q][d]) \in Requests /\ requests' \in Waiting
    BY <1>2, <2>1, <2>2, HeadType
  <2>4. done' \in [Requests -> Statuses \cup {"no"}]
    BY <1>1, <2>2, <2>3, EndType DEF ReqsTyped, Statuses
  <2>5. QueuesTyped' /\ ReqsTyped'
    BY <1>1, <2>2, <2>3, <2>4 DEF QueuesTyped, ReqsTyped
  <2>6. LoopTyped'
    BY <1>1, <2>2 DEF LoopTyped, Places
  <2>7. ActorsTyped'
    BY <1>2, <1>3, <2>2, PushType
  <2>. QED
    BY <1>1, <2>2, <2>5, <2>6, <2>7, Frames, TypeParts1
<1>8. ASSUME NEW d \in Dirs, Accept(d)
      PROVE  TypeOK'
  <2>. DEFINE r == HeadOf(d)
  <2>1. item.q \in Queues
    BY <1>8, NamedQueues DEF Accept, Ready, InLoop
  <2>2. /\ requests[item.q][d] # <<>>
        /\ \/ \E c \in Channels : Unborn(c) /\ Adopt(c)
           \/ UNCHANGED <<ref, owned>>
        /\ Push(Dispatcher, "handler")
        /\ request' = [request EXCEPT ![r].left = IF @ > 0 THEN @ - 1 ELSE @]
        /\ \/ Pop(d) /\ End(r, "finished") /\ at' = "peekRead"
           \/ UNCHANGED <<requests, done>> /\ at' = "round"
        /\ UNCHANGED <<sync, dead, made, cancels, pipeVars, clients, attr, item,
                       seen, pc, call>>
    BY <1>8 DEF Accept
  <2>3. r \in Requests /\ [requests EXCEPT ![item.q][d] = Tail(@)] \in Waiting
    BY <1>2, <2>1, <2>2, HeadType DEF HeadOf
  <2>. HIDE DEF r
  <2>4. request' \in [Requests -> RequestSet]
    <3>. DEFINE x == request[r].left
                y == IF x > 0 THEN x - 1 ELSE x
                new == [request[r] EXCEPT !.left = y]
    <3>1. request \in [Requests -> RequestSet] /\ request[r] \in RequestSet
      BY <1>1, <2>3 DEF ReqsTyped
    <3>2. x \in Int
      BY <3>1, RequestFacts
    <3>3. new \in RequestSet
      <4>1. CASE request[r] = NoRequest
        <5>1. new = NoRequest
          BY <4>1 DEF NoRequest
        <5>. QED
          BY <5>1 DEF RequestSet
      <4>2. CASE request[r] \in [q : Queues, kind : Kinds, left : Int]
        <5>1. y \in Int
          BY <3>2
        <5>. HIDE DEF y
        <5>. QED
          BY <4>2, <5>1 DEF RequestSet
      <4>. QED
        BY <3>1, <4>1, <4>2 DEF RequestSet
    <3>4. request' = [request EXCEPT ![r] = new]
      BY <2>2
    <3>. HIDE DEF new
    <3>. QED
      BY <3>1, <3>3, <3>4
  <2>5. requests' \in Waiting
    BY <1>2, <2>2, <2>3 DEF Pop
  <2>6. "finished" \in Statuses
    BY DEF Statuses
  <2>7. done' \in [Requests -> Statuses \cup {"no"}]
    BY <1>1, <2>2, <2>3, <2>6, EndType DEF ReqsTyped
  <2>8. ref' \in [Queues -> Int] /\ owned' \subseteq Queues
    BY <1>1, <2>2, AdoptType, Distinctness DEF QueuesTyped
  <2>9. QueuesTyped'
    BY <1>1, <2>2, <2>5, <2>8 DEF QueuesTyped
  <2>10. ReqsTyped'
    BY <1>1, <2>2, <2>4, <2>7 DEF ReqsTyped
  <2>11. LoopTyped'
    BY <1>1, <2>2 DEF LoopTyped, Places
  <2>12. ActorsTyped'
    BY <1>2, <1>3, <2>2, PushType
  <2>. QED
    BY <1>1, <2>2, <2>9, <2>10, <2>11, <2>12, Frames, TypeParts1
<1>9. ASSUME NEW l, NEW next \in {"peekWrite", "renewWrite"}, PeekRead(l, next)
      PROVE  TypeOK'
  <2>2. LoopTyped'
    BY <1>1, <1>9 DEF LoopTyped, PeekRead, Places
  <2>. QED
    BY <1>1, <1>9, <2>2, Frames, TypeParts1 DEF PeekRead
<1>10. Peeked \subseteq Dirs
  BY DEF Peeked, Dirs
<1>11. ASSUME Revise
       PROVE  TypeOK'
  <2>2. LoopTyped'
    BY <1>1, <1>10, <1>11 DEF LoopTyped, Revise, Places
  <2>. QED
    BY <1>1, <1>11, <2>2, Frames, TypeParts1 DEF Revise
<1>12. ASSUME ThenWrite
       PROVE  TypeOK'
  <2>1. item' \in ItemSet
    <3>1. item.q \in Queues
      BY <1>12, NamedQueues DEF ThenWrite, InLoop
    <3>2. item \in [q : Queues, what : Dirs \cup {"command"}]
      BY <1>1, <3>1, ItemFacts DEF LoopTyped, ItemSet
    <3>. QED
      BY <1>12, <3>2 DEF ThenWrite, ItemSet, Dirs
  <2>2. LoopTyped'
    BY <1>1, <1>12, <2>1 DEF LoopTyped, ThenWrite, Places
  <2>. QED
    BY <1>1, <1>12, <2>2, Frames, TypeParts1 DEF ThenWrite
<1>13. ASSUME NEW q \in Queues, NEW n \in Nat, Release(Dispatcher, q, n),
              UNCHANGED <<requests, sync, owned, reqVars, pipeVars, pc, call>>
       PROVE  QueuesTyped' /\ ReqsTyped' /\ PipeTyped' /\ ActorsTyped'
  <2>1. ref' \in [Queues -> Int] /\ dead' \subseteq Queues /\ stack' \in StackType
    BY <1>1, <1>2, <1>13, ReleaseType DEF QueuesTyped
  <2>2. QueuesTyped'
    BY <1>1, <1>13, <2>1 DEF QueuesTyped
  <2>3. ActorsTyped'
    BY <1>3, <1>13, <2>1
  <2>. QED
    BY <1>1, <1>13, <2>2, <2>3, Frames
<1>14. ASSUME UNCHANGED <<ref, dead, stack>>,
              UNCHANGED <<requests, sync, owned, reqVars, pipeVars, pc, call>>
       PROVE  QueuesTyped' /\ ReqsTyped' /\ PipeTyped' /\ ActorsTyped'
  <2>1. UNCHANGED <<queueVars, reqVars, pipeVars, actorVars>>
    BY <1>14 DEF queueVars, actorVars
  <2>. QED
    BY <1>1, <2>1, Frames
<1>15. ASSUME RemoveMarked
       PROVE  TypeOK'
  <2>1. item.q \in Queues /\ 1 \in Nat
    BY <1>15, NamedQueues DEF RemoveMarked, InLoop
  <2>2. /\ UNCHANGED <<requests, sync, owned, reqVars, pipeVars, attr, seen, pc, call>>
        /\ item' = NoItem /\ at' = "command"
        /\ \/ clients' = clients \ {item.q} /\ Release(Dispatcher, item.q, 1)
           \/ UNCHANGED <<clients, ref, dead, stack>>
    BY <1>15 DEF RemoveMarked
  <2>3. LoopTyped'
    BY <1>1, <1>2, <2>2 DEF LoopTyped, Places
  <2>. QED
    BY <1>13, <1>14, <2>1, <2>2, <2>3, TypeParts1
<1>16. ASSUME ReadCommand
       PROVE  TypeOK'
  <2>1. pipe # <<>> /\ pipe \in Seq(Commands)
    BY <1>1, <1>16 DEF ReadCommand, PipeTyped
  <2>2. Head(pipe) \in Commands /\ Tail(pipe) \in Seq(Commands)
    BY <2>1, TailFacts
  <2>3. item' \in ItemSet
    BY <1>16, <2>2 DEF ReadCommand, ItemSet, Commands
  <2>4. Head(pipe).cmd \in {Renew, Cancel, Leave}
    BY <2>2 DEF Commands
  <2>5. at' \in {"renewRead", "cancel", "leave"}
    BY <1>16, <2>4 DEF ReadCommand
  <2>6. LoopTyped'
    BY <1>1, <1>16, <2>3, <2>5 DEF LoopTyped, ReadCommand, Places
  <2>7. PipeTyped'
    BY <1>1, <1>16, <2>2 DEF PipeTyped, ReadCommand
  <2>. QED
    BY <1>1, <1>16, <2>6, <2>7, Frames, TypeParts1 DEF ReadCommand
<1>17. ASSUME NoCommand
       PROVE  TypeOK'
  <2>2. LoopTyped'
    BY <1>1, <1>17 DEF LoopTyped, NoCommand, Places
  <2>. QED
    BY <1>1, <1>17, <2>2, Frames, TypeParts1 DEF NoCommand
<1>18. ASSUME Renewed
       PROVE  TypeOK'
  <2>1. item.q \in Queues /\ 1 \in Nat
    BY <1>18, NamedQueues DEF Renewed, InLoop
  <2>2. /\ UNCHANGED <<requests, sync, owned, reqVars, pipeVars, pc, call>> /\ seen' = FALSE
        /\ \/ /\ attr' = [attr EXCEPT ![item.q] = Peeked] /\ clients' = clients \cup {item.q}
              /\ item' = NoItem /\ at' = "poll"
           \/ at' = "leave" /\ UNCHANGED <<clients, attr, item>>
        /\ \/ Release(Dispatcher, item.q, 1)
           \/ UNCHANGED <<ref, dead, stack>>
    BY <1>18 DEF Renewed
  <2>3. LoopTyped'
    BY <1>1, <1>2, <1>10, <2>1, <2>2 DEF LoopTyped, Places
  <2>. QED
    BY <1>13, <1>14, <2>1, <2>2, <2>3, TypeParts1
<1>19. ASSUME CancelNext
       PROVE  TypeOK'
  <2>1. item.q \in Queues
    BY <1>19, NamedQueues DEF CancelNext, InLoop
  <2>2. PICK d \in Dirs :
           IF requests[item.q][d] # <<>>
           THEN /\ End(Head(requests[item.q][d]), "cancelled")
                /\ requests' = [requests EXCEPT ![item.q][d] = Tail(@)]
                /\ Push(Dispatcher, "handler")
                /\ UNCHANGED at
           ELSE /\ at' = "leave"
                /\ UNCHANGED <<requests, done, stack>>
    BY <1>19 DEF CancelNext, HeadOf, Pop, Dirs
  <2>3. UNCHANGED <<sync, ref, owned, dead, made, request, cancels, pipeVars,
                    clients, attr, item, seen, pc, call>>
    BY <1>19 DEF CancelNext
  <2>4. at' \in Places
    BY <1>1, <2>2 DEF LoopTyped, Places
  <2>5. LoopTyped'
    BY <1>1, <2>3, <2>4 DEF LoopTyped
  <2>6. CASE requests[item.q][d] # <<>>
    <3>1. Head(requests[item.q][d]) \in Requests /\ requests' \in Waiting
      BY <1>2, <2>1, <2>2, <2>6, HeadType
    <3>2. "cancelled" \in Statuses
      BY DEF Statuses
    <3>3. done' \in [Requests -> Statuses \cup {"no"}]
      BY <1>1, <2>2, <2>6, <3>1, <3>2, EndType DEF ReqsTyped
    <3>4. QueuesTyped' /\ ReqsTyped'
      BY <1>1, <2>3, <3>1, <3>3 DEF QueuesTyped, ReqsTyped
    <3>5. ActorsTyped'
      BY <1>2, <1>3, <2>2, <2>3, <2>6, PushType
    <3>. QED
      BY <1>1, <2>3, <2>5, <3>4, <3>5, Frames, TypeParts1
  <2>7. CASE requests[item.q][d] = <<>>
    <3>1. UNCHANGED <<queueVars, reqVars, actorVars>>
      BY <2>2, <2>3, <2>7 DEF queueVars, reqVars, actorVars
    <3>. QED
      BY <1>1, <2>3, <2>5, <3>1, Frames, TypeParts1
  <2>. QED
    BY <2>6, <2>7
<1>20. ASSUME Forget
       PROVE  TypeOK'
  <2>. DEFINE n == IF item.q \in clients THEN 2 ELSE 1
  <2>1. item.q \in Queues /\ n \in Nat
    BY <1>20, NamedQueues DEF Forget, InLoop
  <2>2. /\ clients' = clients \ {item.q} /\ attr' = [attr EXCEPT ![item.q] = {}]
        /\ Release(Dispatcher, item.q, n) /\ item' = NoItem /\ at' = "poll"
        /\ UNCHANGED <<requests, sync, owned, reqVars, pipeVars, seen, pc, call>>
    BY <1>20 DEF Forget
  <2>. HIDE DEF n
  <2>3. LoopTyped'
    BY <1>1, <1>2, <2>2 DEF LoopTyped, Places
  <2>. QED
    BY <1>13, <2>1, <2>2, <2>3, TypeParts1
<1>21. ASSUME Exit
       PROVE  TypeOK'
  <2>1. clients \subseteq Queues /\ 1 \in Nat
    BY <1>1 DEF LoopTyped
  <2>2. /\ UNCHANGED <<requests, sync, owned, reqVars, pipeVars, attr, item, seen, pc, call>>
        /\ \/ at' = "ended" /\ UNCHANGED <<clients, ref, dead, stack>>
           \/ (\E q \in clients : clients' = clients \ {q} /\ Release(Dispatcher, q, 1)) /\ at' = at
    BY <1>21 DEF Exit
  <2>3. LoopTyped'
    BY <1>1, <2>2 DEF LoopTyped, Places
  <2>. QED
    BY <1>13, <1>14, <2>1, <2>2, <2>3, TypeParts1
<1>. QED
  BY <1>4, <1>5, <1>6, <1>7, <1>8, <1>9, <1>11, <1>12, <1>15, <1>16, <1>17, <1>18, <1>19,
     <1>20, <1>21 DEF Loop

(* No step leaves the types.                                               *)
LEMMA TypeStep ==
    ASSUME IInv, Next
    PROVE  TypeOK'
  BY ProgramTypes, InCallTypes, RunsTypes, LoopTypes DEF Next

----------------------------------------------------------------------------
(* References.                                                             *)

\* Nobody holds a queue that has no reference.
LEMMA HoldersArith ==
    ASSUME NEW o \in {0, 1}, NEW l \in {0, 1}, NEW n \in Nat, NEW e \in {0, 1},
           NEW c \in {0, 1}, NEW w \in {0, 1},
           w = 1 => (o = 1 \/ l = 1) /\ (n > 0 \/ e = 1)
    PROVE  /\ o + l + n + e + c - w \in Nat
           /\ o + l + n + e + c - w = 0 => o = 0 /\ l = 0 /\ n = 0 /\ e = 0 /\ c = 0 /\ w = 0
  OBVIOUS

\* Who owes the reference of a command holds its queue, and so does the command.
LEMMA OwingHeld ==
    ASSUME TypeOK, CallsSound, CommandOwed, NEW q \in Queues, Owing(q)
    PROVE  (q \in owned \/ Leaving(q)) /\ (InPipe(q) > 0 \/ Executing(q))
<1>1. PICK a \in Actors : pc[a] = "retain" /\ call[a].q = q
  BY DEF Owing
<1>2. call[a] # NoCall /\ call[a].cmd \in {Renew, Leave, Cancel}
  BY <1>1, StateFacts
<1>3. q \in owned \/ Leaving(q)
  BY <1>1, <1>2 DEF CallsSound, Leaving
<1>4. CASE pipe # <<>> /\ Last(pipe) = [cmd |-> call[a].cmd, q |-> call[a].q]
  <2>1. pipe \in Seq(Commands) /\ Len(pipe) \in Nat /\ Len(pipe) > 0
    BY <1>4, StateFacts
  <2>2. pipe[Len(pipe)].q = q
    BY <1>1, <1>4 DEF Last
  <2>3. InPipe(q) \in Nat /\ InPipe(q) # 0
    BY <2>1, <2>2, CommandsType DEF InPipe
  <2>. QED
    BY <1>3, <2>3
<1>5. CASE at \in ExecutedAt(call[a].cmd) /\ item.q = call[a].q
  BY <1>1, <1>2, <1>3, <1>5 DEF Executing, Working, ExecutedAt
<1>. QED
  BY <1>1, <1>4, <1>5 DEF CommandOwed

HoldersKnown == \A q \in Queues :
    TypeOK /\ CallsSound /\ CommandOwed =>
        /\ Holders(q) \in Nat /\ InPipe(q) \in Nat
        /\ Holders(q) = 0 => /\ q \notin owned \cup clients /\ ~Leaving(q) /\ InPipe(q) = 0
                             /\ ~Executing(q) /\ ~Owing(q)
LEMMA HoldersFacts == HoldersKnown
<1>. SUFFICES ASSUME NEW q \in Queues, TypeOK, CallsSound, CommandOwed
              PROVE  /\ Holders(q) \in Nat /\ InPipe(q) \in Nat
                     /\ Holders(q) = 0 => /\ q \notin owned \cup clients /\ ~Leaving(q)
                                          /\ InPipe(q) = 0 /\ ~Executing(q) /\ ~Owing(q)
  BY DEF HoldersKnown
<1>. DEFINE o == Count(q \in owned)
            l == Count(Leaving(q))
            n == InPipe(q)
            e == Count(Executing(q))
            c == Count(q \in clients)
            w == Count(Owing(q))
<1>0. o \in {0, 1} /\ l \in {0, 1} /\ e \in {0, 1} /\ c \in {0, 1} /\ w \in {0, 1}
  BY DEF Count
<1>1. /\ o = 1 <=> q \in owned
      /\ l = 1 <=> Leaving(q)
      /\ e = 1 <=> Executing(q)
      /\ c = 1 <=> q \in clients
      /\ w = 1 <=> Owing(q)
  BY DEF Count
<1>2. n \in Nat
  BY StateFacts, CommandsType DEF InPipe
<1>3. Owing(q) => (q \in owned \/ Leaving(q)) /\ (n > 0 \/ Executing(q))
  BY OwingHeld
<1>4. Holders(q) = o + l + n + e + c - w
  BY DEF Holders
<1>. HIDE DEF o, l, n, e, c, w
<1>5. /\ o + l + n + e + c - w \in Nat
      /\ o + l + n + e + c - w = 0 => o = 0 /\ l = 0 /\ n = 0 /\ e = 0 /\ c = 0 /\ w = 0
  <2>1. w = 1 => (o = 1 \/ l = 1) /\ (n > 0 \/ e = 1)
    BY <1>1, <1>3, Zenon
  <2>. QED
    BY <1>0, <1>2, <2>1, HoldersArith
<1>6. Holders(q) \in Nat /\ n \in Nat
  BY <1>2, <1>4, <1>5
<1>7. Holders(q) = 0 => /\ q \notin owned /\ q \notin clients /\ ~Leaving(q) /\ n = 0
                        /\ ~Executing(q) /\ ~Owing(q)
  <2>1. Holders(q) = 0 => o # 1 /\ l # 1 /\ n = 0 /\ e # 1 /\ c # 1 /\ w # 1
    BY <1>0, <1>2, <1>4, <1>5
  <2>. QED
    BY <1>1, <2>1, Zenon
<1>. QED
  BY <1>6, <1>7 DEF n

LEMMA HoldersFacts1 == HoldersKnown'
  BY HoldersFacts, PTL

(* A queue not made yet is known to nobody, and one that is known has       *)
(* references and is not destroyed.                                        *)
LEMMA UnbornUnused ==
    ASSUME IInv, NEW q \in Queues, Unborn(q)
    PROVE  /\ q \notin owned \cup clients /\ ~Leaving(q) /\ InPipe(q) = 0
           /\ ~Executing(q) /\ ~Owing(q)
           /\ \A a \in Actors : call[a].q # q
<1>1. TypeOK /\ CallsSound /\ CommandOwed /\ ReferencesCounted
  BY DEF IInv
<1>2. Holders(q) = 0
  BY <1>1 DEF ReferencesCounted, Unborn
<1>3. /\ q \notin owned \cup clients /\ ~Leaving(q) /\ InPipe(q) = 0
      /\ ~Executing(q) /\ ~Owing(q)
  BY <1>1, <1>2, HoldersFacts DEF HoldersKnown
<1>4. ASSUME NEW a \in Actors, call[a].q = q
      PROVE  FALSE
  <2>1. call[a] # NoCall /\ call[a].cmd \in {Renew, Leave, Cancel}
    BY <1>1, <1>4, StateFacts
  <2>2. call[a].cmd = Leave
    BY <1>1, <1>3, <1>4, <2>1 DEF CallsSound
  <2>. QED
    BY <1>3, <1>4, <2>2 DEF Leaving
<1>. QED
  BY <1>3, <1>4

LEMMA KnownAlive ==
    ASSUME IInv, NEW q \in Queues,
           q \in owned \cup clients \/ InPipe(q) > 0 \/ Executing(q) \/ \E a \in Actors : call[a].q = q
    PROVE  q \notin dead /\ ~Unborn(q)
<1>1. q \notin dead
  <2>1. NotDestroyedInUse
    BY DEF IInv
  <2>. QED
    BY <2>1 DEF NotDestroyedInUse
<1>2. ASSUME Unborn(q)
      PROVE  FALSE
  BY <1>2, UnbornUnused
<1>. QED
  BY <1>1, <1>2

----------------------------------------------------------------------------
(* What the steps of the dispatcher and the ends of handlers leave alone.  *)

Dispatching == Loop \/ \E q \in Queues, d \in Dirs : PollEvent(q, d)

LEMMA DispatchingLeaves ==
    ASSUME Dispatching
    PROVE  /\ UNCHANGED <<sync, made, cancels, control, open, pc, call>>
           /\ pc[Dispatcher] = "idle" /\ stack[Dispatcher] = <<>>
           /\ owned' = owned \/ \E c \in Channels : Unborn(c) /\ owned' = owned \cup {c}
  BY DEF Dispatching, Loop, PollEvent, PollCommand, NothingDone, Finish, Accept, PeekRead,
         Revise, ThenWrite, RemoveMarked, ReadCommand, NoCommand, Renewed, CancelNext, Forget,
         Exit, Adopt, Ready, InLoop, reqVars, pipeVars, actorVars, queueVars

LEMMA RunsLeaves ==
    ASSUME NEW a \in Actors, Runs(a)
    PROVE  UNCHANGED <<sync, ref, owned, dead, made, request, cancels, pipeVars, loopVars, pc, call>>
  BY DEF Runs, HandlerReturns, DestroyNext, queueVars, reqVars

\* A request keeps its queue and its kind.
LEMMA RequestsKeep ==
    ASSUME IInv, Next
    PROVE  \A r \in Requests : r <= made =>
              request'[r].q = request[r].q /\ request'[r].kind = request[r].kind
<1>1. TypeOK /\ request \in [Requests -> RequestSet] /\ made \in Nat
  BY TypeParts, Distinctness DEF IInv, ReqsTyped
<1>2. ASSUME NEW a \in Actors, NEW q \in Queues, NEW k, NEW n, Enter(a, q, k, n)
      PROVE  \A r \in Requests : r <= made => request'[r] = request[r]
  BY <1>1, <1>2 DEF Enter, Requests
<1>3. ASSUME NEW d \in Dirs, Accept(d)
      PROVE  \A r \in Requests :
              request'[r].q = request[r].q /\ request'[r].kind = request[r].kind
  <2>. DEFINE x == HeadOf(d)
  <2>1. request' = [request EXCEPT ![x].left = IF @ > 0 THEN @ - 1 ELSE @]
    BY <1>3 DEF Accept
  <2>. HIDE DEF x
  <2>. DEFINE Fewer(t) == [t EXCEPT !.left = IF @ > 0 THEN @ - 1 ELSE @]
  <2>2. \A t \in RequestSet : Fewer(t).q = t.q /\ Fewer(t).kind = t.kind
    BY DEF RequestSet, NoRequest
  <2>3. \A r \in Requests : request'[r] = request[r] \/ request'[r] = Fewer(request[r])
    BY <1>1, <2>1
  <2>. HIDE DEF Fewer
  <2>. SUFFICES ASSUME NEW r \in Requests
                PROVE  request'[r].q = request[r].q /\ request'[r].kind = request[r].kind
    OBVIOUS
  <2>4. request[r] \in RequestSet
    BY <1>1
  <2>. QED
    BY <2>2, <2>3, <2>4
<1>4. ASSUME NEW a \in Actors, Program(a)
      PROVE  request' = request
             \/ \E q \in Queues, k \in Kinds, n \in Limits \cup {0} : Enter(a, q, k, n)
  <2>1. "connect" \in Kinds
    BY DEF Kinds
  <2>. QED
    BY <1>4, <2>1 DEF Program, BindA, ConnectA, Close, Destroy, Request, StopDispatch, reqVars
<1>5. ASSUME NEW a \in Actors, InCall(a) \/ Runs(a)
      PROVE  request' = request
  BY <1>5 DEF InCall, Runs, Enqueue, ConnectAtOnce, Acquire, Refuse, Write, Retain, Drop, Join,
              HandlerReturns, DestroyNext, reqVars
<1>6. ASSUME Dispatching
      PROVE  request' = request \/ \E d \in Dirs : Accept(d)
  BY <1>6 DEF Dispatching, Loop, PollEvent, PollCommand, NothingDone, Finish, PeekRead,
         Revise, ThenWrite, RemoveMarked, ReadCommand, NoCommand, Renewed, CancelNext, Forget,
         Exit, reqVars
<1>. QED
  BY <1>2, <1>3, <1>4, <1>5, <1>6 DEF Next, Dispatching

\* What an actor inside a call does to itself.
LEMMA InCallMoves ==
    ASSUME IInv, NEW a \in Actors, InCall(a)
    PROVE  \E l \in {"idle", "acquire", "write", "retain", "drop"} :
             /\ Goto(a, l) /\ pc[a] # "idle"
             /\ l = "acquire" => pc[a] = "lock" /\ call[a].cmd = Renew
             /\ l = "write" => pc[a] = "acquire"
             /\ l = "retain" => pc[a] = "write"
             /\ l = "drop" => call[a].cmd = Leave /\ pc[a] \in {"acquire", "retain"}
             /\ pc[a] = "join" => l = "idle"
             /\ UNCHANGED <<owned, made, request, cancels, loopVars>>
<1>. DEFINE Moves(l) == /\ Goto(a, l) /\ pc[a] # "idle"
                        /\ l = "acquire" => pc[a] = "lock" /\ call[a].cmd = Renew
                        /\ l = "write" => pc[a] = "acquire"
                        /\ l = "retain" => pc[a] = "write"
                        /\ l = "drop" => call[a].cmd = Leave /\ pc[a] \in {"acquire", "retain"}
                        /\ pc[a] = "join" => l = "idle"
                        /\ UNCHANGED <<owned, made, request, cancels, loopVars>>
<1>0. pc[a] = "lock" => call[a].cmd = Renew
  BY DEF IInv, CallsSound
<1>1. Enqueue(a) => Moves("acquire")
  BY <1>0 DEF Enqueue, reqVars
<1>2. ConnectAtOnce(a) => Moves("idle")
  BY DEF ConnectAtOnce, queueVars
<1>3. Acquire(a) => Moves("write")
  BY DEF Acquire, queueVars, reqVars
<1>4. Refuse(a) => Moves("drop") \/ Moves("idle")
  BY DEF Refuse
<1>5. Write(a) => Moves("retain")
  BY DEF Write, queueVars, reqVars
<1>6. Retain(a) => Moves("drop") \/ Moves("idle")
  BY DEF Retain, reqVars
<1>7. Drop(a) => Moves("idle")
  BY DEF Drop, reqVars
<1>8. Join(a) => Moves("idle")
  BY DEF Join, queueVars, reqVars
<1>. HIDE DEF Moves
<1>9. \E l \in {"idle", "acquire", "write", "retain", "drop"} : Moves(l)
  BY <1>1, <1>2, <1>3, <1>4, <1>5, <1>6, <1>7, <1>8 DEF InCall
<1>. QED
  BY <1>9 DEF Moves

----------------------------------------------------------------------------
(* Calls.                                                                  *)

CallSound(b) ==
    /\ pc[b] \in {"idle", "join"} <=> call[b] = NoCall
    /\ pc[b] = "lock" => call[b].cmd = Renew
    /\ pc[b] = "drop" => call[b].cmd = Leave
    /\ call[b] # NoCall =>
         /\ call[b].cmd = Renew =>
              /\ call[b].q \in owned
              /\ call[b].r \in 1 .. made /\ request[call[b].r].q = call[b].q
         /\ call[b].cmd = Cancel =>
              call[b].q \in owned \cap Listeners /\ cancels[call[b].q] > 0
         /\ call[b].cmd = Leave =>
              /\ call[b].q \notin owned
              /\ \A c \in Actors \ {b} : call[c].q # call[b].q

LEMMA CallsSoundParts == CallsSound <=> \A b \in Actors : CallSound(b)
  BY DEF CallsSound, CallSound
LEMMA CallsSoundParts1 == CallsSound' <=> \A b \in Actors : CallSound(b)'
  BY DEF CallsSound, CallSound

(* A call enters: its queue has its object.                                *)
LEMMA EnterCalls ==
    ASSUME IInv, Next, NEW a \in Actors, NEW q \in Queues, NEW k \in Kinds, NEW n \in Int,
           pc[a] = "idle", Enter(a, q, k, n), owned \subseteq owned', q \in owned',
           \A x \in owned' : x \notin owned => \A b \in Actors : call[b].q # x
    PROVE  CallsSound'
<1>1. TypeOK /\ CallsSound /\ pc \in PcType /\ call \in [Actors -> Calls] /\ made \in Nat
      /\ request \in [Requests -> RequestSet]
  BY TypeParts, Distinctness DEF IInv, ActorsTyped, ReqsTyped
<1>. DEFINE c == [cmd |-> Renew, q |-> q, r |-> made + 1]
            t == [q |-> q, kind |-> k, left |-> n]
<1>2. /\ pc' = [pc EXCEPT ![a] = "lock"] /\ call' = [call EXCEPT ![a] = c]
      /\ made' = made + 1 /\ made < MaxRequests /\ request' = [request EXCEPT ![made + 1] = t]
      /\ cancels' = cancels
  BY DEF Enter, GoCalling
<1>3. c.cmd = Renew /\ c.q = q /\ c.r = made + 1 /\ t.q = q /\ c # NoCall
  BY Distinctness DEF NoCall
<1>. HIDE DEF c, t
<1>4. made + 1 \in Requests /\ request'[made + 1].q = q
  BY <1>1, <1>2, <1>3, Distinctness
<1>5. ASSUME NEW b \in Actors
      PROVE  CallSound(b)'
  <2>1. CASE b = a
    <3>1. pc'[b] = "lock" /\ call'[b] = c
      BY <1>1, <1>2, <2>1 DEF PcType
    <3>. QED
      BY <1>1, <1>2, <1>3, <1>4, <3>1, Distinctness DEF CallSound
  <2>2. CASE b # a
    <3>1. pc'[b] = pc[b] /\ call'[b] = call[b]
      BY <1>1, <1>2, <2>2 DEF PcType
    <3>2. CallSound(b)
      BY <1>1, CallsSoundParts
    <3>3. call[b] = NoCall => CallSound(b)'
      BY <3>1, <3>2 DEF CallSound
    <3>4. ASSUME call[b] # NoCall, call[b].cmd = Renew
          PROVE  CallSound(b)'
      <4>1. call[b].r \in Requests /\ call[b].r <= made
        BY <1>1, <3>4, NamedQueues, StateFacts
      <4>2. request'[call[b].r] = request[call[b].r]
        BY <1>1, <1>2, <4>1
      <4>. QED
        BY <1>1, <1>2, <3>1, <3>2, <3>4, <4>1, <4>2, Distinctness DEF CallSound
    <3>5. ASSUME call[b] # NoCall, call[b].cmd = Cancel
          PROVE  CallSound(b)'
      BY <1>2, <3>1, <3>2, <3>5, Distinctness DEF CallSound
    <3>6. ASSUME call[b] # NoCall, call[b].cmd = Leave
          PROVE  CallSound(b)'
      <4>1. call[b].q \notin owned'
        BY <3>2, <3>6 DEF CallSound
      <4>2. \A x \in Actors \ {b} : call'[x].q # call'[b].q
        <5>1. \A x \in Actors \ {b, a} : call'[x] = call[x]
          BY <1>1, <1>2
        <5>2. call'[a].q = q
          BY <1>1, <1>2, <1>3
        <5>. QED
          BY <3>1, <3>2, <3>6, <4>1, <5>1, <5>2 DEF CallSound
      <4>. QED
        BY <1>2, <3>1, <3>2, <3>6, <4>1, <4>2, Distinctness DEF CallSound
    <3>. QED
      BY <1>1, <3>3, <3>4, <3>5, <3>6, StateFacts
  <2>. QED
    BY <2>1, <2>2
<1>. QED
  BY <1>5, CallsSoundParts1

LEMMA CallsStep ==
    ASSUME IInv, Next
    PROVE  CallsSound'
<1>1. TypeOK /\ CallsSound /\ pc \in PcType /\ call \in [Actors -> Calls] /\ made \in Nat
      /\ request \in [Requests -> RequestSet] /\ cancels \in [Listeners -> 0 .. MaxCancels]
  BY TypeParts, Distinctness DEF IInv, ActorsTyped, ReqsTyped
<1>2. ASSUME UNCHANGED <<pc, call, made, cancels>>, owned \subseteq owned',
             \A x \in owned' : x \notin owned => \A b \in Actors : call[b].q # x
      PROVE  CallsSound'
  <2>1. ASSUME NEW b \in Actors
        PROVE  CallSound(b)'
    <3>1. CallSound(b)
      BY <1>1, CallsSoundParts
    <3>2. call[b] # NoCall /\ call[b].cmd = Renew => request'[call[b].r].q = request[call[b].r].q
      BY <1>1, <3>1, RequestsKeep, Distinctness DEF CallSound, TypeOK
    <3>. QED
      BY <1>2, <3>1, <3>2 DEF CallSound
  <2>. QED
    BY <2>1, CallsSoundParts1
<1>3. ASSUME NEW c \in Queues, Unborn(c)
      PROVE  \A b \in Actors : call[b].q # c
  BY <1>3, UnbornUnused
<1>4. ASSUME NEW a \in Actors, NEW q \in Queues, BindA(a, q)
      PROVE  CallsSound'
  <2>1. owned' = owned \cup {q} /\ Unborn(q) /\ UNCHANGED <<pc, call, made, cancels>>
    BY <1>4 DEF BindA, Adopt, reqVars, actorVars
  <2>. QED
    BY <1>2, <1>3, <2>1
<1>5. ASSUME NEW a \in Actors, NEW q \in Queues, ConnectA(a, q)
      PROVE  CallsSound'
  <2>1. owned' = owned \cup {q} /\ Unborn(q) /\ Enter(a, q, "connect", 0) /\ pc[a] = "idle"
    BY <1>5 DEF ConnectA, Adopt, CanCall
  <2>2. "connect" \in Kinds /\ 0 \in Int
    BY DEF Kinds
  <2>. QED
    BY <1>3, <2>1, <2>2, EnterCalls
<1>6. ASSUME NEW a \in Actors, NEW q \in Queues, NEW k \in Kinds, NEW n \in Limits \cup {0},
             Request(a, q, k, n)
      PROVE  CallsSound'
  <2>1. owned' = owned /\ q \in owned /\ Enter(a, q, k, n) /\ pc[a] = "idle" /\ n \in Int
    BY <1>6, BoundsNatural DEF Request, CanCall
  <2>. QED
    BY <2>1, EnterCalls
<1>7. ASSUME NEW a \in Actors, NEW q \in Queues, Close(a, q)
      PROVE  CallsSound'
  <2>. DEFINE c == [cmd |-> Cancel, q |-> q, r |-> 0]
  <2>1. /\ pc' = [pc EXCEPT ![a] = "acquire"] /\ call' = [call EXCEPT ![a] = c]
        /\ cancels' = [cancels EXCEPT ![q] = @ + 1] /\ q \in owned /\ q \in Listeners
        /\ owned' = owned /\ made' = made /\ request' = request
    BY <1>7 DEF Close, GoCalling, queueVars
  <2>2. c.cmd = Cancel /\ c.q = q /\ c # NoCall
    BY Distinctness DEF NoCall
  <2>. HIDE DEF c
  <2>3. cancels'[q] > 0 /\ \A x \in Listeners : cancels[x] > 0 => cancels'[x] > 0
    BY <1>1, <2>1, Distinctness
  <2>4. ASSUME NEW b \in Actors
        PROVE  CallSound(b)'
    <3>1. CASE b = a
      <4>1. pc'[b] = "acquire" /\ call'[b] = c
        BY <1>1, <2>1, <3>1 DEF PcType
      <4>. QED
        BY <2>1, <2>2, <2>3, <4>1, Distinctness DEF CallSound
    <3>2. CASE b # a
      <4>1. pc'[b] = pc[b] /\ call'[b] = call[b]
        BY <1>1, <2>1, <3>2 DEF PcType
      <4>2. CallSound(b)
        BY <1>1, CallsSoundParts
      <4>3. call[b] # NoCall /\ call[b].cmd = Leave => \A x \in Actors \ {b} : call'[x].q # call'[b].q
        <5>1. \A x \in Actors \ {b, a} : call'[x] = call[x]
          BY <1>1, <2>1
        <5>2. call'[a].q = q
          BY <1>1, <2>1, <2>2
        <5>. QED
          BY <2>1, <4>1, <4>2, <5>1, <5>2 DEF CallSound
      <4>. QED
        BY <2>1, <2>3, <4>1, <4>2, <4>3, Distinctness DEF CallSound
    <3>. QED
      BY <3>1, <3>2
  <2>. QED
    BY <2>4, CallsSoundParts1
<1>8. ASSUME NEW a \in Actors, NEW q \in Queues, Destroy(a, q)
      PROVE  CallsSound'
  <2>. DEFINE c == [cmd |-> Leave, q |-> q, r |-> 0]
  <2>1. /\ pc' = [pc EXCEPT ![a] = "acquire"] /\ call' = [call EXCEPT ![a] = c]
        /\ cancels' = cancels /\ owned' = owned \ {q} /\ made' = made /\ request' = request
        /\ \A b \in Actors : call[b].q # q
    BY <1>8 DEF Destroy, GoCalling, reqVars
  <2>2. c.cmd = Leave /\ c.q = q /\ c # NoCall
    BY Distinctness DEF NoCall
  <2>. HIDE DEF c
  <2>3. \A x \in Actors \ {a} : call'[x] = call[x] /\ pc'[x] = pc[x]
    BY <1>1, <2>1 DEF PcType
  <2>4. call'[a] = c /\ pc'[a] = "acquire"
    BY <1>1, <2>1 DEF PcType
  <2>5. ASSUME NEW b \in Actors
        PROVE  CallSound(b)'
    <3>1. CASE b = a
      BY <2>1, <2>2, <2>3, <2>4, <3>1, Distinctness DEF CallSound
    <3>2. CASE b # a
      <4>1. CallSound(b)
        BY <1>1, CallsSoundParts
      <4>. QED
        BY <2>1, <2>2, <2>3, <2>4, <3>2, <4>1, Distinctness DEF CallSound
    <3>. QED
      BY <3>1, <3>2
  <2>. QED
    BY <2>5, CallsSoundParts1
<1>9. ASSUME NEW a \in Actors, StopDispatch(a)
      PROVE  CallsSound'
  <2>1. /\ pc' = [pc EXCEPT ![a] = "join"] /\ call' = call /\ pc[a] = "idle"
        /\ UNCHANGED <<owned, made, request, cancels>>
    BY <1>9 DEF StopDispatch, Goto, CanCall, queueVars, reqVars
  <2>2. \A x \in Actors \ {a} : pc'[x] = pc[x]
    BY <1>1, <2>1 DEF PcType
  <2>3. pc'[a] = "join"
    BY <1>1, <2>1 DEF PcType
  <2>4. ASSUME NEW b \in Actors
        PROVE  CallSound(b)'
    <3>1. CallSound(b)
      BY <1>1, CallsSoundParts
    <3>. QED
      BY <2>1, <2>2, <2>3, <3>1 DEF CallSound
  <2>. QED
    BY <2>4, CallsSoundParts1
<1>10. ASSUME NEW a \in Actors, InCall(a)
       PROVE  CallsSound'
  <2>1. PICK l \in {"idle", "acquire", "write", "retain", "drop"} :
             /\ Goto(a, l) /\ pc[a] # "idle"
             /\ l = "acquire" => pc[a] = "lock" /\ call[a].cmd = Renew
             /\ l = "write" => pc[a] = "acquire"
             /\ l = "retain" => pc[a] = "write"
             /\ l = "drop" => call[a].cmd = Leave /\ pc[a] \in {"acquire", "retain"}
             /\ pc[a] = "join" => l = "idle"
             /\ UNCHANGED <<owned, made, request, cancels, loopVars>>
    BY <1>10, InCallMoves
  <2>2. \A x \in Actors \ {a} : call'[x] = call[x] /\ pc'[x] = pc[x]
    BY <1>1, <2>1 DEF PcType, Goto
  <2>3. pc'[a] = l /\ call'[a] = IF l = "idle" THEN NoCall ELSE call[a]
    BY <1>1, <2>1 DEF PcType, Goto
  <2>4. \A x \in Actors : call'[x] = call[x] \/ call'[x] = NoCall
    BY <2>2, <2>3
  <2>5. NoCall.q \notin Queues
    BY Distinctness DEF NoCall
  <2>6. ASSUME NEW b \in Actors
        PROVE  CallSound(b)'
    <3>1. CallSound(b)
      BY <1>1, CallsSoundParts
    <3>2. CASE call'[b] = NoCall
      BY <2>1, <2>2, <2>3, <3>1, <3>2 DEF CallSound
    <3>3. CASE call'[b] # NoCall
      <4>1. call'[b] = call[b] /\ call[b].q \in Queues
        BY <1>1, <2>4, <3>3, StateFacts
      <4>2. call[b].cmd = Leave => \A x \in Actors \ {b} : call'[x].q # call'[b].q
        BY <2>4, <2>5, <3>1, <3>3, <4>1 DEF CallSound
      <4>3. /\ pc'[b] \notin {"idle", "join"}
            /\ pc'[b] = "lock" => call'[b].cmd = Renew
            /\ pc'[b] = "drop" => call'[b].cmd = Leave
        BY <2>1, <2>2, <2>3, <3>1, <3>3, <4>1 DEF CallSound
      <4>. QED
        BY <2>1, <3>1, <3>3, <4>1, <4>2, <4>3 DEF CallSound
    <3>. QED
      BY <3>2, <3>3
  <2>. QED
    BY <2>6, CallsSoundParts1
<1>11. ASSUME NEW a \in Actors, Runs(a)
       PROVE  CallsSound'
  BY <1>2, <1>11, RunsLeaves
<1>12. ASSUME Dispatching
       PROVE  CallsSound'
  BY <1>2, <1>3, <1>12, DispatchingLeaves, Distinctness
<1>. QED
  BY <1>4, <1>5, <1>6, <1>7, <1>8, <1>9, <1>10, <1>11, <1>12 DEF Next, Program, Dispatching

----------------------------------------------------------------------------
(* Locks.                                                                  *)

\* One actor moves, to l, and its call becomes c.
Moved(a, l, c) == /\ pc'[a] = l /\ call'[a] = c
                  /\ \A x \in Actors \ {a} : pc'[x] = pc[x] /\ call'[x] = call[x]

LEMMA GotoMoves ==
    ASSUME pc \in PcType, call \in [Actors -> Calls], NEW a \in Actors, NEW l, Goto(a, l)
    PROVE  Moved(a, l, IF l = "idle" THEN NoCall ELSE call[a])
  BY DEF Moved, Goto, PcType

LEMMA GoCallingMoves ==
    ASSUME pc \in PcType, call \in [Actors -> Calls], NEW a \in Actors, NEW l, NEW c,
           GoCalling(a, l, c)
    PROVE  Moved(a, l, c)
  BY DEF Moved, GoCalling, PcType

\* A program's thread or handler calls: it was idle.
LEMMA ProgramMoves ==
    ASSUME IInv, NEW a \in Actors, Program(a)
    PROVE  /\ pc[a] = "idle"
           /\ UNCHANGED <<requests, sync, dead, done, control, pipe, loopVars, stack>>
           /\ \/ UNCHANGED <<pc, call>>
              \/ Moved(a, "lock", [cmd |-> Renew, q |-> call'[a].q, r |-> made + 1])
                 /\ call'[a].q \in owned' /\ made' = made + 1
              \/ Moved(a, "acquire", [cmd |-> Cancel, q |-> call'[a].q, r |-> 0])
                 /\ call'[a].q \in owned
              \/ Moved(a, "acquire", [cmd |-> Leave, q |-> call'[a].q, r |-> 0])
                 /\ owned' = owned \ {call'[a].q}
              \/ Moved(a, "join", NoCall)
<1>1. pc \in PcType /\ call \in [Actors -> Calls]
  BY TypeParts DEF IInv, ActorsTyped
<1>2. ASSUME NEW q \in Queues, BindA(a, q)
      PROVE  UNCHANGED <<pc, call>>
             /\ UNCHANGED <<requests, sync, dead, done, control, pipe, loopVars, stack>>
  BY <1>2 DEF BindA, reqVars, pipeVars, actorVars
<1>3. ASSUME NEW q \in Queues, NEW k, NEW n, Enter(a, q, k, n), q \in owned'
      PROVE  /\ Moved(a, "lock", [cmd |-> Renew, q |-> call'[a].q, r |-> made + 1])
             /\ call'[a].q \in owned' /\ made' = made + 1
             /\ UNCHANGED <<requests, sync, dead, done, control, pipe, loopVars, stack>>
  <2>. DEFINE c == [cmd |-> Renew, q |-> q, r |-> made + 1]
  <2>1. Moved(a, "lock", c)
    BY <1>1, <1>3, GoCallingMoves DEF Enter
  <2>2. call'[a].q = q
    BY <2>1 DEF Moved
  <2>. QED
    BY <1>3, <2>1, <2>2 DEF Enter, pipeVars
<1>4. ASSUME NEW q \in Queues, Close(a, q)
      PROVE  /\ Moved(a, "acquire", [cmd |-> Cancel, q |-> call'[a].q, r |-> 0])
             /\ call'[a].q \in owned
             /\ UNCHANGED <<requests, sync, dead, done, control, pipe, loopVars, stack>>
  <2>. DEFINE c == [cmd |-> Cancel, q |-> q, r |-> 0]
  <2>1. Moved(a, "acquire", c)
    BY <1>1, <1>4, GoCallingMoves DEF Close
  <2>2. call'[a].q = q
    BY <2>1 DEF Moved
  <2>. QED
    BY <1>4, <2>1, <2>2 DEF Close, pipeVars, queueVars
<1>5. ASSUME NEW q \in Queues, Destroy(a, q)
      PROVE  /\ Moved(a, "acquire", [cmd |-> Leave, q |-> call'[a].q, r |-> 0])
             /\ owned' = owned \ {call'[a].q}
             /\ UNCHANGED <<requests, sync, dead, done, control, pipe, loopVars, stack>>
  <2>. DEFINE c == [cmd |-> Leave, q |-> q, r |-> 0]
  <2>1. Moved(a, "acquire", c)
    BY <1>1, <1>5, GoCallingMoves DEF Destroy
  <2>2. call'[a].q = q
    BY <2>1 DEF Moved
  <2>. QED
    BY <1>5, <2>1, <2>2 DEF Destroy, pipeVars, reqVars
<1>6. ASSUME StopDispatch(a)
      PROVE  /\ Moved(a, "join", NoCall)
             /\ UNCHANGED <<requests, sync, dead, done, control, pipe, loopVars, stack>>
  <2>1. pc[a] = "idle" /\ Goto(a, "join")
    BY <1>6 DEF StopDispatch, CanCall
  <2>2. call[a] = NoCall
    BY <2>1 DEF IInv, CallsSound
  <2>3. Moved(a, "join", call[a])
    BY <1>1, <2>1, GotoMoves
  <2>. QED
    BY <1>6, <2>2, <2>3 DEF StopDispatch, queueVars, reqVars
<1>7. pc[a] = "idle"
  BY DEF Program, BindA, ConnectA, Close, Destroy, Request, StopDispatch, CanCall
<1>8. ASSUME NEW q \in Queues, ConnectA(a, q)
      PROVE  Enter(a, q, "connect", 0) /\ q \in owned'
  BY <1>8 DEF ConnectA, Adopt
<1>9. ASSUME NEW q \in Queues, NEW k, NEW n, Request(a, q, k, n)
      PROVE  Enter(a, q, k, n) /\ q \in owned'
  BY <1>9 DEF Request
<1>. QED
  BY <1>2, <1>3, <1>4, <1>5, <1>6, <1>7, <1>8, <1>9 DEF Program

LockHeld(q, b) == sync[q] = b <=> Sending(b, Renew, q)
ControlHeld(b) == control = b <=> pc[b] \in {"write", "retain"}
LEMMA LocksParts ==
    /\ LocksHeld <=> \A b \in Actors : ControlHeld(b) /\ \A q \in Queues : LockHeld(q, b)
    /\ LocksHeld' <=> \A b \in Actors : ControlHeld(b)' /\ \A q \in Queues : LockHeld(q, b)'
  BY DEF LocksHeld, LockHeld, ControlHeld

LEMMA LocksStep ==
    ASSUME IInv, Next
    PROVE  LocksHeld'
<1>1. /\ TypeOK /\ CallsSound /\ LocksHeld /\ pc \in PcType /\ call \in [Actors -> Calls]
      /\ sync \in [Queues -> Actors \cup {NoOne}] /\ NoOne \notin Actors
      /\ Renew # Leave /\ Renew # Cancel
  BY TypeParts, Distinctness DEF IInv, ActorsTyped, QueuesTyped
<1>2. ASSUME UNCHANGED <<pc, call, sync, control>>
      PROVE  LocksHeld'
  BY <1>1, <1>2 DEF LocksHeld, Sending
<1>3. \A b \in Actors : ControlHeld(b) /\ \A q \in Queues : LockHeld(q, b)
  BY <1>1, LocksParts
<1>4. ASSUME NEW a \in Actors, NEW l, NEW c, Moved(a, l, c), UNCHANGED <<sync, control>>,
             pc[a] \in {"write", "retain"} <=> l \in {"write", "retain"},
             \A q \in Queues : Sending(a, Renew, q) <=>
                l \in {"acquire", "write", "retain"} /\ c.cmd = Renew /\ c.q = q
      PROVE  LocksHeld'
  <2>1. ASSUME NEW b \in Actors
        PROVE  ControlHeld(b)' /\ \A q \in Queues : LockHeld(q, b)'
    <3>1. CASE b = a
      BY <1>3, <1>4, <3>1 DEF Moved, ControlHeld, LockHeld, Sending
    <3>2. CASE b # a
      BY <1>3, <1>4, <3>2 DEF Moved, ControlHeld, LockHeld, Sending
    <3>. QED
      BY <3>1, <3>2
  <2>. QED
    BY <2>1, LocksParts
<1>5. ASSUME NEW a \in Actors, Program(a)
      PROVE  LocksHeld'
  <2>1. ~Sending(a, Renew, item.q) /\ \A q \in Queues : ~Sending(a, Renew, q)
    BY <1>5, ProgramMoves DEF Sending
  <2>2. UNCHANGED <<sync, control>> /\ pc[a] = "idle"
    BY <1>5, ProgramMoves
  <2>3. ASSUME NEW l \in {"lock", "acquire", "join"}, NEW c, Moved(a, l, c),
               l = "acquire" => c.cmd # Renew
        PROVE  LocksHeld'
    BY <1>4, <2>1, <2>2, <2>3
  <2>4. [cmd |-> Cancel, q |-> call'[a].q, r |-> 0].cmd = Cancel
        /\ [cmd |-> Leave, q |-> call'[a].q, r |-> 0].cmd = Leave
    OBVIOUS
  <2>. QED
    BY <1>1, <1>2, <1>5, <2>2, <2>3, <2>4, ProgramMoves
<1>6. ASSUME NEW a \in Actors, Runs(a)
      PROVE  LocksHeld'
  BY <1>2, <1>6, RunsLeaves DEF pipeVars
<1>7. ASSUME Dispatching
      PROVE  LocksHeld'
  BY <1>2, <1>7, DispatchingLeaves
<1>8. ASSUME NEW a \in Actors, Enqueue(a)
      PROVE  LocksHeld'
  <2>. DEFINE q == call[a].q
  <2>1. /\ pc[a] = "lock" /\ sync[q] = NoOne /\ sync' = [sync EXCEPT ![q] = a]
        /\ Goto(a, "acquire") /\ control' = control /\ call[a].cmd = Renew /\ q \in Queues
    BY <1>1, <1>8, NamedQueues DEF Enqueue, CallsSound, pipeVars
  <2>2. Moved(a, "acquire", call[a])
    BY <1>1, <2>1, GotoMoves
  <2>3. ASSUME NEW b \in Actors
        PROVE  ControlHeld(b)' /\ \A x \in Queues : LockHeld(x, b)'
    <3>1. CASE b = a
      BY <1>1, <1>3, <2>1, <2>2, <3>1 DEF Moved, ControlHeld, LockHeld, Sending
    <3>2. CASE b # a
      BY <1>1, <1>3, <2>1, <2>2, <3>2 DEF Moved, ControlHeld, LockHeld, Sending
    <3>. QED
      BY <3>1, <3>2
  <2>. QED
    BY <2>3, LocksParts
<1>9. ASSUME NEW a \in Actors, ConnectAtOnce(a)
      PROVE  LocksHeld'
  <2>1. pc[a] = "lock" /\ Moved(a, "idle", NoCall) /\ UNCHANGED <<sync, control>>
    BY <1>1, <1>9, GotoMoves DEF ConnectAtOnce, queueVars, pipeVars
  <2>. QED
    BY <1>4, <2>1 DEF Sending
<1>10. ASSUME NEW a \in Actors, Acquire(a)
       PROVE  LocksHeld'
  <2>1. pc[a] = "acquire" /\ Moved(a, "write", call[a]) /\ sync' = sync /\ control' = a
        /\ control = NoOne
    BY <1>1, <1>10, GotoMoves DEF Acquire, queueVars
  <2>2. ASSUME NEW b \in Actors
        PROVE  ControlHeld(b)' /\ \A x \in Queues : LockHeld(x, b)'
    <3>1. CASE b = a
      BY <1>1, <1>3, <2>1, <3>1 DEF Moved, ControlHeld, LockHeld, Sending
    <3>2. CASE b # a
      BY <1>1, <1>3, <2>1, <3>2 DEF Moved, ControlHeld, LockHeld, Sending
    <3>. QED
      BY <3>1, <3>2
  <2>. QED
    BY <2>2, LocksParts
<1>11. ASSUME NEW a \in Actors, Refuse(a)
       PROVE  LocksHeld'
  <2>. DEFINE q == call[a].q
              l == IF call[a].cmd = Leave THEN "drop" ELSE "idle"
  <2>1. /\ pc[a] = "acquire" /\ Moved(a, l, IF l = "idle" THEN NoCall ELSE call[a])
        /\ control' = control /\ q \in Queues
        /\ IF call[a].cmd = Renew THEN sync' = [sync EXCEPT ![q] = NoOne] ELSE sync' = sync
    BY <1>1, <1>11, GotoMoves, NamedQueues DEF Refuse, pipeVars
  <2>2. ASSUME NEW b \in Actors
        PROVE  ControlHeld(b)' /\ \A x \in Queues : LockHeld(x, b)'
    <3>1. CASE b = a
      BY <1>1, <1>3, <2>1, <3>1 DEF Moved, ControlHeld, LockHeld, Sending
    <3>2. CASE b # a
      BY <1>1, <1>3, <2>1, <3>2 DEF Moved, ControlHeld, LockHeld, Sending
    <3>. QED
      BY <3>1, <3>2
  <2>. QED
    BY <2>2, LocksParts
<1>12. ASSUME NEW a \in Actors, Write(a)
       PROVE  LocksHeld'
  <2>1. pc[a] = "write" /\ Moved(a, "retain", call[a]) /\ UNCHANGED <<sync, control>>
    BY <1>1, <1>12, GotoMoves DEF Write, queueVars
  <2>. QED
    BY <1>4, <2>1 DEF Sending
<1>13. ASSUME NEW a \in Actors, Retain(a)
       PROVE  LocksHeld'
  <2>. DEFINE q == call[a].q
              l == IF call[a].cmd = Leave THEN "drop" ELSE "idle"
  <2>1. /\ pc[a] = "retain" /\ Moved(a, l, IF l = "idle" THEN NoCall ELSE call[a])
        /\ control' = NoOne /\ q \in Queues
        /\ IF call[a].cmd = Renew THEN sync' = [sync EXCEPT ![q] = NoOne] ELSE sync' = sync
    BY <1>1, <1>13, GotoMoves, NamedQueues DEF Retain
  <2>2. ASSUME NEW b \in Actors
        PROVE  ControlHeld(b)' /\ \A x \in Queues : LockHeld(x, b)'
    <3>1. CASE b = a
      BY <1>1, <1>3, <2>1, <3>1 DEF Moved, ControlHeld, LockHeld, Sending
    <3>2. CASE b # a
      BY <1>1, <1>3, <2>1, <3>2 DEF Moved, ControlHeld, LockHeld, Sending
    <3>. QED
      BY <3>1, <3>2
  <2>. QED
    BY <2>2, LocksParts
<1>14. ASSUME NEW a \in Actors, Drop(a)
       PROVE  LocksHeld'
  <2>1. pc[a] = "drop" /\ Moved(a, "idle", NoCall) /\ UNCHANGED <<sync, control>>
    BY <1>1, <1>14, GotoMoves DEF Drop, pipeVars
  <2>. QED
    BY <1>4, <2>1 DEF Sending
<1>15. ASSUME NEW a \in Actors, Join(a)
       PROVE  LocksHeld'
  <2>1. pc[a] = "join" /\ Moved(a, "idle", NoCall) /\ UNCHANGED <<sync, control>>
    BY <1>1, <1>15, GotoMoves DEF Join, queueVars, pipeVars
  <2>. QED
    BY <1>4, <2>1 DEF Sending
<1>. QED
  BY <1>5, <1>6, <1>7, <1>8, <1>9, <1>10, <1>11, <1>12, <1>13, <1>14, <1>15
     DEF Next, InCall, Dispatching

----------------------------------------------------------------------------
(* The dispatcher and its commands.                                        *)

LEMMA CancelsGrow ==
    ASSUME IInv, Next
    PROVE  \A q \in Listeners : cancels[q] > 0 => cancels'[q] > 0
<1>1. cancels \in [Listeners -> 0 .. MaxCancels] /\ MaxCancels \in Nat
  BY TypeParts, Distinctness DEF IInv, ReqsTyped
<1>2. ASSUME NEW a \in Actors, NEW q \in Queues, Close(a, q)
      PROVE  \A x \in Listeners : cancels[x] > 0 => cancels'[x] > 0
  <2>1. cancels' = [cancels EXCEPT ![q] = @ + 1]
    BY <1>2 DEF Close
  <2>. QED
    BY <1>1, <2>1
<1>3. ASSUME NEW a \in Actors, Program(a)
      PROVE  cancels' = cancels \/ \E q \in Queues : Close(a, q)
  BY <1>3 DEF Program, BindA, ConnectA, Destroy, Request, Enter, StopDispatch, reqVars
<1>4. ASSUME NEW a \in Actors, InCall(a) \/ Runs(a)
      PROVE  cancels' = cancels
  BY <1>4, InCallMoves, RunsLeaves
<1>. QED
  BY <1>2, <1>3, <1>4, DispatchingLeaves DEF Next, Dispatching

\* Only a writer adds to the pipe, and the engine is open then.
LEMMA InCallPipe ==
    ASSUME IInv, NEW a \in Actors, InCall(a)
    PROVE  /\ open' = open
           /\ control' = control \/ control' = NoOne \/ (control' = a /\ open)
           /\ \/ pipe' = pipe
              \/ /\ Write(a) /\ pc[a] = "write" /\ control = a /\ open
                 /\ pipe' = Append(pipe, [cmd |-> call[a].cmd, q |-> call[a].q])
<1>1. LocksHeld /\ LoopSound /\ NoOne \notin Actors
  BY Distinctness DEF IInv
<1>2. open' = open
      /\ (control' = control \/ control' = NoOne \/ (control' = a /\ open))
      /\ (pipe' = pipe \/ Write(a))
  BY DEF InCall, Enqueue, ConnectAtOnce, Acquire, Refuse, Write, Retain, Drop, Join, pipeVars
<1>3. ASSUME Write(a)
      PROVE  /\ pc[a] = "write" /\ control = a /\ open
             /\ pipe' = Append(pipe, [cmd |-> call[a].cmd, q |-> call[a].q])
  <2>1. pc[a] = "write" /\ pipe' = Append(pipe, [cmd |-> call[a].cmd, q |-> call[a].q])
    BY <1>3 DEF Write
  <2>2. control = a
    BY <1>1, <2>1 DEF LocksHeld
  <2>. QED
    BY <1>1, <2>1, <2>2 DEF LoopSound, TypeOK
<1>. QED
  BY <1>2, <1>3

\* The head of the pipe is one of its commands.
LEMMA HeadCommand ==
    ASSUME TypeOK, pipe # <<>>
    PROVE  /\ Head(pipe) = pipe[1] /\ 1 \in 1 .. Len(pipe) /\ Head(pipe).q \in Queues
           /\ Head(pipe).cmd \in {Renew, Leave, Cancel}
           /\ Len(Tail(pipe)) = Len(pipe) - 1 /\ Tail(pipe) \in Seq(Commands)
           /\ \A i \in 1 .. Len(pipe) - 1 : Tail(pipe)[i] = pipe[i + 1]
           /\ InPipe(Head(pipe).q) > 0
<1>1. pipe \in Seq(Commands) /\ Len(pipe) \in Nat /\ Len(pipe) > 0
  BY StateFacts
<1>2. /\ Head(pipe) = pipe[1] /\ 1 \in 1 .. Len(pipe)
      /\ Len(Tail(pipe)) = Len(pipe) - 1 /\ Tail(pipe) \in Seq(Commands)
      /\ \A i \in 1 .. Len(pipe) - 1 : Tail(pipe)[i] = pipe[i + 1]
  BY <1>1, TailFacts
<1>3. Head(pipe).q \in Queues /\ Head(pipe).cmd \in {Renew, Leave, Cancel}
  BY <1>2, StateFacts
<1>4. InPipe(Head(pipe).q) \in Nat /\ InPipe(Head(pipe).q) # 0
  BY <1>1, <1>2, CommandsType DEF InPipe
<1>. QED
  BY <1>2, <1>3, <1>4

LEMMA LoopSoundStep ==
    ASSUME IInv, Next
    PROVE  LoopSound'
<1>1. /\ TypeOK /\ LoopSound /\ CommandsSound /\ LocksHeld /\ NoOne \notin Actors
      /\ open \in BOOLEAN /\ NoItem.q = NoOne /\ clients \subseteq Queues
  BY TypeParts, Distinctness DEF IInv, PipeTyped, NoItem, LoopTyped
<1>2. ASSUME UNCHANGED loopVars, ~open' => control' = NoOne,
             at \in {"exit", "ended"} => ~open' /\ pipe' = pipe
      PROVE  LoopSound'
  BY <1>1, <1>2, CancelsGrow DEF LoopSound, Working, loopVars
<1>3. ASSUME NEW a \in Actors, Program(a)
      PROVE  LoopSound'
  <2>1. UNCHANGED <<loopVars, pipe, control>>
    BY <1>3, ProgramMoves
  <2>2. open' = open \/ (open' = FALSE /\ control = NoOne)
    BY <1>3 DEF Program, BindA, ConnectA, Close, Destroy, Request, Enter, StopDispatch, pipeVars
  <2>. QED
    BY <1>1, <1>2, <2>1, <2>2 DEF LoopSound
<1>4. ASSUME NEW a \in Actors, InCall(a)
      PROVE  LoopSound'
  <2>1. UNCHANGED loopVars
    BY <1>4, InCallMoves
  <2>. QED
    BY <1>1, <1>2, <1>4, <2>1, InCallPipe DEF LoopSound
<1>5. ASSUME NEW a \in Actors, Runs(a)
      PROVE  LoopSound'
  BY <1>1, <1>2, <1>5, RunsLeaves DEF pipeVars, LoopSound
<1>6. ASSUME Dispatching
      PROVE  LoopSound'
  <2>1. UNCHANGED <<cancels, control, open>> /\ (~open => control = NoOne)
    BY <1>1, <1>6, DispatchingLeaves DEF LoopSound
  <2>2. ASSUME NEW q \in Queues, NEW d \in Dirs, PollEvent(q, d)
        PROVE  LoopSound'
    BY <1>1, <2>1, <2>2 DEF LoopSound, Working, PollEvent, InLoop
  <2>3. CASE PollCommand
    BY <1>1, <2>1, <2>3 DEF LoopSound, Working, PollCommand, InLoop
  <2>4. ASSUME NEW d \in Dirs, NothingDone(d) \/ Finish(d) \/ Accept(d)
        PROVE  LoopSound'
    <3>1. item.q \in clients /\ item.what \in Dirs /\ at = "handle"
      BY <1>1, <2>4 DEF LoopSound, NothingDone, Finish, Accept, Ready, InLoop
    <3>2. at' \in {"round", "peekRead"} /\ UNCHANGED <<item, clients>>
      BY <2>4 DEF NothingDone, Finish, Accept
    <3>. QED
      BY <2>1, <3>1, <3>2 DEF LoopSound, Working
  <2>5. CASE PeekRead("peekRead", "peekWrite") \/ Revise
    BY <1>1, <2>1, <2>5 DEF LoopSound, Working, PeekRead, Revise, InLoop
  <2>6. CASE ThenWrite
    <3>1. item'.q = item.q /\ item'.what = "write" /\ at' = "handle" /\ clients' = clients
      <4>1. item \in ItemSet /\ item' = [item EXCEPT !.what = "write"]
        BY <1>1, <2>6, TypeParts DEF LoopTyped, ThenWrite
      <4>2. \A i \in ItemSet : [i EXCEPT !.what = "write"].q = i.q
                               /\ [i EXCEPT !.what = "write"].what = "write"
        BY DEF ItemSet, NoItem
      <4>. QED
        BY <2>6, <4>1, <4>2 DEF ThenWrite
    <3>. QED
      BY <1>1, <2>1, <2>6, <3>1 DEF LoopSound, Working, ThenWrite, InLoop, Dirs
  <2>7. CASE RemoveMarked
    BY <1>1, <2>1, <2>7 DEF LoopSound, Working, RemoveMarked, InLoop
  <2>8. CASE ReadCommand
    <3>1. /\ pipe # <<>> /\ item'.q = Head(pipe).q
          /\ at' = CASE Head(pipe).cmd = Renew -> "renewRead"
                     [] Head(pipe).cmd = Cancel -> "cancel"
                     [] Head(pipe).cmd = Leave -> "leave"
      BY <2>8 DEF ReadCommand
    <3>2. Head(pipe).q \in Queues /\ Head(pipe).cmd \in {Renew, Leave, Cancel}
          /\ Head(pipe) = pipe[1] /\ 1 \in 1 .. Len(pipe)
      BY <1>1, <3>1, HeadCommand
    <3>3. Head(pipe).cmd = Cancel => Head(pipe).q \in Listeners /\ cancels[Head(pipe).q] > 0
      BY <1>1, <3>2 DEF CommandsSound
    <3>4. at' \in {"renewRead", "cancel", "leave"} /\ (at' = "cancel" => Head(pipe).cmd = Cancel)
      BY <3>1, <3>2, Distinctness
    <3>. QED
      BY <2>1, <3>1, <3>2, <3>3, <3>4 DEF LoopSound, Working
  <2>9. CASE NoCommand
    <3>1. /\ at = "command" /\ pipe = <<>> /\ at' = IF open THEN "poll" ELSE "exit"
          /\ item' = item /\ pipe' = pipe
      BY <2>9 DEF NoCommand, InLoop, pipeVars
    <3>. QED
      BY <1>1, <2>1, <3>1 DEF LoopSound, Working
  <2>10. CASE PeekRead("renewRead", "renewWrite") \/ Renewed \/ Forget
    BY <1>1, <2>1, <2>10 DEF LoopSound, Working, PeekRead, Renewed, Forget, InLoop
  <2>11. CASE CancelNext
    <3>1. at = "cancel" /\ at' \in {"cancel", "leave"} /\ item' = item /\ clients' = clients
      BY <2>11 DEF CancelNext, InLoop
    <3>. QED
      BY <1>1, <2>1, <3>1 DEF LoopSound, Working
  <2>12. CASE Exit
    <3>1. at = "exit" /\ at' \in {"exit", "ended"} /\ item' = item /\ pipe' = pipe
      BY <2>12 DEF Exit, InLoop, pipeVars
    <3>. QED
      BY <1>1, <2>1, <3>1 DEF LoopSound, Working
  <2>. QED
    BY <1>6, <2>2, <2>3, <2>4, <2>5, <2>6, <2>7, <2>8, <2>9, <2>10, <2>11, <2>12
       DEF Dispatching, Loop
<1>. QED
  BY <1>3, <1>4, <1>5, <1>6 DEF Next, Dispatching

\* Which queues get or lose their object in a step.
LEMMA OwnedStep ==
    ASSUME IInv, Next
    PROVE  \A q \in owned' : q \in owned \/ (q \in Queues /\ Unborn(q))
<1>1. ASSUME NEW a \in Actors, Program(a)
      PROVE  \/ owned' \subseteq owned
             \/ \E q \in Queues : Unborn(q) /\ owned' = owned \cup {q}
  BY <1>1 DEF Program, BindA, ConnectA, Close, Destroy, Request, Enter, StopDispatch, Adopt, queueVars
<1>2. ASSUME NEW a \in Actors, InCall(a) \/ Runs(a)
      PROVE  owned' = owned
  BY <1>2, InCallMoves, RunsLeaves
<1>. QED
  BY <1>1, <1>2, DispatchingLeaves, Distinctness DEF Next, Dispatching

CommandSound(c, o, k) == /\ c.cmd = Leave => c.q \notin o
                         /\ c.cmd = Cancel => c.q \in Listeners /\ k[c.q] > 0
LEMMA CommandsParts ==
    /\ CommandsSound <=> \A i \in 1 .. Len(pipe) : CommandSound(pipe[i], owned, cancels)
    /\ CommandsSound' <=> \A i \in 1 .. Len(pipe') : CommandSound(pipe'[i], owned', cancels')
  BY DEF CommandsSound, CommandSound

LEMMA CommandsStep ==
    ASSUME IInv, Next
    PROVE  CommandsSound'
<1>1. TypeOK /\ CallsSound /\ CommandsSound /\ Len(pipe) \in Nat /\ pipe \in Seq(Commands)
  BY StateFacts DEF IInv
<1>2. \A i \in 1 .. Len(pipe) : CommandSound(pipe[i], owned, cancels)
  BY <1>1, CommandsParts
<1>3. \A q \in Queues : Unborn(q) => InPipe(q) = 0
  BY UnbornUnused
<1>4. \A q \in Queues : InPipe(q) = 0 => \A i \in 1 .. Len(pipe) : pipe[i].q # q
  BY <1>1, CommandsType DEF InPipe
<1>5. ASSUME NEW i \in 1 .. Len(pipe)
      PROVE  CommandSound(pipe[i], owned', cancels')
  BY <1>2, <1>3, <1>4, OwnedStep, CancelsGrow DEF CommandSound
<1>6. CASE pipe' = pipe
  BY <1>5, <1>6, CommandsParts
<1>7. ASSUME NEW a \in Actors, Write(a),
             pipe' = Append(pipe, [cmd |-> call[a].cmd, q |-> call[a].q]), pc[a] = "write",
             owned' = owned, cancels' = cancels
      PROVE  CommandsSound'
  <2>. DEFINE c == [cmd |-> call[a].cmd, q |-> call[a].q]
  <2>1. call[a] # NoCall
    BY <1>1, <1>7 DEF CallsSound
  <2>2. call[a] \in CallTo
    BY <1>1, <2>1, StateFacts, CallFacts
  <2>3. c \in Commands
    BY <2>2 DEF Commands, CallTo
  <2>4. CommandSound(c, owned', cancels')
    BY <1>1, <1>7, <2>1 DEF CallsSound, CommandSound
  <2>. HIDE DEF c
  <2>5. /\ Len(pipe') = Len(pipe) + 1 /\ pipe'[Len(pipe) + 1] = c
        /\ \A i \in 1 .. Len(pipe) : pipe'[i] = pipe[i]
    BY <1>1, <1>7, <2>3, AppendFacts DEF c
  <2>6. \A i \in 1 .. Len(pipe') : CommandSound(pipe'[i], owned', cancels')
    <3>. SUFFICES ASSUME NEW i \in 1 .. Len(pipe')
                  PROVE  CommandSound(pipe'[i], owned', cancels')
      OBVIOUS
    <3>1. CASE i = Len(pipe) + 1
      BY <2>4, <2>5, <3>1
    <3>2. CASE i # Len(pipe) + 1
      <4>1. i \in 1 .. Len(pipe) /\ pipe'[i] = pipe[i]
        BY <1>1, <2>5, <3>2
      <4>. QED
        BY <1>5, <4>1
    <3>. QED
      BY <3>1, <3>2
  <2>. QED
    BY <2>6, CommandsParts
<1>8. CASE ReadCommand
  <2>1. pipe' = Tail(pipe) /\ pipe # <<>>
    BY <1>8 DEF ReadCommand
  <2>2. Len(pipe') = Len(pipe) - 1 /\ \A i \in 1 .. Len(pipe) - 1 : pipe'[i] = pipe[i + 1]
    BY <1>1, <2>1, HeadCommand
  <2>3. \A i \in 1 .. Len(pipe') : i + 1 \in 1 .. Len(pipe) /\ pipe'[i] = pipe[i + 1]
    BY <1>1, <2>2
  <2>. QED
    BY <1>5, <2>3, CommandsParts
<1>9. ASSUME NEW a \in Actors, InCall(a)
      PROVE  CommandsSound'
  <2>1. UNCHANGED <<owned, cancels>>
    BY <1>9, InCallMoves
  <2>. QED
    BY <1>6, <1>7, <1>9, <2>1, InCallPipe
<1>10. ASSUME NEW a \in Actors, Program(a) \/ Runs(a)
       PROVE  pipe' = pipe
  BY <1>10, ProgramMoves, RunsLeaves DEF pipeVars
<1>11. ASSUME Dispatching
       PROVE  pipe' = pipe \/ ReadCommand
  BY <1>11 DEF Dispatching, Loop, PollEvent, PollCommand, NothingDone, Finish, Accept, PeekRead,
         Revise, ThenWrite, RemoveMarked, NoCommand, Renewed, CancelNext, Forget, Exit, pipeVars
<1>. QED
  BY <1>6, <1>8, <1>9, <1>10, <1>11 DEF Next, Dispatching

\* The dispatcher releases no reference that is yet to be taken.
InTime == Forget => ~Early

LEMMA OwedStep ==
    ASSUME IInv, Next, InTime
    PROVE  CommandOwed'
<1>1. /\ TypeOK /\ CommandOwed /\ LocksHeld /\ pipe \in Seq(Commands) /\ NoOne \notin Actors
      /\ pc \in PcType /\ call \in [Actors -> Calls] /\ CallsSound
  BY StateFacts, Distinctness, TypeParts DEF IInv, ActorsTyped
<1>. DEFINE Owed(b) == \/ pipe # <<>> /\ Last(pipe) = [cmd |-> call[b].cmd, q |-> call[b].q]
                       \/ pipe = <<>> /\ at \in ExecutedAt(call[b].cmd) /\ item.q = call[b].q
<1>2. \A b \in Actors : pc[b] = "retain" => Owed(b)
  BY <1>1 DEF CommandOwed
<1>3. ASSUME UNCHANGED <<pipe, loopVars>>,
             \A b \in Actors : pc'[b] = "retain" => pc[b] = "retain" /\ call'[b] = call[b]
      PROVE  CommandOwed'
  BY <1>2, <1>3 DEF CommandOwed, loopVars
<1>4. ASSUME NEW a \in Actors, Program(a)
      PROVE  CommandOwed'
  BY <1>3, <1>4, ProgramMoves DEF Moved
<1>5. ASSUME NEW a \in Actors, Runs(a)
      PROVE  CommandOwed'
  BY <1>3, <1>5, RunsLeaves DEF pipeVars
<1>6. ASSUME NEW a \in Actors, InCall(a)
      PROVE  CommandOwed'
  <2>1. PICK l \in {"idle", "acquire", "write", "retain", "drop"} :
             /\ Goto(a, l) /\ pc[a] # "idle"
             /\ l = "retain" => pc[a] = "write"
             /\ UNCHANGED loopVars
    BY <1>6, InCallMoves
  <2>2. Moved(a, l, IF l = "idle" THEN NoCall ELSE call[a])
    BY <1>1, <2>1, GotoMoves
  <2>3. CASE Write(a)
    <3>1. /\ control = a /\ pipe' = Append(pipe, [cmd |-> call[a].cmd, q |-> call[a].q])
          /\ pc[a] = "write"
      BY <1>1, <2>3 DEF Write, LocksHeld
    <3>2. [cmd |-> call[a].cmd, q |-> call[a].q] \in Commands
      <4>1. call[a] \in CallTo
        BY <3>1, NamedQueues
      <4>. QED
        BY <4>1 DEF CallTo, Commands
    <3>3. pipe' # <<>> /\ Last(pipe') = [cmd |-> call[a].cmd, q |-> call[a].q]
      BY <1>1, <3>1, <3>2, AppendFacts
    <3>4. \A b \in Actors \ {a} : pc'[b] # "retain"
      BY <1>1, <2>2, <3>1 DEF LocksHeld, Moved
    <3>5. call'[a] = call[a]
      BY <2>3 DEF Write, Goto
    <3>. QED
      BY <3>3, <3>4, <3>5 DEF CommandOwed
  <2>4. CASE ~Write(a)
    <3>1. pipe' = pipe
      BY <1>6, <2>4, InCallPipe
    <3>2. l # "retain"
      <4>1. pc[a] = "write" => ~(Enqueue(a) \/ ConnectAtOnce(a) \/ Acquire(a) \/ Refuse(a)
                                  \/ Retain(a) \/ Drop(a) \/ Join(a))
        BY DEF Enqueue, ConnectAtOnce, Acquire, Refuse, Retain, Drop, Join
      <4>. QED
        BY <1>6, <2>1, <2>4, <4>1 DEF InCall
    <3>. QED
      BY <1>3, <2>1, <2>2, <3>1, <3>2 DEF Moved
  <2>. QED
    BY <2>3, <2>4
<1>7. ASSUME Dispatching
      PROVE  CommandOwed'
  <2>1. UNCHANGED <<pc, call>>
    BY <1>7, DispatchingLeaves
  <2>. SUFFICES ASSUME NEW b \in Actors, pc[b] = "retain"
                PROVE  Owed(b)'
    BY <2>1 DEF CommandOwed
  <2>2. call[b].q \in Queues /\ call[b].cmd \in {Renew, Leave, Cancel}
    BY NamedQueues DEF CallTo
  <2>3. CASE pipe = <<>> /\ at \in ExecutedAt(call[b].cmd) /\ item.q = call[b].q
    <3>1. call[b].cmd = Renew => at = "renewRead" /\ sync[item.q] = b /\ b # NoOne
      <4>1. call[b].cmd = Renew => at = "renewRead"
        BY <2>3, Distinctness DEF ExecutedAt
      <4>2. call[b].cmd = Renew => sync[item.q] = b
        BY <1>1, <2>2, <2>3 DEF LocksHeld, Sending
      <4>. QED
        BY <1>1, <4>1, <4>2
    <3>2. call[b].cmd # Renew => at \in {"cancel", "leave"}
      BY <2>2, <2>3, Distinctness DEF ExecutedAt
    <3>3. pipe' = <<>> /\ ~Forget
      BY <1>7, <2>3, InTime DEF Dispatching, Loop, PollEvent, PollCommand, NothingDone, Finish,
         Accept, PeekRead, Revise, ThenWrite, RemoveMarked, ReadCommand, NoCommand, Renewed,
         CancelNext, Forget, Exit, pipeVars, InTime, Early
    <3>4. CASE call[b].cmd = Renew
      BY <1>7, <2>3, <3>1, <3>4 DEF Dispatching, Loop, PollEvent, PollCommand, NothingDone, Finish,
         Accept, PeekRead, Revise, ThenWrite, RemoveMarked, ReadCommand, NoCommand, Renewed,
         CancelNext, Forget, Exit, Ready, InLoop
    <3>5. CASE call[b].cmd # Renew
      <4>1. \/ at' = at /\ item' = item
            \/ at = "cancel" /\ at' = "leave" /\ item' = item
        <5>1. CancelNext
          BY <1>7, <3>2, <3>3, <3>5 DEF Dispatching, Loop, PollEvent, PollCommand, NothingDone,
             Finish, Accept, PeekRead, Revise, ThenWrite, RemoveMarked, ReadCommand, NoCommand,
             Renewed, Exit, Ready, InLoop
        <5>2. at = "cancel" /\ item' = item /\ (at' = at \/ at' = "leave")
          BY <5>1 DEF CancelNext, InLoop
        <5>. QED
          BY <5>2
      <4>2. at' \in ExecutedAt(call[b].cmd)
        BY <2>2, <2>3, <4>1, Distinctness DEF ExecutedAt
      <4>. QED
        BY <2>1, <2>3, <3>3, <4>1, <4>2
    <3>. QED
      BY <3>4, <3>5
  <2>4. CASE pipe # <<>> /\ Last(pipe) = [cmd |-> call[b].cmd, q |-> call[b].q]
    <3>1. pipe' = pipe \/ ReadCommand
      BY <1>7 DEF Dispatching, Loop, PollEvent, PollCommand, NothingDone, Finish, Accept, PeekRead,
         Revise, ThenWrite, RemoveMarked, NoCommand, Renewed, CancelNext, Forget, Exit, pipeVars
    <3>2. CASE ReadCommand
      <4>1. pipe' = Tail(pipe)
        BY <3>2 DEF ReadCommand
      <4>2. CASE Tail(pipe) # <<>>
        BY <1>1, <2>1, <2>4, <4>1, <4>2, TailFacts
      <4>3. CASE Tail(pipe) = <<>>
        <5>1. Head(pipe) = [cmd |-> call[b].cmd, q |-> call[b].q]
          BY <1>1, <2>4, <4>3, TailFacts
        <5>2. at' \in ExecutedAt(call[b].cmd) /\ item'.q = call[b].q
          <6>1. Head(pipe).cmd = call[b].cmd /\ Head(pipe).q = call[b].q
            BY <5>1
          <6>. QED
            BY <2>2, <3>2, <6>1, Distinctness DEF ReadCommand, ExecutedAt
        <5>. QED
          BY <2>1, <4>1, <4>3, <5>2
      <4>. QED
        BY <4>2, <4>3
    <3>3. CASE pipe' = pipe
      BY <2>1, <2>4, <3>3
    <3>. QED
      BY <3>1, <3>2, <3>3
  <2>. QED
    BY <1>2, <2>3, <2>4
<1>. QED
  BY <1>4, <1>5, <1>6, <1>7 DEF Next, Dispatching

----------------------------------------------------------------------------
(* Where the requests are.                                                 *)

InPlace(r) == r <= made /\ done[r] = "no" =>
    Entering(r) \/ r \in ToSet(requests[request[r].q][DirOf(request[r].kind)])
QueuePlaced(q, d) ==
    /\ IsInjective(requests[q][d])
    /\ \A r \in ToSet(requests[q][d]) :
         /\ r <= made /\ request[r].q = q /\ DirOf(request[r].kind) = d
         /\ done[r] = "no" /\ ~Entering(r)
Blank(r) == IF r <= made THEN request[r].q \in Queues ELSE done[r] = "no"
EntersAlone(a) == pc[a] = "lock" =>
    /\ done[call[a].r] = "no"
    /\ \A b \in Actors \ {a} : pc[b] = "lock" => call[b].r # call[a].r
LastOf(a) == pc[a] = "acquire" /\ call[a].cmd = Renew =>
    /\ requests[call[a].q][DirOf(request[call[a].r].kind)] # <<>>
    /\ Last(requests[call[a].q][DirOf(request[call[a].r].kind)]) = call[a].r

Placed == RequestsInPlace /\ RequestsFresh
LEMMA PlacedParts ==
    Placed <=> /\ \A r \in Requests : InPlace(r) /\ Blank(r)
               /\ \A q \in Queues, d \in Dirs : QueuePlaced(q, d)
               /\ \A a \in Actors : EntersAlone(a) /\ LastOf(a)
  BY DEF Placed, RequestsInPlace, RequestsFresh, InPlace, QueuePlaced, Blank, EntersAlone, LastOf
LEMMA PlacedParts1 ==
    Placed' <=> /\ \A r \in Requests : InPlace(r)' /\ Blank(r)'
                /\ \A q \in Queues, d \in Dirs : QueuePlaced(q, d)'
                /\ \A a \in Actors : EntersAlone(a)' /\ LastOf(a)'
  BY DEF Placed, RequestsInPlace, RequestsFresh, InPlace, QueuePlaced, Blank, EntersAlone, LastOf

\* Nobody is about to tell the engine of its request to q.
NobodySends(q) == \A b \in Actors : ~(pc[b] = "acquire" /\ call[b].cmd = Renew /\ call[b].q = q)

LEMMA UnlockedQuiet ==
    ASSUME IInv, NEW q \in Queues, sync[q] = NoOne \/ q \in dead
    PROVE  NobodySends(q)
<1>1. LocksHeld /\ CallsSound /\ NotDestroyedInUse /\ NoOne \notin Actors
  BY Distinctness DEF IInv
<1>2. CASE sync[q] = NoOne
  BY <1>1, <1>2 DEF LocksHeld, Sending, NobodySends
<1>3. CASE q \in dead
  BY <1>1, <1>3 DEF NotDestroyedInUse, NobodySends
<1>. QED
  BY <1>2, <1>3

(* The request at the head of a queue ends.                                *)
LEMMA HeadEnds ==
    ASSUME IInv, NEW q \in Queues, NEW d \in Dirs, requests[q][d] # <<>>, NobodySends(q),
           requests' = [requests EXCEPT ![q][d] = Tail(@)],
           NEW how, how # "no", End(Head(requests[q][d]), how),
           UNCHANGED <<made, pc, call>>,
           \A r \in Requests : r <= made =>
              request'[r].q = request[r].q /\ request'[r].kind = request[r].kind
    PROVE  Placed'
<1>1. /\ TypeOK /\ Placed /\ LocksHeld /\ done \in [Requests -> Statuses \cup {"no"}]
      /\ requests \in Waiting /\ made \in 0 .. MaxRequests
  BY TypeParts DEF IInv, Placed, ReqsTyped, QueuesTyped
<1>. DEFINE s == requests[q][d]
            h == Head(s)
            t == Tail(s)
<1>2. s \in Seq(Requests) /\ s # <<>>
  BY <1>1 DEF Waiting
<1>3. /\ t \in Seq(Requests) /\ h \in Requests /\ h \in ToSet(s)
      /\ ToSet(s) = ToSet(t) \cup {h} /\ ToSet(s) \subseteq Requests
      /\ IsInjective(s) => IsInjective(t) /\ h \notin ToSet(t)
      /\ t # <<>> => Last(t) = Last(s)
  BY <1>2, TailFacts, SeqFacts
<1>4. /\ requests'[q][d] = t
      /\ \A x \in Queues, e \in Dirs : x # q \/ e # d => requests'[x][e] = requests[x][e]
  BY <1>1 DEF Waiting
<1>5. done'[h] = how /\ \A r \in Requests : r # h => done'[r] = done[r]
  BY <1>1, <1>3 DEF End
<1>. HIDE DEF s, h, t
<1>6. /\ \A r \in Requests : InPlace(r) /\ Blank(r)
      /\ \A x \in Queues, e \in Dirs : QueuePlaced(x, e)
      /\ \A a \in Actors : EntersAlone(a) /\ LastOf(a)
  BY <1>1, PlacedParts
<1>7. /\ IsInjective(s) /\ h <= made /\ request[h].q = q /\ DirOf(request[h].kind) = d
      /\ ~Entering(h)
  BY <1>3, <1>6 DEF QueuePlaced, s
<1>8. \A r \in Requests : Entering(r)' <=> Entering(r)
  BY DEF Entering
<1>9. \A r \in Requests : r <= made => DirOf(request'[r].kind) = DirOf(request[r].kind)
  BY DEF DirOf
<1>10. ASSUME NEW r \in Requests
       PROVE  InPlace(r)' /\ Blank(r)'
  <2>1. Blank(r)'
    BY <1>5, <1>6, <1>7 DEF Blank
  <2>2. ASSUME r <= made, done'[r] = "no"
        PROVE  Entering(r)' \/ r \in ToSet(requests'[request'[r].q][DirOf(request'[r].kind)])
    <3>1. r # h /\ done[r] = "no"
      BY <1>5, <2>2
    <3>2. Entering(r) \/ r \in ToSet(requests[request[r].q][DirOf(request[r].kind)])
      BY <1>6, <2>2, <3>1 DEF InPlace
    <3>3. request[r].q \in Queues /\ DirOf(request[r].kind) \in Dirs
      BY <1>1, <1>6, <2>2, StateFacts DEF Blank
    <3>4. CASE request[r].q = q /\ DirOf(request[r].kind) = d
      BY <1>3, <1>4, <1>8, <1>9, <2>2, <3>1, <3>2, <3>4 DEF s
    <3>5. CASE request[r].q # q \/ DirOf(request[r].kind) # d
      BY <1>4, <1>8, <1>9, <2>2, <3>2, <3>3, <3>5
    <3>. QED
      BY <3>4, <3>5
  <2>. QED
    BY <2>1, <2>2 DEF InPlace
<1>11. ASSUME NEW x \in Queues, NEW e \in Dirs
       PROVE  QueuePlaced(x, e)'
  <2>1. QueuePlaced(x, e) /\ ToSet(requests[x][e]) \subseteq Requests
    <3>1. requests[x][e] \in Seq(Requests)
      BY <1>1 DEF Waiting
    <3>. QED
      BY <1>6, <3>1, SeqFacts
  <2>2. IsInjective(requests'[x][e])
    BY <1>3, <1>4, <1>7, <2>1 DEF QueuePlaced
  <2>3. ASSUME NEW r \in ToSet(requests'[x][e])
        PROVE  r \in ToSet(requests[x][e]) /\ r # h
    <3>1. CASE x = q /\ e = d
      BY <1>3, <1>4, <1>7, <2>3, <3>1 DEF s
    <3>2. CASE x # q \/ e # d
      BY <1>4, <1>7, <2>1, <2>3, <3>2 DEF QueuePlaced
    <3>. QED
      BY <3>1, <3>2
  <2>4. ASSUME NEW r \in ToSet(requests'[x][e])
        PROVE  /\ r <= made' /\ request'[r].q = x /\ DirOf(request'[r].kind) = e
               /\ done'[r] = "no" /\ ~Entering(r)'
    <3>1. r \in ToSet(requests[x][e]) /\ r # h /\ r \in Requests
      BY <2>1, <2>3, <2>4
    <3>2. r <= made /\ request[r].q = x /\ DirOf(request[r].kind) = e /\ done[r] = "no"
          /\ ~Entering(r)
      BY <2>1, <3>1 DEF QueuePlaced
    <3>. QED
      BY <1>5, <1>8, <1>9, <3>1, <3>2
  <2>. QED
    BY <2>2, <2>4 DEF QueuePlaced
<1>12. ASSUME NEW a \in Actors
       PROVE  EntersAlone(a)' /\ LastOf(a)'
  <2>1. EntersAlone(a)'
    <3>1. pc[a] = "lock" => call[a].r \in Requests /\ call[a].r # h
      BY <1>1, <1>7, NamedQueues DEF Entering
    <3>. QED
      BY <1>5, <1>6, <3>1 DEF EntersAlone
  <2>2. ASSUME pc[a] = "acquire", call[a].cmd = Renew
        PROVE  LastOf(a)'
    <3>1. /\ call[a].q \in Queues /\ call[a].r \in Requests /\ call[a].r <= made
          /\ DirOf(request[call[a].r].kind) \in Dirs
      BY <2>2, LastSent
    <3>2. call[a].q # q
      BY <2>2 DEF NobodySends
    <3>. QED
      BY <1>4, <1>6, <1>9, <2>2, <3>1, <3>2 DEF LastOf
  <2>. QED
    BY <2>1, <2>2 DEF LastOf
<1>. QED
  BY <1>10, <1>11, <1>12, PlacedParts1

(* Nothing happens to any request.                                         *)
LEMMA NothingPlaced ==
    ASSUME IInv, UNCHANGED <<requests, made, done>>,
           \A b \in Actors : pc'[b] = "lock" => pc[b] = "lock" /\ call'[b] = call[b],
           \A b \in Actors : pc[b] = "lock" => pc'[b] = "lock",
           \A b \in Actors : pc'[b] = "acquire" /\ call'[b].cmd = Renew =>
                pc[b] = "acquire" /\ call'[b] = call[b],
           \A r \in Requests : r <= made =>
              request'[r].q = request[r].q /\ request'[r].kind = request[r].kind
    PROVE  Placed'
<1>1. TypeOK /\ Placed /\ requests \in Waiting
  BY TypeParts DEF IInv, Placed, QueuesTyped
<1>2. /\ \A r \in Requests : InPlace(r) /\ Blank(r)
      /\ \A x \in Queues, e \in Dirs : QueuePlaced(x, e)
      /\ \A a \in Actors : EntersAlone(a) /\ LastOf(a)
  BY <1>1, PlacedParts
<1>3. \A r \in Requests : Entering(r)' <=> Entering(r)
  BY DEF Entering
<1>4. \A r \in Requests : r <= made => DirOf(request'[r].kind) = DirOf(request[r].kind)
  BY DEF DirOf
<1>5. ASSUME NEW r \in Requests
      PROVE  InPlace(r)' /\ Blank(r)'
  BY <1>2, <1>3, <1>4 DEF InPlace, Blank
<1>6. ASSUME NEW x \in Queues, NEW e \in Dirs
      PROVE  QueuePlaced(x, e)'
  <2>1. ToSet(requests[x][e]) \subseteq Requests
    <3>1. requests[x][e] \in Seq(Requests)
      BY <1>1 DEF Waiting
    <3>. QED
      BY <3>1, SeqFacts
  <2>. QED
    BY <1>2, <1>3, <1>4, <2>1 DEF QueuePlaced
<1>7. ASSUME NEW a \in Actors
      PROVE  EntersAlone(a)' /\ LastOf(a)'
  <2>1. EntersAlone(a)'
    BY <1>2 DEF EntersAlone
  <2>2. ASSUME pc'[a] = "acquire", call'[a].cmd = Renew
        PROVE  LastOf(a)'
    <3>1. pc[a] = "acquire" /\ call'[a] = call[a] /\ call[a].cmd = Renew
      BY <2>2
    <3>2. call[a].r \in Requests /\ call[a].r <= made
      BY <3>1, LastSent
    <3>. QED
      BY <1>2, <1>4, <3>1, <3>2 DEF LastOf
  <2>. QED
    BY <2>1, <2>2 DEF LastOf
<1>. QED
  BY <1>5, <1>6, <1>7, PlacedParts1

(* A request is made: its call waits for the lock.                         *)
LEMMA EnterPlaces ==
    ASSUME IInv, NEW a \in Actors, NEW q \in Queues, NEW k \in Kinds, NEW n \in Int,
           pc[a] = "idle", Enter(a, q, k, n)
    PROVE  Placed'
<1>. DEFINE new == made + 1
<1>1. /\ TypeOK /\ Placed /\ CallsSound /\ requests \in Waiting /\ made \in 0 .. MaxRequests
      /\ request \in [Requests -> RequestSet] /\ new \in Requests /\ ~(new <= made)
      /\ MaxRequests \in Nat
      /\ made' = new /\ UNCHANGED <<requests, done>>
  BY TypeParts, Distinctness DEF IInv, Placed, QueuesTyped, ReqsTyped, Enter
<1>2. /\ \A r \in Requests : InPlace(r) /\ Blank(r)
      /\ \A x \in Queues, e \in Dirs : QueuePlaced(x, e)
      /\ \A b \in Actors : EntersAlone(b) /\ LastOf(b)
  BY <1>1, PlacedParts
<1>3. /\ \A r \in Requests : r # new => request'[r] = request[r]
      /\ request'[new].q = q
  BY <1>1 DEF Enter
<1>4. Moved(a, "lock", [cmd |-> Renew, q |-> q, r |-> new])
  BY <1>1, TypeParts, GoCallingMoves DEF Enter, ActorsTyped
<1>5. /\ pc'[a] = "lock" /\ call'[a].r = new /\ call'[a].cmd = Renew
      /\ \A x \in Actors \ {a} : pc'[x] = pc[x] /\ call'[x] = call[x]
  BY <1>4 DEF Moved
<1>6. \A b \in Actors : pc[b] = "lock" => call[b].r \in Requests /\ call[b].r <= made
  BY NamedQueues
<1>. HIDE DEF new
<1>7. \A r \in Requests : r <= made => r <= new /\ r # new
  BY <1>1 DEF new, Requests
<1>8. /\ \A r \in Requests : r <= new /\ r # new => r <= made
      /\ new <= new
  BY <1>1 DEF new, Requests
<1>9. \A r \in Requests : r # new => (Entering(r)' <=> Entering(r))
  BY <1>5 DEF Entering
<1>10. ASSUME NEW r \in Requests
       PROVE  InPlace(r)' /\ Blank(r)'
  <2>1. CASE r = new
    BY <1>1, <1>3, <1>5, <1>8, <2>1 DEF InPlace, Blank, Entering
  <2>2. CASE r # new
    BY <1>1, <1>2, <1>3, <1>7, <1>8, <1>9, <2>2 DEF InPlace, Blank
  <2>. QED
    BY <2>1, <2>2
<1>11. ASSUME NEW x \in Queues, NEW e \in Dirs
       PROVE  QueuePlaced(x, e)'
  <2>1. ToSet(requests[x][e]) \subseteq Requests
    <3>1. requests[x][e] \in Seq(Requests)
      BY <1>1 DEF Waiting
    <3>. QED
      BY <3>1, SeqFacts
  <2>. QED
    BY <1>1, <1>2, <1>3, <1>7, <1>9, <2>1 DEF QueuePlaced
<1>12. ASSUME NEW b \in Actors
       PROVE  EntersAlone(b)' /\ LastOf(b)'
  <2>1. CASE b = a
    <3>1. done'[new] = "no"
      BY <1>1, <1>2 DEF Blank
    <3>2. \A c \in Actors \ {a} : pc'[c] = "lock" => call'[c].r # new
      BY <1>5, <1>6, <1>7
    <3>. QED
      BY <1>5, <2>1, <3>1, <3>2 DEF EntersAlone, LastOf
  <2>2. CASE b # a
    <3>1. EntersAlone(b)'
      BY <1>1, <1>2, <1>5, <1>6, <1>7, <2>2 DEF EntersAlone
    <3>2. ASSUME pc[b] = "acquire", call[b].cmd = Renew
          PROVE  LastOf(b)'
      <4>1. call[b].r \in Requests /\ call[b].r # new
        BY <1>7, <3>2, LastSent
      <4>. QED
        BY <1>1, <1>2, <1>3, <1>5, <2>2, <3>2, <4>1 DEF LastOf
    <3>3. LastOf(b)'
      BY <1>5, <2>2, <3>2 DEF LastOf
    <3>. QED
      BY <3>1, <3>3
  <2>. QED
    BY <2>1, <2>2
<1>. QED
  BY <1>10, <1>11, <1>12, PlacedParts1

(* A request enters its queue, of which nobody else is to tell the engine. *)
LEMMA EnqueuePlaces ==
    ASSUME IInv, NEW a \in Actors, Enqueue(a)
    PROVE  Placed'
<1>. DEFINE q == call[a].q
            r == call[a].r
            d == DirOf(request[r].kind)
            s == requests[q][d]
            t == Append(s, r)
<1>1. /\ TypeOK /\ Placed /\ CallsSound /\ requests \in Waiting /\ made \in 0 .. MaxRequests
      /\ pc \in PcType /\ call \in [Actors -> Calls]
      /\ q \in Queues /\ r \in Requests /\ r <= made /\ d \in Dirs /\ request[r].q = q
      /\ NobodySends(q)
  <2>1. pc[a] = "lock" /\ sync[q] = NoOne
    BY DEF Enqueue
  <2>2. TypeOK /\ CallsSound /\ Placed
    BY DEF IInv, Placed
  <2>3. q \in Queues /\ r \in Requests /\ r <= made
    BY <2>1, NamedQueues
  <2>4. call[a].cmd = Renew /\ call[a] # NoCall
    BY <2>1, <2>2 DEF CallsSound
  <2>5. request[r].q = q
    BY <2>2, <2>4 DEF CallsSound
  <2>6. d \in Dirs
    BY <2>2, <2>3, StateFacts
  <2>. QED
    BY <2>1, <2>2, <2>3, <2>5, <2>6, UnlockedQuiet, TypeParts DEF QueuesTyped, ReqsTyped, ActorsTyped
<1>2. /\ \A x \in Requests : InPlace(x) /\ Blank(x)
      /\ \A x \in Queues, e \in Dirs : QueuePlaced(x, e)
      /\ \A b \in Actors : EntersAlone(b) /\ LastOf(b)
  BY <1>1, PlacedParts
<1>3. s \in Seq(Requests)
  BY <1>1 DEF Waiting
<1>4. /\ pc[a] = "lock" /\ Moved(a, "acquire", call[a])
      /\ UNCHANGED <<made, request, done>>
  BY <1>1, GotoMoves DEF Enqueue, reqVars
<1>5. /\ requests'[q][d] = t
      /\ \A x \in Queues, e \in Dirs : x # q \/ e # d => requests'[x][e] = requests[x][e]
  BY <1>1 DEF Enqueue, Waiting
<1>6. /\ done[r] = "no" /\ Entering(r)
      /\ \A b \in Actors \ {a} : pc[b] = "lock" => call[b].r # r
  BY <1>2, <1>4 DEF EntersAlone, Entering
<1>7. r \notin ToSet(s)
  BY <1>1, <1>2, <1>6 DEF QueuePlaced
<1>. HIDE DEF q, r, d, s
<1>8. /\ ToSet(t) = ToSet(s) \cup {r} /\ t # <<>> /\ Last(t) = r
      /\ IsInjective(s) => IsInjective(t)
  BY <1>1, <1>3, <1>7, AppendFacts
<1>9. /\ pc'[a] = "acquire" /\ call'[a] = call[a]
      /\ \A b \in Actors \ {a} : pc'[b] = pc[b] /\ call'[b] = call[b]
  BY <1>4 DEF Moved
<1>. HIDE DEF t
<1>10. \A x \in Requests : x # r => (Entering(x)' <=> Entering(x))
  BY <1>4, <1>9 DEF Entering, r
<1>11. \A x \in Requests : x = r => ~Entering(x)'
  BY <1>6, <1>9 DEF Entering, r
<1>12. ASSUME NEW x \in Requests
       PROVE  InPlace(x)' /\ Blank(x)'
  <2>1. Blank(x)'
    BY <1>2, <1>4 DEF Blank
  <2>2. ASSUME x <= made, done[x] = "no"
        PROVE  Entering(x)' \/ x \in ToSet(requests'[request[x].q][DirOf(request[x].kind)])
    <3>1. CASE x = r
      BY <1>1, <1>5, <1>8, <3>1 DEF d
    <3>2. CASE x # r
      <4>1. Entering(x) \/ x \in ToSet(requests[request[x].q][DirOf(request[x].kind)])
        BY <1>2, <2>2 DEF InPlace
      <4>2. request[x].q \in Queues /\ DirOf(request[x].kind) \in Dirs
        BY <1>1, <1>2, <2>2, StateFacts DEF Blank
      <4>3. CASE request[x].q = q /\ DirOf(request[x].kind) = d
        BY <1>5, <1>8, <1>10, <3>2, <4>1, <4>3 DEF s
      <4>4. CASE request[x].q # q \/ DirOf(request[x].kind) # d
        BY <1>5, <1>10, <3>2, <4>1, <4>2, <4>4
      <4>. QED
        BY <4>3, <4>4
    <3>. QED
      BY <3>1, <3>2
  <2>. QED
    BY <1>4, <2>1, <2>2 DEF InPlace
<1>13. ASSUME NEW x \in Queues, NEW e \in Dirs
       PROVE  QueuePlaced(x, e)'
  <2>1. QueuePlaced(x, e) /\ ToSet(requests[x][e]) \subseteq Requests
    <3>1. requests[x][e] \in Seq(Requests)
      BY <1>1 DEF Waiting
    <3>. QED
      BY <1>2, <3>1, SeqFacts
  <2>2. CASE x = q /\ e = d
    <3>1. requests'[x][e] = t /\ s = requests[x][e]
      BY <1>5, <2>2 DEF s
    <3>2. IsInjective(t)
      BY <1>8, <2>1, <3>1 DEF QueuePlaced
    <3>3. ASSUME NEW y \in ToSet(t)
          PROVE  /\ y <= made /\ request[y].q = q /\ DirOf(request[y].kind) = d
                 /\ done[y] = "no" /\ ~Entering(y)'
      <4>1. CASE y = r
        BY <1>1, <1>6, <1>11, <4>1 DEF d
      <4>2. CASE y # r
        <5>1. y \in ToSet(s) /\ y \in Requests
          BY <1>8, <2>1, <3>1, <3>3, <4>2
        <5>. QED
          BY <1>10, <2>1, <2>2, <3>1, <4>2, <5>1 DEF QueuePlaced
      <4>. QED
        BY <4>1, <4>2
    <3>. QED
      BY <1>4, <2>2, <3>1, <3>2, <3>3 DEF QueuePlaced
  <2>3. CASE x # q \/ e # d
    <3>1. r \notin ToSet(requests[x][e])
      BY <1>6, <2>1 DEF QueuePlaced
    <3>. QED
      BY <1>4, <1>5, <1>10, <2>1, <2>3, <3>1 DEF QueuePlaced
  <2>. QED
    BY <2>2, <2>3
<1>14. ASSUME NEW b \in Actors
       PROVE  EntersAlone(b)' /\ LastOf(b)'
  <2>1. EntersAlone(b)'
    BY <1>2, <1>4, <1>9 DEF EntersAlone
  <2>2. CASE b = a
    <3>1. requests'[q][d] # <<>> /\ Last(requests'[q][d]) = r
      BY <1>5, <1>8
    <3>. QED
      BY <1>4, <1>9, <2>1, <2>2, <3>1 DEF LastOf, q, r, d
  <2>3. ASSUME b # a, pc[b] = "acquire", call[b].cmd = Renew
        PROVE  LastOf(b)'
    <3>1. /\ call[b].q \in Queues /\ call[b].q # q
          /\ DirOf(request[call[b].r].kind) \in Dirs
      BY <1>1, <2>3, LastSent DEF NobodySends
    <3>. QED
      BY <1>2, <1>4, <1>5, <1>9, <2>3, <3>1 DEF LastOf
  <2>4. CASE b # a /\ ~(pc[b] = "acquire" /\ call[b].cmd = Renew)
    <3>1. pc'[b] = pc[b] /\ call'[b] = call[b]
      BY <1>9, <2>4
    <3>. QED
      BY <2>1, <2>4, <3>1 DEF LastOf
  <2>. QED
    BY <2>1, <2>2, <2>3, <2>4
<1>. QED
  BY <1>12, <1>13, <1>14, PlacedParts1

(* The connection is made, or refused, before the request is queued.       *)
LEMMA AtOncePlaces ==
    ASSUME IInv, NEW a \in Actors, ConnectAtOnce(a)
    PROVE  Placed'
<1>. DEFINE r == call[a].r
<1>1. /\ TypeOK /\ Placed /\ requests \in Waiting /\ done \in [Requests -> Statuses \cup {"no"}]
      /\ pc \in PcType /\ call \in [Actors -> Calls]
      /\ r \in Requests /\ r <= made /\ pc[a] = "lock"
  <2>1. pc[a] = "lock"
    BY DEF ConnectAtOnce
  <2>. QED
    BY <2>1, NamedQueues, TypeParts DEF IInv, Placed, QueuesTyped, ReqsTyped, ActorsTyped
<1>2. /\ \A x \in Requests : InPlace(x) /\ Blank(x)
      /\ \A x \in Queues, e \in Dirs : QueuePlaced(x, e)
      /\ \A b \in Actors : EntersAlone(b) /\ LastOf(b)
  BY <1>1, PlacedParts
<1>3. /\ Moved(a, "idle", NoCall) /\ UNCHANGED <<requests, made, request>>
      /\ End(r, "finished")
  BY <1>1, GotoMoves DEF ConnectAtOnce, queueVars
<1>4. /\ pc'[a] = "idle" /\ \A b \in Actors \ {a} : pc'[b] = pc[b] /\ call'[b] = call[b]
  BY <1>3 DEF Moved
<1>5. done'[r] = "finished" /\ \A x \in Requests : x # r => done'[x] = done[x]
  BY <1>1, <1>3 DEF End
<1>6. /\ Entering(r) /\ \A b \in Actors \ {a} : pc[b] = "lock" => call[b].r # r
  BY <1>1, <1>2 DEF EntersAlone, Entering
<1>7. \A x \in Requests : x # r => (Entering(x)' <=> Entering(x))
  BY <1>4 DEF Entering
<1>. HIDE DEF r
<1>8. ASSUME NEW x \in Requests
      PROVE  InPlace(x)' /\ Blank(x)'
  <2>1. CASE x = r
    BY <1>1, <1>2, <1>3, <1>5, <2>1 DEF InPlace, Blank
  <2>2. CASE x # r
    BY <1>2, <1>3, <1>5, <1>7, <2>2 DEF InPlace, Blank
  <2>. QED
    BY <2>1, <2>2
<1>9. ASSUME NEW x \in Queues, NEW e \in Dirs
      PROVE  QueuePlaced(x, e)'
  <2>1. ToSet(requests[x][e]) \subseteq Requests /\ QueuePlaced(x, e)
    <3>1. requests[x][e] \in Seq(Requests)
      BY <1>1 DEF Waiting
    <3>. QED
      BY <1>2, <3>1, SeqFacts
  <2>2. r \notin ToSet(requests[x][e])
    BY <1>6, <2>1 DEF QueuePlaced
  <2>. QED
    BY <1>3, <1>5, <1>7, <2>1, <2>2 DEF QueuePlaced
<1>10. ASSUME NEW b \in Actors
       PROVE  EntersAlone(b)' /\ LastOf(b)'
  <2>1. CASE b = a
    BY <1>4, <2>1 DEF EntersAlone, LastOf
  <2>2. CASE b # a
    <3>1. pc[b] = "lock" => call[b].r \in Requests /\ call[b].r # r
      BY <1>6, <2>2, NamedQueues
    <3>. QED
      BY <1>2, <1>3, <1>4, <1>5, <2>2, <3>1 DEF EntersAlone, LastOf
  <2>. QED
    BY <2>1, <2>2
<1>. QED
  BY <1>8, <1>9, <1>10, PlacedParts1

(* The engine has stopped: the last request of a queue is taken back.      *)
LEMMA RefusePlaces ==
    ASSUME IInv, NEW a \in Actors, Refuse(a), call[a].cmd = Renew
    PROVE  Placed'
<1>. DEFINE q == call[a].q
            r == call[a].r
            d == DirOf(request[r].kind)
            s == requests[q][d]
            t == Front(s)
<1>1. pc[a] = "acquire"
  BY DEF Refuse
<1>2. /\ TypeOK /\ Placed /\ LocksHeld /\ requests \in Waiting
      /\ done \in [Requests -> Statuses \cup {"no"}]
      /\ pc \in PcType /\ call \in [Actors -> Calls]
  BY TypeParts DEF IInv, Placed, QueuesTyped, ReqsTyped, ActorsTyped
<1>3. /\ q \in Queues /\ d \in Dirs /\ r \in Requests /\ r <= made
      /\ s \in Seq(Requests) /\ s # <<>> /\ Last(s) = r
  BY <1>1, LastSent
<1>4. /\ \A x \in Requests : InPlace(x) /\ Blank(x)
      /\ \A x \in Queues, e \in Dirs : QueuePlaced(x, e)
      /\ \A b \in Actors : EntersAlone(b) /\ LastOf(b)
  BY <1>2, PlacedParts
<1>5. /\ Moved(a, "idle", NoCall) /\ UNCHANGED <<made, request>>
      /\ End(r, "refused") /\ requests' = [requests EXCEPT ![q][d] = Front(@)]
  <2>1. "idle" # "drop" /\ Renew # Leave
    BY Distinctness
  <2>2. Goto(a, "idle")
    BY <2>1 DEF Refuse
  <2>. QED
    BY <1>2, <2>2, GotoMoves DEF Refuse
<1>6. /\ requests'[q][d] = t
      /\ \A x \in Queues, e \in Dirs : x # q \/ e # d => requests'[x][e] = requests[x][e]
  BY <1>2, <1>3, <1>5 DEF Waiting
<1>7. done'[r] = "refused" /\ \A x \in Requests : x # r => done'[x] = done[x]
  BY <1>2, <1>3, <1>5 DEF End
<1>8. /\ pc'[a] = "idle" /\ \A b \in Actors \ {a} : pc'[b] = pc[b] /\ call'[b] = call[b]
  BY <1>5 DEF Moved
<1>9. \A b \in Actors \ {a} : pc[b] = "acquire" /\ call[b].cmd = Renew => call[b].q # q
  BY <1>1, <1>2, <1>3 DEF LocksHeld, Sending
<1>. HIDE DEF q, r, d, s
<1>10. /\ ToSet(s) = ToSet(t) \cup {r} /\ r \in ToSet(s)
       /\ IsInjective(s) => IsInjective(t) /\ r \notin ToSet(t)
  BY <1>3, FrontFacts
<1>. HIDE DEF t
<1>11. QueuePlaced(q, d) /\ ~Entering(r) /\ IsInjective(s)
  BY <1>3, <1>4, <1>10 DEF QueuePlaced, s
<1>12. \A x \in Requests : Entering(x)' <=> Entering(x)
  BY <1>1, <1>8 DEF Entering
<1>13. ASSUME NEW x \in Requests
       PROVE  InPlace(x)' /\ Blank(x)'
  <2>1. Blank(x)'
    <3>1. CASE x = r
      BY <1>3, <1>4, <1>5, <3>1 DEF Blank
    <3>2. CASE x # r
      BY <1>4, <1>5, <1>7, <3>2 DEF Blank
    <3>. QED
      BY <3>1, <3>2
  <2>2. ASSUME x <= made, done'[x] = "no"
        PROVE  Entering(x)' \/ x \in ToSet(requests'[request[x].q][DirOf(request[x].kind)])
    <3>1. x # r /\ done[x] = "no"
      BY <1>7, <2>2
    <3>2. Entering(x) \/ x \in ToSet(requests[request[x].q][DirOf(request[x].kind)])
      BY <1>4, <2>2, <3>1 DEF InPlace
    <3>3. request[x].q \in Queues /\ DirOf(request[x].kind) \in Dirs
      BY <1>2, <1>4, <2>2, StateFacts DEF Blank
    <3>4. CASE request[x].q = q /\ DirOf(request[x].kind) = d
      BY <1>6, <1>10, <1>12, <3>1, <3>2, <3>4 DEF s
    <3>5. CASE request[x].q # q \/ DirOf(request[x].kind) # d
      BY <1>6, <1>12, <3>2, <3>3, <3>5
    <3>. QED
      BY <3>4, <3>5
  <2>. QED
    BY <1>5, <2>1, <2>2 DEF InPlace
<1>14. ASSUME NEW x \in Queues, NEW e \in Dirs
       PROVE  QueuePlaced(x, e)'
  <2>1. QueuePlaced(x, e) /\ ToSet(requests[x][e]) \subseteq Requests
    <3>1. requests[x][e] \in Seq(Requests)
      BY <1>2 DEF Waiting
    <3>. QED
      BY <1>4, <3>1, SeqFacts
  <2>2. /\ IsInjective(requests'[x][e])
        /\ \A y \in ToSet(requests'[x][e]) : y \in ToSet(requests[x][e]) /\ y # r
    <3>1. CASE x = q /\ e = d
      BY <1>6, <1>10, <1>11, <3>1 DEF s
    <3>2. CASE x # q \/ e # d
      <4>1. r \notin ToSet(requests[x][e])
        BY <1>10, <1>11, <2>1, <3>2 DEF QueuePlaced, s
      <4>. QED
        BY <1>6, <2>1, <3>2, <4>1 DEF QueuePlaced
    <3>. QED
      BY <3>1, <3>2
  <2>3. ASSUME NEW y \in ToSet(requests'[x][e])
        PROVE  /\ y <= made /\ request[y].q = x /\ DirOf(request[y].kind) = e
               /\ done'[y] = "no" /\ ~Entering(y)'
    <3>1. y \in ToSet(requests[x][e]) /\ y # r /\ y \in Requests
      BY <2>1, <2>2, <2>3
    <3>. QED
      BY <1>7, <1>12, <2>1, <3>1 DEF QueuePlaced
  <2>. QED
    BY <1>5, <2>2, <2>3 DEF QueuePlaced
<1>15. ASSUME NEW b \in Actors
       PROVE  EntersAlone(b)' /\ LastOf(b)'
  <2>1. CASE b = a
    BY <1>8, <2>1 DEF EntersAlone, LastOf
  <2>2. CASE b # a
    <3>1. pc[b] = "lock" => call[b].r \in Requests /\ call[b].r # r
      BY <1>11, NamedQueues DEF Entering
    <3>2. EntersAlone(b)'
      BY <1>4, <1>7, <1>8, <2>2, <3>1 DEF EntersAlone
    <3>3. ASSUME pc[b] = "acquire", call[b].cmd = Renew
          PROVE  LastOf(b)'
      <4>1. call[b].q \in Queues /\ call[b].q # q /\ DirOf(request[call[b].r].kind) \in Dirs
        BY <1>9, <2>2, <3>3, LastSent
      <4>. QED
        BY <1>4, <1>5, <1>6, <1>8, <2>2, <3>3, <4>1 DEF LastOf
    <3>4. LastOf(b)'
      BY <1>8, <2>2, <3>3 DEF LastOf
    <3>. QED
      BY <3>2, <3>4
  <2>. QED
    BY <2>1, <2>2
<1>. QED
  BY <1>13, <1>14, <1>15, PlacedParts1

(* The dispatcher and the destructors end requests at the heads of queues  *)
(* whose locks are free, or of queues that are destroyed.                  *)
HeadGone(q, d, how) ==
    /\ requests[q][d] # <<>>
    /\ requests' = [requests EXCEPT ![q][d] = Tail(@)]
    /\ End(Head(requests[q][d]), how)
    /\ sync[q] = NoOne \/ q \in dead
    /\ how = "cancelled" => q \in dead \/ (q \in Listeners /\ cancels[q] > 0)
HeadsGo == \E q \in Queues, d \in Dirs, how \in {"finished", "cancelled"} : HeadGone(q, d, how)

LEMMA TopDead ==
    ASSUME IInv, NEW a \in Actors, Destroying(a)
    PROVE  Last(stack[a]) \in dead /\ Last(stack[a]) \in Queues
<1>1. stack[a] \in Seq(Queues \cup {"handler"}) /\ dead \subseteq Queues /\ DestructorsOfDead
  BY DEF IInv, TypeOK
<1>2. stack[a] # <<>> /\ Last(stack[a]) # "handler"
  BY DEF Destroying
<1>3. Len(stack[a]) \in 1 .. Len(stack[a]) /\ Last(stack[a]) = stack[a][Len(stack[a])]
  BY <1>1, <1>2, SeqFacts DEF Last
<1>. QED
  BY <1>1, <1>2, <1>3 DEF DestructorsOfDead

LEMMA DispatchingEnds ==
    ASSUME IInv, Dispatching \/ \E a \in Actors : Runs(a)
    PROVE  UNCHANGED <<requests, done>> \/ HeadsGo
<1>1. ASSUME NEW a \in Actors, Runs(a)
      PROVE  UNCHANGED <<requests, done>> \/ HeadsGo
  <2>1. CASE HandlerReturns(a)
    BY <2>1 DEF HandlerReturns, queueVars, reqVars
  <2>2. CASE DestroyNext(a)
    <3>. DEFINE q == Last(stack[a])
                d == IF requests[q]["read"] # <<>> THEN "read" ELSE "write"
    <3>1. q \in Queues /\ q \in dead /\ d \in Dirs
      BY <2>2, TopDead DEF DestroyNext, Dirs
    <3>2. UNCHANGED <<requests, done>> \/ HeadGone(q, d, "cancelled")
      BY <2>2, <3>1 DEF DestroyNext, HeadGone
    <3>. QED
      BY <3>1, <3>2 DEF HeadsGo
  <2>. QED
    BY <1>1, <2>1, <2>2 DEF Runs
<1>2. ASSUME NEW d \in Dirs, Finish(d)
      PROVE  HeadsGo
  <2>1. item.q \in Queues
    BY <1>2, NamedQueues DEF Finish, Ready, InLoop
  <2>2. HeadGone(item.q, d, "finished")
    BY <1>2 DEF Finish, Ready, HeadOf, Pop, HeadGone
  <2>. QED
    BY <2>1, <2>2 DEF HeadsGo
<1>3. ASSUME NEW d \in Dirs, Accept(d)
      PROVE  UNCHANGED <<requests, done>> \/ HeadsGo
  <2>1. item.q \in Queues
    BY <1>3, NamedQueues DEF Accept, Ready, InLoop
  <2>2. UNCHANGED <<requests, done>> \/ HeadGone(item.q, d, "finished")
    BY <1>3 DEF Accept, Ready, HeadOf, Pop, HeadGone
  <2>. QED
    BY <2>1, <2>2 DEF HeadsGo
<1>4. ASSUME CancelNext
      PROVE  UNCHANGED <<requests, done>> \/ HeadsGo
  <2>. DEFINE d == IF requests[item.q]["read"] # <<>> THEN "read" ELSE "write"
  <2>1. item.q \in Queues /\ item.q \in Listeners /\ cancels[item.q] > 0 /\ d \in Dirs
    BY <1>4, NamedQueues DEF CancelNext, InLoop, IInv, LoopSound, Dirs
  <2>2. UNCHANGED <<requests, done>> \/ HeadGone(item.q, d, "cancelled")
    BY <1>4, <2>1 DEF CancelNext, HeadOf, Pop, HeadGone
  <2>. QED
    BY <2>1, <2>2 DEF HeadsGo
<1>5. ASSUME Dispatching, ~CancelNext, \A d \in Dirs : ~Finish(d) /\ ~Accept(d)
      PROVE  UNCHANGED <<requests, done>>
  BY <1>5 DEF Dispatching, Loop, PollEvent, PollCommand, NothingDone, PeekRead,
         Revise, ThenWrite, RemoveMarked, ReadCommand, NoCommand, Renewed, Forget,
         Exit, reqVars, queueVars
<1>. QED
  BY <1>1, <1>2, <1>3, <1>4, <1>5

LEMMA PlacedStep ==
    ASSUME IInv, Next
    PROVE  RequestsInPlace' /\ RequestsFresh'
<1>0. /\ TypeOK /\ pc \in PcType /\ call \in [Actors -> Calls] /\ Renew # Leave /\ Renew # Cancel
      /\ \A r \in Requests : r <= made =>
              request'[r].q = request[r].q /\ request'[r].kind = request[r].kind
  BY TypeParts, Distinctness, RequestsKeep DEF IInv, ActorsTyped
<1>1. ASSUME UNCHANGED <<requests, made, done, pc, call>>
      PROVE  Placed'
  BY <1>0, <1>1, NothingPlaced
<1>2. ASSUME NEW a \in Actors, NEW l, NEW c, Moved(a, l, c), pc[a] # "lock", l # "lock",
             l = "acquire" => c.cmd # Renew, UNCHANGED <<requests, made, done>>
      PROVE  Placed'
  BY <1>0, <1>2, NothingPlaced DEF Moved
<1>3. ASSUME NEW a \in Actors, Program(a)
      PROVE  Placed'
  <2>1. ASSUME NEW q \in Queues, NEW k \in Kinds, NEW n \in Limits \cup {0}, pc[a] = "idle",
               Enter(a, q, k, n)
        PROVE  Placed'
    <3>1. n \in Int
      BY BoundsNatural
    <3>. QED
      BY <2>1, <3>1, EnterPlaces
  <2>2. ASSUME NEW q \in Queues, BindA(a, q)
        PROVE  Placed'
    BY <1>1, <2>2 DEF BindA, reqVars, actorVars
  <2>3. ASSUME NEW q \in Queues, ConnectA(a, q)
        PROVE  Placed'
    <3>1. "connect" \in Kinds
      BY DEF Kinds
    <3>. QED
      BY <2>1, <2>3, <3>1 DEF ConnectA, CanCall
  <2>4. ASSUME NEW q \in Queues, Close(a, q) \/ Destroy(a, q)
        PROVE  Placed'
    <3>1. ASSUME NEW c, c.cmd # Renew, GoCalling(a, "acquire", c), pc[a] = "idle",
                 UNCHANGED <<requests, made, done>>
          PROVE  Placed'
      <4>1. Moved(a, "acquire", c)
        BY <1>0, <3>1, GoCallingMoves
      <4>. QED
        BY <1>2, <3>1, <4>1
    <3>2. CASE Close(a, q)
      BY <1>0, <3>1, <3>2 DEF Close, CanCall, queueVars
    <3>3. CASE Destroy(a, q)
      BY <1>0, <3>1, <3>3 DEF Destroy, CanCall, reqVars
    <3>. QED
      BY <2>4, <3>2, <3>3
  <2>5. ASSUME StopDispatch(a)
        PROVE  Placed'
    <3>1. Moved(a, "join", call[a]) /\ pc[a] = "idle" /\ UNCHANGED <<requests, made, done>>
      BY <1>0, <2>5, GotoMoves DEF StopDispatch, CanCall, queueVars, reqVars
    <3>. QED
      BY <1>2, <3>1
  <2>6. ASSUME NEW q \in Queues, NEW k \in Kinds, NEW n \in Limits \cup {0}, Request(a, q, k, n)
        PROVE  Placed'
    BY <2>1, <2>6 DEF Request, CanCall
  <2>. QED
    BY <1>3, <2>2, <2>3, <2>4, <2>5, <2>6 DEF Program
<1>4. ASSUME NEW a \in Actors, InCall(a)
      PROVE  Placed'
  <2>1. ASSUME NEW l \in {"write", "retain", "drop", "idle"}, Goto(a, l), pc[a] # "lock",
               UNCHANGED <<requests, made, done>>
        PROVE  Placed'
    <3>1. Moved(a, l, IF l = "idle" THEN NoCall ELSE call[a])
      BY <1>0, <2>1, GotoMoves
    <3>. QED
      BY <1>2, <2>1, <3>1
  <2>2. CASE Acquire(a)
    BY <2>1, <2>2 DEF Acquire, queueVars, reqVars
  <2>3. CASE Write(a)
    BY <2>1, <2>3 DEF Write, queueVars, reqVars
  <2>4. CASE Retain(a)
    BY <2>1, <2>4 DEF Retain, queueVars, reqVars
  <2>5. CASE Drop(a)
    BY <2>1, <2>5 DEF Drop, reqVars
  <2>6. CASE Join(a)
    BY <2>1, <2>6 DEF Join, queueVars, reqVars
  <2>7. CASE Refuse(a) /\ call[a].cmd # Renew
    BY <2>1, <2>7 DEF Refuse
  <2>. QED
    BY <1>4, <2>2, <2>3, <2>4, <2>5, <2>6, <2>7, EnqueuePlaces, AtOncePlaces, RefusePlaces
       DEF InCall
<1>5. ASSUME Dispatching \/ \E a \in Actors : Runs(a)
      PROVE  Placed'
  <2>1. UNCHANGED <<made, pc, call>>
    BY <1>5, DispatchingLeaves, RunsLeaves
  <2>2. ASSUME HeadsGo
        PROVE  Placed'
    <3>1. PICK q \in Queues, d \in Dirs, how \in {"finished", "cancelled"} : HeadGone(q, d, how)
      BY <2>2 DEF HeadsGo
    <3>2. NobodySends(q) /\ how # "no"
      BY <3>1, UnlockedQuiet DEF HeadGone
    <3>3. /\ requests[q][d] # <<>> /\ requests' = [requests EXCEPT ![q][d] = Tail(@)]
          /\ End(Head(requests[q][d]), how)
      BY <3>1 DEF HeadGone
    <3>. QED
      BY <1>0, <2>1, <3>2, <3>3, HeadEnds
  <2>. QED
    BY <1>1, <1>5, <2>1, <2>2, DispatchingEnds
<1>6. Placed'
  BY <1>3, <1>4, <1>5 DEF Next, Dispatching
<1>. QED
  BY <1>6 DEF Placed

----------------------------------------------------------------------------
(* Who holds a queue after a step.                                         *)

Counted(q) == ref[q] = Holders(q)

LEMMA SameHolders ==
    ASSUME NEW q, q \in owned' <=> q \in owned, Leaving(q)' <=> Leaving(q),
           InPipe(q)' = InPipe(q), Executing(q)' <=> Executing(q),
           q \in clients' <=> q \in clients, Owing(q)' <=> Owing(q)
    PROVE  Holders(q)' = Holders(q)
<1>1. /\ Count(q \in owned)' = Count(q \in owned) /\ Count(Leaving(q))' = Count(Leaving(q))
      /\ Count(Executing(q))' = Count(Executing(q))
      /\ Count(q \in clients)' = Count(q \in clients) /\ Count(Owing(q))' = Count(Owing(q))
  BY DEF Count
<1>. QED
  BY <1>1 DEF Holders

\* A step that moves one actor, and neither the pipe nor the dispatcher.
LEMMA MovedHolders ==
    ASSUME NEW a \in Actors, NEW l, NEW c, Moved(a, l, c), NEW q
    PROVE  /\ (call[a].cmd = Leave /\ call[a].q = q <=> c.cmd = Leave /\ c.q = q)
                => (Leaving(q)' <=> Leaving(q))
           /\ (pc[a] = "retain" /\ call[a].q = q <=> l = "retain" /\ c.q = q)
                => (Owing(q)' <=> Owing(q))
<1>1. /\ pc'[a] = l /\ call'[a] = c
      /\ \A x \in Actors \ {a} : pc'[x] = pc[x] /\ call'[x] = call[x]
  BY DEF Moved
<1>. QED
  BY <1>1 DEF Leaving, Owing

\* A queue is made, with its object.
LEMMA AdoptCounts ==
    ASSUME IInv, NEW q \in Queues, q \notin dead, NEW x \in Queues, Unborn(x), Adopt(x),
           InPipe(q)' = InPipe(q), Executing(q)' <=> Executing(q), q \in clients' <=> q \in clients,
           Owing(q)' <=> Owing(q), Leaving(q)' <=> Leaving(q)
    PROVE  Counted(q)'
<1>1. Counted(q) /\ ref \in [Queues -> Int]
  BY TypeParts DEF IInv, QueuesTyped, ReferencesCounted, Counted
<1>2. CASE q = x
  <2>1. q \notin owned /\ q \in owned' /\ ref[q] = 0 /\ ref'[q] = 1
    BY <1>1, <1>2, UnbornUnused DEF Adopt, Unborn
  <2>2. /\ Count(q \in owned) = 0 /\ Count(q \in owned)' = 1
        /\ Count(Leaving(q))' = Count(Leaving(q)) /\ Count(Executing(q))' = Count(Executing(q))
        /\ Count(q \in clients)' = Count(q \in clients) /\ Count(Owing(q))' = Count(Owing(q))
    BY <2>1 DEF Count
  <2>3. /\ InPipe(q) = 0 /\ Count(Leaving(q)) = 0 /\ Count(Executing(q)) = 0
        /\ Count(q \in clients) = 0 /\ Count(Owing(q)) = 0
    BY <1>2, UnbornUnused DEF Count
  <2>. QED
    BY <2>1, <2>2, <2>3 DEF Counted, Holders
<1>3. CASE q # x
  <2>1. Holders(q)' = Holders(q)
    BY <1>3, SameHolders DEF Adopt
  <2>. QED
    BY <1>1, <1>3, <2>1 DEF Counted, Adopt
<1>. QED
  BY <1>2, <1>3

LEMMA ProgramCounts ==
    ASSUME IInv, NEW a \in Actors, Program(a), NEW q \in Queues, q \notin dead
    PROVE  Counted(q)'
<1>1. /\ TypeOK /\ CallsSound /\ Counted(q) /\ pc \in PcType /\ call \in [Actors -> Calls]
      /\ ref \in [Queues -> Int] /\ NoOne \notin Queues /\ NoCall.q = NoOne
      /\ Renew # Leave /\ Cancel # Leave
  BY TypeParts, Distinctness DEF IInv, ActorsTyped, QueuesTyped, ReferencesCounted, Counted, NoCall
<1>2. pc[a] = "idle" /\ UNCHANGED <<pipe, loopVars>>
  BY ProgramMoves
<1>3. call[a] = NoCall
  BY <1>1, <1>2 DEF CallsSound
<1>4. /\ InPipe(q)' = InPipe(q) /\ (Executing(q)' <=> Executing(q))
      /\ (q \in clients' <=> q \in clients)
  BY <1>2 DEF InPipe, Executing, Working, loopVars
<1>5. Owing(q)' <=> Owing(q)
  <2>1. CASE UNCHANGED <<pc, call>>
    BY <2>1 DEF Owing
  <2>2. ASSUME NEW l \in {"lock", "acquire", "join"}, NEW c, Moved(a, l, c)
        PROVE  Owing(q)' <=> Owing(q)
    BY <1>2, <2>2, MovedHolders
  <2>. QED
    BY <2>1, <2>2, ProgramMoves
<1>6. ASSUME NEW x \in Queues, Destroy(a, x)
      PROVE  Counted(q)'
  <2>. DEFINE c == [cmd |-> Leave, q |-> x, r |-> 0]
  <2>1. /\ x \in owned /\ owned' = owned \ {x} /\ ref' = ref /\ GoCalling(a, "acquire", c)
        /\ \A b \in Actors : call[b].q # x
    BY <1>6 DEF Destroy
  <2>2. Moved(a, "acquire", c)
    BY <1>1, <2>1, GoCallingMoves
  <2>3. c.cmd = Leave /\ c.q = x
    OBVIOUS
  <2>. HIDE DEF c
  <2>4. CASE q = x
    <3>1. Leaving(q)' /\ ~Leaving(q)
      BY <2>1, <2>2, <2>3, <2>4 DEF Leaving, Moved
    <3>2. q \in owned /\ q \notin owned'
      BY <2>1, <2>4
    <3>3. /\ Count(q \in owned) = 1 /\ Count(q \in owned)' = 0
          /\ Count(Leaving(q)) = 0 /\ Count(Leaving(q))' = 1
          /\ Count(Executing(q))' = Count(Executing(q))
          /\ Count(q \in clients)' = Count(q \in clients) /\ Count(Owing(q))' = Count(Owing(q))
      BY <1>4, <1>5, <3>1, <3>2 DEF Count
    <3>4. Holders(q)' = Holders(q)
      BY <1>4, <3>3 DEF Holders
    <3>. QED
      BY <1>1, <2>1, <3>4 DEF Counted
  <2>5. CASE q # x
    <3>1. Leaving(q)' <=> Leaving(q)
      BY <1>1, <1>3, <2>2, <2>3, <2>5, MovedHolders
    <3>2. Holders(q)' = Holders(q)
      BY <1>4, <1>5, <2>1, <2>5, <3>1, SameHolders
    <3>. QED
      BY <1>1, <2>1, <3>2 DEF Counted
  <2>. QED
    BY <2>4, <2>5
<1>7. ASSUME \A x \in Queues : ~Destroy(a, x)
      PROVE  Counted(q)'
  <2>1. Leaving(q)' <=> Leaving(q)
    <3>1. ASSUME UNCHANGED <<pc, call>>
          PROVE  Leaving(q)' <=> Leaving(q)
      BY <3>1 DEF Leaving
    <3>2. ASSUME NEW l, NEW c, GoCalling(a, l, c), c.cmd # Leave
          PROVE  Leaving(q)' <=> Leaving(q)
      <4>1. Moved(a, l, c)
        BY <1>1, <3>2, GoCallingMoves
      <4>. QED
        BY <1>1, <1>3, <3>2, <4>1, MovedHolders
    <3>3. ASSUME NEW x, NEW k, NEW n, Enter(a, x, k, n)
          PROVE  Leaving(q)' <=> Leaving(q)
      BY <1>1, <3>2, <3>3 DEF Enter
    <3>4. ASSUME NEW x, BindA(a, x) \/ ConnectA(a, x) \/ Close(a, x)
          PROVE  Leaving(q)' <=> Leaving(q)
      BY <1>1, <3>1, <3>2, <3>3, <3>4 DEF BindA, ConnectA, Close, actorVars
    <3>5. ASSUME StopDispatch(a)
          PROVE  Leaving(q)' <=> Leaving(q)
      <4>1. Moved(a, "join", call[a])
        BY <1>1, <3>5, GotoMoves DEF StopDispatch
      <4>. QED
        BY <1>1, <1>3, <4>1, MovedHolders
    <3>. QED
      BY <1>7, <3>3, <3>4, <3>5 DEF Program, Request
  <2>2. CASE UNCHANGED <<ref, owned>>
    <3>1. Holders(q)' = Holders(q)
      BY <1>4, <1>5, <2>1, <2>2, SameHolders
    <3>. QED
      BY <1>1, <2>2, <3>1 DEF Counted
  <2>3. ASSUME NEW x \in Queues, Unborn(x), Adopt(x)
        PROVE  Counted(q)'
    BY <1>4, <1>5, <2>1, <2>3, AdoptCounts
  <2>4. UNCHANGED <<ref, owned>> \/ \E x \in Queues : Unborn(x) /\ Adopt(x)
    BY <1>7 DEF Program, BindA, ConnectA, Close, Request, StopDispatch, queueVars
  <2>. QED
    BY <2>2, <2>3, <2>4
<1>. QED
  BY <1>6, <1>7

LEMMA InCallCounts ==
    ASSUME IInv, NEW a \in Actors, InCall(a), NEW q \in Queues, q \notin dead
    PROVE  Counted(q)'
<1>. DEFINE x == call[a].q
<1>1. /\ TypeOK /\ CallsSound /\ LocksHeld /\ Counted(q) /\ pc \in PcType
      /\ call \in [Actors -> Calls] /\ pipe \in Seq(Commands)
      /\ ref \in [Queues -> Int] /\ NoOne \notin Queues /\ NoCall.q = NoOne /\ NoOne \notin Actors
      /\ Renew # Leave /\ Cancel # Leave
  BY TypeParts, Distinctness DEF IInv, ActorsTyped, QueuesTyped, PipeTyped, ReferencesCounted,
                                 Counted, NoCall
<1>2. UNCHANGED <<owned, loopVars>>
  BY InCallMoves
<1>3. /\ (q \in owned' <=> q \in owned) /\ (Executing(q)' <=> Executing(q))
      /\ (q \in clients' <=> q \in clients)
  BY <1>2 DEF Executing, Working, loopVars
<1>4. \A b \in Actors : pc[b] \in {"write", "retain"} /\ pc[a] \in {"write", "retain"} => b = a
  BY <1>1 DEF LocksHeld
<1>5. ASSUME NEW l \in {"acquire", "write", "retain", "drop", "idle"}, Goto(a, l),
             l # "retain" /\ pc[a] # "retain", l = "idle" => call[a].cmd # Leave \/ call[a].q = NoOne,
             ref' = ref, pipe' = pipe
      PROVE  Counted(q)'
  <2>1. Moved(a, l, IF l = "idle" THEN NoCall ELSE call[a])
    BY <1>1, <1>5, GotoMoves
  <2>2. Leaving(q)' <=> Leaving(q)
    BY <1>1, <1>5, <2>1, MovedHolders
  <2>3. Owing(q)' <=> Owing(q)
    BY <1>1, <1>5, <2>1, MovedHolders
  <2>4. InPipe(q)' = InPipe(q)
    BY <1>5 DEF InPipe
  <2>5. Holders(q)' = Holders(q)
    BY <1>3, <2>2, <2>3, <2>4, SameHolders
  <2>. QED
    BY <1>1, <1>5, <2>5 DEF Counted
<1>6. CASE Enqueue(a)
  BY <1>5, <1>6 DEF Enqueue, pipeVars
<1>7. CASE ConnectAtOnce(a)
  <2>1. call[a].cmd # Leave
    BY <1>1, <1>7 DEF ConnectAtOnce, CallsSound
  <2>. QED
    BY <1>5, <1>7, <2>1 DEF ConnectAtOnce, pipeVars, queueVars
<1>8. CASE Acquire(a)
  BY <1>5, <1>8 DEF Acquire, queueVars
<1>9. CASE Refuse(a)
  <2>1. /\ Goto(a, IF call[a].cmd = Leave THEN "drop" ELSE "idle") /\ pc[a] = "acquire"
        /\ ref' = ref /\ pipe' = pipe
    BY <1>9 DEF Refuse, pipeVars
  <2>2. CASE call[a].cmd = Leave
    BY <1>5, <2>1, <2>2
  <2>3. CASE call[a].cmd # Leave
    BY <1>5, <2>1, <2>3
  <2>. QED
    BY <2>2, <2>3
<1>10. CASE Join(a)
  <2>1. call[a].q = NoOne
    BY <1>1, <1>10 DEF Join, CallsSound
  <2>. QED
    BY <1>5, <1>10, <2>1 DEF Join, queueVars, pipeVars
<1>11. CASE Write(a)
  <2>. DEFINE c == [cmd |-> call[a].cmd, q |-> x]
  <2>1. /\ pc[a] = "write" /\ Goto(a, "retain") /\ ref' = ref /\ pipe' = Append(pipe, c)
    BY <1>11 DEF Write, queueVars
  <2>2. Moved(a, "retain", call[a])
    BY <1>1, <2>1, GotoMoves
  <2>3. c \in Commands /\ c.q = x
    <3>1. call[a] \in CallTo
      BY <2>1, NamedQueues
    <3>. QED
      BY <3>1 DEF CallTo, Commands
  <2>. HIDE DEF c
  <2>4. InPipe(q)' = InPipe(q) + Count(x = q) /\ InPipe(q) \in Nat
    BY <1>1, <2>1, <2>3, CommandsAppend, CommandsType DEF InPipe
  <2>5. Leaving(q)' <=> Leaving(q)
    BY <1>1, <2>2, MovedHolders
  <2>6. CASE q = x
    <3>1. ~Owing(q) /\ Owing(q)'
      BY <1>4, <2>1, <2>2, <2>6 DEF Owing, Moved
    <3>2. /\ Count(q \in owned)' = Count(q \in owned) /\ Count(Leaving(q))' = Count(Leaving(q))
          /\ Count(Executing(q))' = Count(Executing(q))
          /\ Count(q \in clients)' = Count(q \in clients)
          /\ Count(Owing(q)) = 0 /\ Count(Owing(q))' = 1 /\ Count(x = q) = 1
      BY <1>3, <2>5, <2>6, <3>1 DEF Count
    <3>3. /\ Count(q \in owned) \in Int /\ Count(Leaving(q)) \in Int
          /\ Count(Executing(q)) \in Int /\ Count(q \in clients) \in Int
      BY DEF Count
    <3>4. Holders(q)' = Holders(q)
      BY <2>4, <3>2, <3>3 DEF Holders
    <3>. QED
      BY <1>1, <2>1, <3>4 DEF Counted
  <2>7. CASE q # x
    <3>1. Owing(q)' <=> Owing(q)
      BY <2>1, <2>2, <2>7, MovedHolders
    <3>2. InPipe(q)' = InPipe(q)
      BY <2>4, <2>7 DEF Count
    <3>3. Holders(q)' = Holders(q)
      BY <1>3, <2>5, <3>1, <3>2, SameHolders
    <3>. QED
      BY <1>1, <2>1, <3>3 DEF Counted
  <2>. QED
    BY <2>6, <2>7
<1>12. CASE Retain(a)
  <2>. DEFINE l == IF call[a].cmd = Leave THEN "drop" ELSE "idle"
              c == IF l = "idle" THEN NoCall ELSE call[a]
  <2>1. /\ pc[a] = "retain" /\ Goto(a, l) /\ ref' = [ref EXCEPT ![x] = @ + 1] /\ pipe' = pipe
        /\ x \in Queues
    BY <1>12, NamedQueues DEF Retain
  <2>2. Moved(a, l, c)
    BY <1>1, <2>1, GotoMoves
  <2>3. l # "retain" /\ (call[a].cmd = Leave /\ call[a].q = q <=> c.cmd = Leave /\ c.q = q)
    BY <1>1
  <2>. HIDE DEF l, c
  <2>4. Leaving(q)' <=> Leaving(q)
    BY <2>2, <2>3, MovedHolders
  <2>5. InPipe(q)' = InPipe(q)
    BY <2>1 DEF InPipe
  <2>6. CASE q = x
    <3>1. Owing(q) /\ ~Owing(q)'
      BY <1>4, <2>1, <2>2, <2>3, <2>6 DEF Owing, Moved
    <3>2. /\ Count(q \in owned)' = Count(q \in owned) /\ Count(Leaving(q))' = Count(Leaving(q))
          /\ Count(Executing(q))' = Count(Executing(q))
          /\ Count(q \in clients)' = Count(q \in clients)
          /\ Count(Owing(q)) = 1 /\ Count(Owing(q))' = 0
      BY <1>3, <2>4, <3>1 DEF Count
    <3>3. /\ Count(q \in owned) \in Int /\ Count(Leaving(q)) \in Int /\ InPipe(q) \in Nat
          /\ Count(Executing(q)) \in Int /\ Count(q \in clients) \in Int
      BY <1>1, CommandsType DEF Count, InPipe
    <3>4. ref'[q] = ref[q] + 1
      BY <1>1, <2>1, <2>6
    <3>5. Holders(q)' = Holders(q) + 1
      BY <2>5, <3>2, <3>3 DEF Holders
    <3>. QED
      BY <1>1, <3>4, <3>5 DEF Counted
  <2>7. CASE q # x
    <3>1. Owing(q)' <=> Owing(q)
      BY <2>1, <2>2, <2>3, <2>7, MovedHolders
    <3>2. Holders(q)' = Holders(q)
      BY <1>3, <2>4, <2>5, <3>1, SameHolders
    <3>. QED
      BY <1>1, <2>1, <2>7, <3>2 DEF Counted
  <2>. QED
    BY <2>6, <2>7
<1>13. CASE Drop(a)
  <2>1. /\ pc[a] = "drop" /\ Goto(a, "idle") /\ ref' = [ref EXCEPT ![x] = @ - 1] /\ pipe' = pipe
        /\ x \in Queues
    BY <1>13, NamedQueues DEF Drop, Release, pipeVars
  <2>2. Moved(a, "idle", NoCall)
    BY <1>1, <2>1, GotoMoves
  <2>3. call[a].cmd = Leave /\ \A b \in Actors \ {a} : call[b].q # x
    <3>1. call[a] # NoCall /\ call[a].cmd = Leave
      BY <1>1, <2>1 DEF CallsSound
    <3>. QED
      BY <1>1, <3>1 DEF CallsSound
  <2>4. InPipe(q)' = InPipe(q) /\ (Owing(q)' <=> Owing(q))
    BY <2>1, <2>2, MovedHolders DEF InPipe
  <2>5. CASE q = x
    <3>1. Leaving(q) /\ ~Leaving(q)'
      BY <1>1, <2>2, <2>3, <2>5 DEF Leaving, Moved
    <3>2. /\ Count(q \in owned)' = Count(q \in owned) /\ Count(Owing(q))' = Count(Owing(q))
          /\ Count(Executing(q))' = Count(Executing(q))
          /\ Count(q \in clients)' = Count(q \in clients)
          /\ Count(Leaving(q)) = 1 /\ Count(Leaving(q))' = 0
      BY <1>3, <2>4, <3>1 DEF Count
    <3>3. /\ Count(q \in owned) \in Int /\ Count(Owing(q)) \in Int /\ InPipe(q) \in Nat
          /\ Count(Executing(q)) \in Int /\ Count(q \in clients) \in Int
      BY <1>1, CommandsType DEF Count, InPipe
    <3>4. ref'[q] = ref[q] - 1
      BY <1>1, <2>1, <2>5
    <3>5. Holders(q)' = Holders(q) - 1
      BY <2>4, <3>2, <3>3 DEF Holders
    <3>. QED
      BY <1>1, <3>4, <3>5 DEF Counted
  <2>6. CASE q # x
    <3>1. Leaving(q)' <=> Leaving(q)
      BY <1>1, <2>2, <2>6, MovedHolders
    <3>2. Holders(q)' = Holders(q)
      BY <1>3, <2>4, <3>1, SameHolders
    <3>. QED
      BY <1>1, <2>1, <2>6, <3>2 DEF Counted
  <2>. QED
    BY <2>5, <2>6
<1>. QED
  BY <1>6, <1>7, <1>8, <1>9, <1>10, <1>11, <1>12, <1>13 DEF InCall

LEMMA DispatchingCounts ==
    ASSUME IInv, Dispatching, NEW q \in Queues, q \notin dead
    PROVE  Counted(q)'
<1>. DEFINE x == item.q
            o == Count(q \in owned)
            l == Count(Leaving(q))
            n == InPipe(q)
            e == Count(Executing(q))
            c == Count(q \in clients)
            w == Count(Owing(q))
<1>1. /\ TypeOK /\ LoopSound /\ Counted(q) /\ pipe \in Seq(Commands)
      /\ ref \in [Queues -> Int] /\ NoOne \notin Queues /\ NoItem.q = NoOne
      /\ Renew # Leave /\ Cancel # Leave
  BY TypeParts, Distinctness DEF IInv, QueuesTyped, PipeTyped, ReferencesCounted, Counted, NoItem
<1>2. (Leaving(q)' <=> Leaving(q)) /\ (Owing(q)' <=> Owing(q))
  BY DispatchingLeaves DEF Leaving, Owing
<1>3. l' = l /\ w' = w
  BY <1>2 DEF Count
<1>4. /\ o \in {0, 1} /\ l \in {0, 1} /\ e \in {0, 1} /\ c \in {0, 1} /\ w \in {0, 1} /\ n \in Nat
  BY <1>1, CommandsType DEF Count, InPipe
<1>5. Holders(q) = o + l + n + e + c - w /\ Holders(q)' = o' + l' + n' + e' + c' - w'
  BY DEF Holders
<1>6. ASSUME UNCHANGED <<ref, owned, pipe, clients>>, Executing(q)' <=> Executing(q)
      PROVE  Counted(q)'
  <2>1. InPipe(q)' = InPipe(q)
    BY <1>6 DEF InPipe
  <2>2. Holders(q)' = Holders(q)
    BY <1>2, <1>6, <2>1, SameHolders
  <2>. QED
    BY <1>1, <1>6, <2>2 DEF Counted
<1>7. ASSUME NEW y \in clients, clients' = clients \ {y}, UNCHANGED <<owned, pipe>>,
             ref' = [ref EXCEPT ![y] = @ - 1], Executing(q)' <=> Executing(q)
      PROVE  Counted(q)'
  <2>1. InPipe(q)' = InPipe(q)
    BY <1>7 DEF InPipe
  <2>2. CASE q = y
    <3>1. c = 1 /\ c' = 0 /\ o' = o /\ e' = e
      BY <1>7, <2>2 DEF Count
    <3>2. ref'[q] = ref[q] - 1
      BY <1>1, <1>7, <2>2
    <3>. HIDE DEF o, l, n, e, c, w
    <3>. QED
      BY <1>1, <1>3, <1>4, <1>5, <2>1, <3>1, <3>2 DEF Counted, n
  <2>3. CASE q # y
    <3>1. Holders(q)' = Holders(q)
      BY <1>2, <1>7, <2>1, <2>3, SameHolders
    <3>. QED
      BY <1>1, <1>7, <2>3, <3>1 DEF Counted
  <2>. QED
    BY <2>2, <2>3
<1>8. ASSUME NEW y \in Queues, NEW d \in Dirs, PollEvent(y, d)
      PROVE  Counted(q)'
  BY <1>6, <1>8 DEF PollEvent, InLoop, Executing, Working, queueVars, pipeVars
<1>9. CASE PollCommand \/ Revise \/ NoCommand \/ ThenWrite
  BY <1>6, <1>9 DEF PollCommand, Revise, NoCommand, ThenWrite, InLoop, Executing, Working,
                    queueVars, pipeVars
<1>10. ASSUME NEW d \in Dirs, NothingDone(d) \/ Finish(d)
       PROVE  Counted(q)'
  BY <1>6, <1>10 DEF NothingDone, Finish, Ready, InLoop, Executing, Working, queueVars, pipeVars
<1>11. ASSUME NEW d \in Dirs, Accept(d)
       PROVE  Counted(q)'
  <2>1. /\ at = "handle" /\ at' \in {"peekRead", "round"} /\ UNCHANGED <<pipe, clients>>
        /\ (\E y \in Channels : Unborn(y) /\ Adopt(y)) \/ UNCHANGED <<ref, owned>>
    BY <1>11 DEF Accept, Ready, InLoop, pipeVars
  <2>2. Executing(q)' <=> Executing(q)
    BY <2>1 DEF Executing, Working
  <2>3. InPipe(q)' = InPipe(q)
    BY <2>1 DEF InPipe
  <2>4. Channels \subseteq Queues
    BY Distinctness
  <2>5. ASSUME NEW y \in Channels, Unborn(y), Adopt(y)
        PROVE  Counted(q)'
    BY <1>2, <2>1, <2>2, <2>3, <2>4, <2>5, AdoptCounts
  <2>. QED
    BY <1>6, <2>1, <2>2, <2>5
<1>12. CASE PeekRead("peekRead", "peekWrite") \/ PeekRead("renewRead", "renewWrite")
  BY <1>6, <1>12 DEF PeekRead, InLoop, Executing, Working, queueVars, pipeVars
<1>13. CASE CancelNext
  <2>1. at = "cancel" /\ at' \in {"cancel", "leave"} /\ UNCHANGED <<item, ref, owned, pipe, clients>>
    BY <1>13 DEF CancelNext, InLoop, pipeVars
  <2>. QED
    BY <1>6, <2>1 DEF Executing, Working
<1>14. CASE RemoveMarked
  <2>1. /\ at = "round" /\ at' = "command" /\ UNCHANGED <<owned, pipe>>
        /\ \/ clients' = clients \ {x} /\ ref' = [ref EXCEPT ![x] = @ - 1]
           \/ UNCHANGED <<clients, ref>>
    BY <1>14 DEF RemoveMarked, InLoop, pipeVars, Release
  <2>2. x \in clients
    BY <1>1, <2>1 DEF LoopSound
  <2>3. Executing(q)' <=> Executing(q)
    BY <2>1 DEF Executing, Working
  <2>. QED
    BY <1>6, <1>7, <2>1, <2>2, <2>3
<1>15. CASE Exit
  <2>1. /\ at = "exit" /\ at' \in {"exit", "ended"} /\ UNCHANGED <<owned, pipe>>
        /\ \/ \E y \in clients : clients' = clients \ {y} /\ ref' = [ref EXCEPT ![y] = @ - 1]
           \/ UNCHANGED <<clients, ref>>
    BY <1>15 DEF Exit, InLoop, pipeVars, Release
  <2>2. Executing(q)' <=> Executing(q)
    BY <2>1 DEF Executing, Working
  <2>. QED
    BY <1>6, <1>7, <2>1, <2>2
<1>16. CASE ReadCommand
  <2>. DEFINE y == Head(pipe).q
  <2>1. /\ at = "command" /\ pipe # <<>> /\ pipe' = Tail(pipe) /\ item'.q = y
        /\ UNCHANGED <<owned, clients, ref>>
        /\ at' = CASE Head(pipe).cmd = Renew -> "renewRead"
                   [] Head(pipe).cmd = Cancel -> "cancel"
                   [] Head(pipe).cmd = Leave -> "leave"
    BY <1>16 DEF ReadCommand, InLoop, queueVars
  <2>2. at' \in {"renewRead", "cancel", "leave"}
    BY <1>1, <2>1, HeadCommand, Distinctness
  <2>3. n = n' + Count(y = q) /\ n' \in Nat
    <3>1. pipe' \in Seq(Commands)
      BY <1>1, <2>1, HeadCommand
    <3>. QED
      BY <1>1, <2>1, <3>1, CommandsTail, CommandsType DEF InPipe
  <2>4. ~Executing(q) /\ (Executing(q)' <=> y = q)
    BY <2>1, <2>2 DEF Executing, Working
  <2>5. e = 0 /\ e' = Count(y = q) /\ o' = o /\ c' = c
    BY <2>1, <2>4 DEF Count
  <2>6. Count(y = q) \in Nat
    BY DEF Count
  <2>. HIDE DEF o, l, n, e, c, w, y
  <2>7. Holders(q)' = Holders(q)
    BY <1>3, <1>4, <1>5, <2>3, <2>5, <2>6
  <2>. QED
    BY <1>1, <2>1, <2>7 DEF Counted
<1>17. CASE Renewed
  <2>1. at = "renewWrite" /\ UNCHANGED <<owned, pipe>>
    BY <1>17 DEF Renewed, InLoop, pipeVars
  <2>2. n' = n /\ o' = o /\ x \in Queues
    BY <1>1, <2>1 DEF InPipe, LoopSound, Working
  <2>3. CASE at' = "leave" /\ UNCHANGED <<clients, item, ref>>
    BY <1>6, <2>1, <2>3 DEF Executing, Working
  <2>4. CASE /\ clients' = clients \cup {x} /\ item' = NoItem /\ at' = "poll"
             /\ IF x \in clients THEN ref' = [ref EXCEPT ![x] = @ - 1] ELSE ref' = ref
    <3>1. ~Executing(q)' /\ (Executing(q) <=> q = x)
      BY <2>1, <2>4 DEF Executing, Working
    <3>2. CASE q = x /\ x \in clients
      <4>1. e = 1 /\ e' = 0 /\ c = 1 /\ c' = 1 /\ ref'[q] = ref[q] - 1
        BY <1>1, <2>2, <2>4, <3>1, <3>2 DEF Count
      <4>. HIDE DEF o, l, n, e, c, w
      <4>. QED
        BY <1>1, <1>3, <1>4, <1>5, <2>2, <4>1 DEF Counted
    <3>3. CASE q = x /\ x \notin clients
      <4>1. e = 1 /\ e' = 0 /\ c = 0 /\ c' = 1 /\ ref'[q] = ref[q]
        BY <1>1, <2>2, <2>4, <3>1, <3>3 DEF Count
      <4>. HIDE DEF o, l, n, e, c, w
      <4>. QED
        BY <1>1, <1>3, <1>4, <1>5, <2>2, <4>1 DEF Counted
    <3>4. CASE q # x
      <4>1. e = 0 /\ e' = 0 /\ c' = c /\ ref'[q] = ref[q]
        BY <1>1, <2>2, <2>4, <3>1, <3>4 DEF Count
      <4>. HIDE DEF o, l, n, e, c, w
      <4>. QED
        BY <1>1, <1>3, <1>4, <1>5, <2>2, <4>1 DEF Counted
    <3>. QED
      BY <3>2, <3>3, <3>4
  <2>. QED
    BY <1>17, <2>3, <2>4 DEF Renewed, Release
<1>18. CASE Forget
  <2>1. /\ at = "leave" /\ at' = "poll" /\ UNCHANGED <<owned, pipe>> /\ item' = NoItem
        /\ clients' = clients \ {x} /\ ref' = [ref EXCEPT ![x] = @ - (IF x \in clients THEN 2 ELSE 1)]
    BY <1>18 DEF Forget, InLoop, pipeVars, Release
  <2>2. n' = n /\ o' = o /\ x \in Queues
    BY <1>1, <2>1 DEF InPipe, LoopSound, Working
  <2>3. ~Executing(q)' /\ (Executing(q) <=> q = x)
    BY <2>1 DEF Executing, Working
  <2>4. CASE q = x
    <3>1. e = 1 /\ e' = 0 /\ c' = 0 /\ ref'[q] = ref[q] - (1 + c)
      <4>1. ref'[q] = ref[q] - (IF q \in clients THEN 2 ELSE 1)
        BY <1>1, <2>1, <2>2, <2>4
      <4>. QED
        BY <2>1, <2>3, <2>4, <4>1 DEF Count
    <3>2. ref[q] \in Int
      BY <1>1
    <3>. HIDE DEF o, l, n, e, c, w
    <3>. QED
      BY <1>1, <1>3, <1>4, <1>5, <2>2, <3>1, <3>2 DEF Counted
  <2>5. CASE q # x
    <3>1. e = 0 /\ e' = 0 /\ c' = c /\ ref'[q] = ref[q]
      BY <1>1, <2>1, <2>2, <2>3, <2>5 DEF Count
    <3>. HIDE DEF o, l, n, e, c, w
    <3>. QED
      BY <1>1, <1>3, <1>4, <1>5, <2>2, <3>1 DEF Counted
  <2>. QED
    BY <2>4, <2>5
<1>. QED
  BY <1>8, <1>9, <1>10, <1>11, <1>12, <1>13, <1>14, <1>15, <1>16, <1>17, <1>18
     DEF Dispatching, Loop

(* What a step does to the destructors: a queue is destroyed when its last  *)
(* reference goes, and only then, and its destructor runs.                  *)
RefMove(q) == /\ q \in dead => q \in dead'
              /\ q \in dead' /\ q \notin dead => ref'[q] <= 0
              /\ ref'[q] = 0 /\ ref[q] # 0 => q \in dead'
StackMove(b) ==
    \/ stack'[b] = stack[b]
    \/ stack[b] # <<>> /\ stack'[b] = Front(stack[b])
    \/ \E t \in Queues \cup {"handler"} : /\ t = "handler" \/ t \in dead'
                                          /\ stack'[b] = Append(stack[b], t)

LEMMA ReleaseMoves ==
    ASSUME stack \in StackType, ref \in [Queues -> Int], NEW a \in Actors, NEW y \in Queues,
           NEW n \in Nat, Release(a, y, n)
    PROVE  (\A q \in Queues : RefMove(q)) /\ (\A b \in Actors : StackMove(b))
<1>1. ref'[y] = ref[y] - n /\ ref[y] \in Int /\ \A q \in Queues : q # y => ref'[q] = ref[q]
  BY DEF Release
<1>2. CASE ref[y] <= n
  <2>1. dead' = dead \cup {y} /\ Push(a, y)
    BY <1>2 DEF Release
  <2>2. \A q \in Queues : RefMove(q)
    BY <1>1, <1>2, <2>1 DEF RefMove
  <2>3. stack'[a] = Append(stack[a], y) /\ \A b \in Actors : b # a => stack'[b] = stack[b]
    BY <2>1 DEF Push, StackType
  <2>4. \A b \in Actors : StackMove(b)
    BY <2>1, <2>3 DEF StackMove
  <2>. QED
    BY <2>2, <2>4
<1>3. CASE ~(ref[y] <= n)
  <2>1. dead' = dead /\ stack' = stack
    BY <1>3 DEF Release
  <2>. QED
    BY <1>1, <1>3, <2>1 DEF RefMove, StackMove
<1>. QED
  BY <1>2, <1>3

LEMMA StepMoves ==
    ASSUME IInv, Next
    PROVE  /\ \A q \in Queues : q \notin dead => RefMove(q)
           /\ dead \subseteq dead'
           /\ \A b \in Actors : StackMove(b)
<1>. DEFINE Claim == /\ \A q \in Queues : q \notin dead => RefMove(q)
                     /\ dead \subseteq dead'
                     /\ \A b \in Actors : StackMove(b)
<1>1. /\ TypeOK /\ stack \in StackType /\ ref \in [Queues -> Int] /\ dead \subseteq Queues
      /\ Dispatcher \in Actors /\ CallsSound /\ LoopSound /\ clients \subseteq Queues
  BY TypeParts, Distinctness DEF IInv, ActorsTyped, QueuesTyped, LoopTyped, StackType
<1>2. \A q \in Queues : q \notin dead => ref[q] \in Nat
  <2>1. TypeOK /\ CallsSound /\ CommandOwed /\ ReferencesCounted
    BY DEF IInv
  <2>. QED
    BY <2>1, HoldersFacts DEF HoldersKnown, ReferencesCounted
<1>3. ASSUME UNCHANGED <<ref, dead, stack>>
      PROVE  Claim
  BY <1>3 DEF RefMove, StackMove
<1>4. ASSUME NEW x \in Queues, Adopt(x), UNCHANGED <<dead, stack>>
      PROVE  Claim
  <2>1. ref'[x] = 1 /\ \A q \in Queues : q # x => ref'[q] = ref[q]
    BY <1>1, <1>4 DEF Adopt
  <2>. QED
    BY <1>4, <2>1 DEF RefMove, StackMove
<1>5. ASSUME NEW a \in Actors, Push(a, "handler"), dead' = dead
      PROVE  \A b \in Actors : StackMove(b)
  <2>1. stack'[a] = Append(stack[a], "handler") /\ \A b \in Actors : b # a => stack'[b] = stack[b]
    BY <1>1, <1>5 DEF Push, StackType
  <2>. QED
    BY <2>1 DEF StackMove
<1>6. ASSUME NEW a \in Actors, NEW y \in Queues, NEW n \in {1, 2}, Release(a, y, n)
      PROVE  Claim
  <2>1. dead \subseteq dead'
    BY <1>6 DEF Release
  <2>. QED
    BY <1>1, <1>6, <2>1, ReleaseMoves
<1>7. ASSUME NEW a \in Actors, Program(a)
      PROVE  Claim
  <2>1. UNCHANGED <<dead, stack>>
    BY <1>7, ProgramMoves
  <2>2. ref' = ref \/ \E x \in Queues : Adopt(x)
    BY <1>7 DEF Program, BindA, ConnectA, Close, Destroy, Request, StopDispatch, queueVars
  <2>. QED
    BY <1>3, <1>4, <2>1, <2>2
<1>8. ASSUME NEW a \in Actors, Runs(a)
      PROVE  Claim
  <2>1. UNCHANGED <<ref, dead>>
    BY <1>8, RunsLeaves
  <2>2. CASE Push(a, "handler")
    BY <1>5, <2>1, <2>2 DEF RefMove
  <2>3. CASE stack[a] # <<>> /\ stack' = [stack EXCEPT ![a] = Front(@)]
    <3>1. stack'[a] = Front(stack[a]) /\ \A b \in Actors : b # a => stack'[b] = stack[b]
      BY <1>1, <2>3 DEF StackType
    <3>. QED
      BY <2>1, <2>3, <3>1 DEF RefMove, StackMove
  <2>4. Push(a, "handler") \/ (stack[a] # <<>> /\ stack' = [stack EXCEPT ![a] = Front(@)])
    BY <1>8 DEF Runs, HandlerReturns, DestroyNext, Destroying
  <2>. QED
    BY <2>2, <2>3, <2>4
<1>9. ASSUME NEW a \in Actors, InCall(a)
      PROVE  Claim
  <2>1. CASE Enqueue(a) \/ Acquire(a) \/ Write(a) \/ Join(a)
    BY <1>3, <2>1 DEF Enqueue, Acquire, Write, Join, queueVars
  <2>2. CASE ConnectAtOnce(a)
    BY <1>5, <2>2 DEF ConnectAtOnce, queueVars, RefMove
  <2>3. CASE Refuse(a)
    <3>1. UNCHANGED <<ref, dead>> /\ (stack' = stack \/ Push(a, "handler"))
      BY <2>3 DEF Refuse
    <3>. QED
      BY <1>3, <1>5, <3>1 DEF RefMove
  <2>4. CASE Retain(a)
    <3>. DEFINE y == call[a].q
    <3>1. ref' = [ref EXCEPT ![y] = @ + 1] /\ UNCHANGED <<dead, stack>> /\ y \in Queues
      BY <2>4, NamedQueues DEF Retain
    <3>2. y \notin dead
      BY <3>1, KnownAlive
    <3>. HIDE DEF y
    <3>3. ref[y] \in Nat /\ ref'[y] = ref[y] + 1 /\ \A q \in Queues : q # y => ref'[q] = ref[q]
      BY <1>1, <1>2, <3>1, <3>2
    <3>. QED
      BY <3>1, <3>3 DEF RefMove, StackMove
  <2>5. CASE Drop(a)
    <3>1. call[a].q \in Queues /\ Release(a, call[a].q, 1)
      BY <2>5, NamedQueues DEF Drop
    <3>. QED
      BY <1>6, <3>1
  <2>. QED
    BY <1>9, <2>1, <2>2, <2>3, <2>4, <2>5 DEF InCall
<1>10. ASSUME Dispatching
       PROVE  Claim
  <2>1. ASSUME NEW d \in Dirs, Finish(d) \/ Accept(d)
        PROVE  Claim
    <3>1. /\ dead' = dead /\ Push(Dispatcher, "handler")
          /\ ref' = ref \/ \E x \in Channels : Adopt(x)
      BY <2>1 DEF Finish, Accept
    <3>2. \A b \in Actors : StackMove(b)
      BY <1>1, <1>5, <3>1
    <3>3. ASSUME NEW x \in Queues, Adopt(x)
          PROVE  \A q \in Queues : RefMove(q)
      <4>1. ref'[x] = 1 /\ \A q \in Queues : q # x => ref'[q] = ref[q]
        BY <1>1, <3>3 DEF Adopt
      <4>. QED
        BY <3>1, <4>1 DEF RefMove
    <3>4. ref' = ref => \A q \in Queues : RefMove(q)
      BY <3>1 DEF RefMove
    <3>. QED
      BY <3>1, <3>2, <3>3, <3>4, Distinctness
  <2>2. CASE CancelNext
    <3>1. UNCHANGED <<ref, dead>> /\ (stack' = stack \/ Push(Dispatcher, "handler"))
      BY <2>2 DEF CancelNext
    <3>. QED
      BY <1>1, <1>3, <1>5, <3>1 DEF RefMove
  <2>3. CASE RemoveMarked
    <3>1. item.q \in Queues
      BY <2>3, NamedQueues DEF RemoveMarked, InLoop
    <3>2. Release(Dispatcher, item.q, 1) \/ UNCHANGED <<ref, dead, stack>>
      BY <2>3 DEF RemoveMarked
    <3>. QED
      BY <1>1, <1>3, <1>6, <3>1, <3>2
  <2>4. CASE Renewed
    <3>1. item.q \in Queues
      BY <2>4, NamedQueues DEF Renewed, InLoop
    <3>2. Release(Dispatcher, item.q, 1) \/ UNCHANGED <<ref, dead, stack>>
      BY <2>4 DEF Renewed
    <3>. QED
      BY <1>1, <1>3, <1>6, <3>1, <3>2
  <2>5. CASE Forget
    <3>1. item.q \in Queues
      BY <2>5, NamedQueues DEF Forget, InLoop
    <3>2. Release(Dispatcher, item.q, 1) \/ Release(Dispatcher, item.q, 2)
      BY <2>5 DEF Forget
    <3>. QED
      BY <1>1, <1>6, <3>1, <3>2
  <2>6. CASE Exit
    <3>1. (\E y \in clients : Release(Dispatcher, y, 1)) \/ UNCHANGED <<ref, dead, stack>>
      BY <2>6 DEF Exit
    <3>. QED
      BY <1>1, <1>3, <1>6, <3>1
  <2>7. ASSUME ~CancelNext, ~RemoveMarked, ~Renewed, ~Forget, ~Exit,
               \A d \in Dirs : ~Finish(d) /\ ~Accept(d)
        PROVE  UNCHANGED <<ref, dead, stack>>
    BY <1>10, <2>7 DEF Dispatching, Loop, PollEvent, PollCommand, NothingDone, PeekRead, Revise,
         ThenWrite, ReadCommand, NoCommand, queueVars, actorVars
  <2>. QED
    BY <1>3, <2>1, <2>2, <2>3, <2>4, <2>5, <2>6, <2>7
<1>. QED
  BY <1>7, <1>8, <1>9, <1>10 DEF Next, Dispatching

(* The counts of a step, and what they say of the queues destroyed in it.  *)
LEMMA CountsStep ==
    ASSUME IInv, Next
    PROVE  \A q \in Queues : q \notin dead => Counted(q)'
<1>. SUFFICES ASSUME NEW q \in Queues, q \notin dead
              PROVE  Counted(q)'
  OBVIOUS
<1>1. ASSUME NEW a \in Actors, Runs(a)
      PROVE  Counted(q)'
  <2>1. UNCHANGED <<ref, owned, pipe, clients, at, item, pc, call>>
    BY <1>1, RunsLeaves DEF pipeVars, loopVars
  <2>2. Holders(q)' = Holders(q)
    BY <2>1, SameHolders DEF Leaving, InPipe, Executing, Working, Owing
  <2>3. Counted(q)
    BY DEF IInv, ReferencesCounted, Counted
  <2>. QED
    BY <2>1, <2>2, <2>3 DEF Counted
<1>. QED
  BY <1>1, ProgramCounts, InCallCounts, DispatchingCounts DEF Next, Dispatching

LEMMA ReferencesStep ==
    ASSUME IInv, Next
    PROVE  ReferencesCounted'
BY CountsStep, StepMoves DEF ReferencesCounted, Counted

\* A queue that is destroyed stays unnamed.
LEMMA DeadUnnamed ==
    ASSUME IInv, Next, NEW q \in dead
    PROVE  /\ q \notin owned' \cup clients' /\ InPipe(q)' = 0 /\ ~Executing(q)'
           /\ \A a \in Actors : call'[a].q # q
<1>1. /\ TypeOK /\ CallsSound /\ q \in Queues /\ pipe \in Seq(Commands) /\ NoOne \notin Queues
      /\ NoCall.q = NoOne /\ pc \in PcType /\ call \in [Actors -> Calls]
  BY TypeParts, Distinctness DEF IInv, QueuesTyped, PipeTyped, NoCall, ActorsTyped
<1>2. /\ q \notin owned \cup clients /\ InPipe(q) = 0 /\ ~Executing(q)
      /\ \A a \in Actors : call[a].q # q
  BY DEF IInv, NotDestroyedInUse
<1>3. q \notin owned'
  BY <1>2, OwnedStep DEF Unborn
<1>4. \A i \in 1 .. Len(pipe) : pipe[i].q # q
  BY <1>1, <1>2, CommandsType DEF InPipe
<1>5. ASSUME NEW a \in Actors, Program(a)
      PROVE  /\ q \notin clients' /\ InPipe(q)' = 0 /\ ~Executing(q)'
             /\ \A b \in Actors : call'[b].q # q
  <2>1. q \notin clients' /\ InPipe(q)' = 0 /\ ~Executing(q)'
    BY <1>2, <1>5, ProgramMoves DEF InPipe, Executing, Working, loopVars
  <2>2. \A b \in Actors : call'[b].q # q
    <3>1. CASE call'[a].q \in owned \cup owned'
      BY <1>2, <1>3, <1>5, <3>1, ProgramMoves DEF Moved
    <3>2. CASE Moved(a, "join", NoCall) \/ UNCHANGED <<pc, call>>
      BY <1>1, <1>2, <3>2 DEF Moved
    <3>3. CASE \E x \in Queues : Destroy(a, x)
      <4>1. PICK x \in Queues : Destroy(a, x)
        BY <3>3
      <4>2. x \in owned /\ GoCalling(a, "acquire", [cmd |-> Leave, q |-> x, r |-> 0])
        BY <4>1 DEF Destroy
      <4>3. Moved(a, "acquire", [cmd |-> Leave, q |-> x, r |-> 0])
        BY <1>1, <4>2, GoCallingMoves
      <4>. QED
        BY <1>2, <4>2, <4>3 DEF Moved
    <3>4. ASSUME \A x \in Queues : ~Destroy(a, x)
          PROVE  \/ call'[a].q \in owned \cup owned'
                 \/ Moved(a, "join", NoCall) \/ UNCHANGED <<pc, call>>
      <4>1. ASSUME NEW l, NEW c, GoCalling(a, l, c), c.q \in owned \cup owned'
            PROVE  call'[a].q \in owned \cup owned'
        <5>1. Moved(a, l, c)
          BY <1>1, <4>1, GoCallingMoves
        <5>. QED
          BY <4>1, <5>1 DEF Moved
      <4>2. ASSUME NEW x \in Queues, NEW k, NEW n, Enter(a, x, k, n), x \in owned'
            PROVE  call'[a].q \in owned \cup owned'
        BY <4>1, <4>2 DEF Enter
      <4>3. ASSUME NEW x \in Queues, Close(a, x)
            PROVE  call'[a].q \in owned \cup owned'
        BY <4>1, <4>3 DEF Close
      <4>4. StopDispatch(a) => Moved(a, "join", NoCall)
        <5>1. StopDispatch(a) => pc[a] = "idle" /\ Goto(a, "join")
          BY DEF StopDispatch, CanCall
        <5>2. pc[a] = "idle" => call[a] = NoCall
          BY <1>1 DEF CallsSound
        <5>3. Goto(a, "join") => Moved(a, "join", call[a])
          BY <1>1, GotoMoves
        <5>. QED
          BY <5>1, <5>2, <5>3
      <4>. QED
        BY <1>5, <3>4, <4>2, <4>3, <4>4
           DEF Program, BindA, ConnectA, Request, Adopt, actorVars
    <3>. QED
      BY <3>1, <3>2, <3>3, <3>4
  <2>. QED
    BY <2>1, <2>2
<1>6. ASSUME NEW a \in Actors, InCall(a)
      PROVE  /\ q \notin clients' /\ InPipe(q)' = 0 /\ ~Executing(q)'
             /\ \A b \in Actors : call'[b].q # q
  <2>1. PICK l \in {"idle", "acquire", "write", "retain", "drop"} :
             Goto(a, l) /\ UNCHANGED loopVars
    BY <1>6, InCallMoves
  <2>2. Moved(a, l, IF l = "idle" THEN NoCall ELSE call[a])
    BY <1>1, <2>1, GotoMoves
  <2>3. \A b \in Actors : call'[b].q # q
    BY <1>1, <1>2, <2>2 DEF Moved
  <2>4. InPipe(q)' = 0
    <3>1. CASE pipe' = pipe
      BY <1>2, <3>1 DEF InPipe
    <3>2. CASE pc[a] = "write" /\ pipe' = Append(pipe, [cmd |-> call[a].cmd, q |-> call[a].q])
      <4>. DEFINE c == [cmd |-> call[a].cmd, q |-> call[a].q]
      <4>1. call[a] \in CallTo
        BY <3>2, NamedQueues
      <4>2. c \in Commands /\ c.q # q
        BY <1>2, <4>1 DEF CallTo, Commands
      <4>. HIDE DEF c
      <4>3. CommandsOf(Append(pipe, c), q) = CommandsOf(pipe, q) + Count(c.q = q)
        BY <1>1, <4>2, CommandsAppend
      <4>. QED
        BY <1>2, <3>2, <4>2, <4>3 DEF InPipe, Count, c
    <3>. QED
      BY <1>6, <3>1, <3>2, InCallPipe
  <2>. QED
    BY <1>2, <2>1, <2>3, <2>4 DEF Executing, Working, loopVars
<1>7. ASSUME NEW a \in Actors, Runs(a)
      PROVE  /\ q \notin clients' /\ InPipe(q)' = 0 /\ ~Executing(q)'
             /\ \A b \in Actors : call'[b].q # q
  BY <1>2, <1>7, RunsLeaves DEF InPipe, Executing, Working, loopVars, pipeVars
<1>8. ASSUME Dispatching
      PROVE  /\ q \notin clients' /\ InPipe(q)' = 0 /\ ~Executing(q)'
             /\ \A b \in Actors : call'[b].q # q
  <2>1. call' = call
    BY <1>8, DispatchingLeaves
  <2>2. CASE ReadCommand
    <3>1. pipe # <<>> /\ pipe' = Tail(pipe) /\ clients' = clients /\ item'.q = Head(pipe).q
      BY <2>2 DEF ReadCommand
    <3>2. Head(pipe).q # q /\ pipe' \in Seq(Commands)
          /\ \A i \in 1 .. Len(pipe') : i + 1 \in 1 .. Len(pipe) /\ pipe'[i] = pipe[i + 1]
      <4>1. Len(pipe) \in Nat
        BY <1>1, StateFacts
      <4>. QED
        BY <1>1, <1>4, <3>1, <4>1, HeadCommand
    <3>3. InPipe(q)' = 0
      BY <1>4, <3>2, CommandsType DEF InPipe
    <3>. QED
      BY <1>2, <2>1, <3>1, <3>2, <3>3 DEF Executing
  <2>3. CASE ~ReadCommand
    <3>1. /\ pipe' = pipe
          /\ clients' \subseteq clients \cup {item.q} /\ (clients' \subseteq clients \/ Working)
      BY <1>8, <2>3 DEF Dispatching, Loop, PollEvent, PollCommand, NothingDone, Finish, Accept,
         PeekRead, Revise, ThenWrite, RemoveMarked, NoCommand, Renewed, CancelNext, Forget, Exit,
         pipeVars, InLoop, Working
    <3>2. Working' => Working /\ item' = item
      BY <1>8, <2>3 DEF Dispatching, Loop, PollEvent, PollCommand, NothingDone, Finish, Accept,
         PeekRead, Revise, ThenWrite, RemoveMarked, NoCommand, Renewed, CancelNext, Forget, Exit,
         InLoop, Working, Ready
    <3>. QED
      BY <1>2, <2>1, <3>1, <3>2 DEF Executing, InPipe
  <2>. QED
    BY <2>2, <2>3
<1>. QED
  BY <1>3, <1>5, <1>6, <1>7, <1>8 DEF Next, Dispatching

LEMMA DestroyedStep ==
    ASSUME IInv, Next, TypeOK', CallsSound', CommandOwed'
    PROVE  NotDestroyedInUse'
<1>. SUFFICES ASSUME NEW q \in dead'
              PROVE  /\ q \notin owned' \cup clients' /\ InPipe(q)' = 0 /\ ~Executing(q)'
                     /\ \A a \in Actors : call'[a].q # q
  BY DEF NotDestroyedInUse
<1>1. CASE q \in dead
  BY <1>1, DeadUnnamed
<1>2. CASE q \notin dead
  <2>1. q \in Queues
    BY TypeParts1 DEF QueuesTyped
  <2>2. ref'[q] <= 0 /\ ref'[q] = Holders(q)'
    BY <1>2, <2>1, CountsStep, StepMoves DEF RefMove, Counted
  <2>3. /\ Holders(q)' \in Nat
        /\ Holders(q)' = 0 => /\ q \notin owned' \cup clients' /\ ~Leaving(q)'
                              /\ InPipe(q)' = 0 /\ ~Executing(q)'
    BY <2>1, HoldersFacts1 DEF HoldersKnown
  <2>4. Holders(q)' = 0
    BY <2>2, <2>3
  <2>5. ASSUME NEW a \in Actors, call'[a].q = q
        PROVE  FALSE
    <3>1. call'[a] # NoCall /\ call'[a].cmd \in {Renew, Leave, Cancel}
      <4>1. call'[a] \in Calls
        BY TypeParts1 DEF ActorsTyped
      <4>. QED
        BY <2>1, <2>5, <4>1, CallFacts
    <3>2. call'[a].cmd # Leave
      BY <2>3, <2>4, <2>5 DEF Leaving
    <3>3. q \in owned'
      BY <2>5, <3>1, <3>2 DEF CallsSound
    <3>. QED
      BY <2>3, <2>4, <3>3
  <2>. QED
    BY <2>3, <2>4, <2>5
<1>. QED
  BY <1>1, <1>2

LEMMA DestructorsStep ==
    ASSUME IInv, Next
    PROVE  DestructorsOfDead'
<1>. SUFFICES ASSUME NEW b \in Actors
              PROVE  \A i \in 1 .. Len(stack'[b]) : stack'[b][i] # "handler" => stack'[b][i] \in dead'
  BY DEF DestructorsOfDead
<1>. DEFINE S == Queues \cup {"handler"}
<1>1. /\ stack[b] \in Seq(S) /\ Len(stack[b]) \in Nat
      /\ \A i \in 1 .. Len(stack[b]) : stack[b][i] # "handler" => stack[b][i] \in dead
  <2>1. stack[b] \in Seq(S)
    BY DEF IInv, TypeOK
  <2>. QED
    BY <2>1, SeqFacts DEF IInv, DestructorsOfDead
<1>2. dead \subseteq dead' /\ StackMove(b)
  BY StepMoves
<1>3. CASE stack'[b] = stack[b]
  BY <1>1, <1>2, <1>3
<1>4. CASE stack[b] # <<>> /\ stack'[b] = Front(stack[b])
  <2>1. Len(stack'[b]) = Len(stack[b]) - 1
        /\ \A i \in 1 .. Len(stack[b]) - 1 : stack'[b][i] = stack[b][i]
    BY <1>1, <1>4, FrontFacts
  <2>. QED
    BY <1>1, <1>2, <2>1
<1>5. ASSUME NEW t \in S, t = "handler" \/ t \in dead', stack'[b] = Append(stack[b], t)
      PROVE  \A i \in 1 .. Len(stack'[b]) : stack'[b][i] # "handler" => stack'[b][i] \in dead'
  <2>1. /\ Len(stack'[b]) = Len(stack[b]) + 1 /\ stack'[b][Len(stack[b]) + 1] = t
        /\ \A i \in 1 .. Len(stack[b]) : stack'[b][i] = stack[b][i]
    BY <1>1, <1>5, AppendFacts
  <2>. QED
    BY <1>1, <1>2, <1>5, <2>1
<1>. QED
  BY <1>2, <1>3, <1>4, <1>5 DEF StackMove

\* A queue not made yet has no request: only its calls give it one.
LEMMA UnbornStep ==
    ASSUME IInv, Next
    PROVE  UnbornEmpty'
<1>. SUFFICES ASSUME NEW q \in Queues, NEW d \in Dirs, Unborn(q)'
              PROVE  requests'[q][d] = <<>>
  BY DEF UnbornEmpty
<1>1. Unborn(q)
  <2>1. q \notin dead
    BY StepMoves DEF Unborn
  <2>. QED
    BY <2>1, StepMoves DEF Unborn, RefMove
<1>2. requests[q][d] = <<>> /\ requests \in Waiting /\ TypeOK
  BY <1>1, TypeParts DEF IInv, UnbornEmpty, QueuesTyped
<1>3. CASE requests' = requests
  BY <1>2, <1>3
<1>4. ASSUME NEW x \in Queues, NEW e \in Dirs, NEW t, requests' = [requests EXCEPT ![x][e] = t],
             x # q \/ e # d
      PROVE  requests'[q][d] = <<>>
  BY <1>2, <1>4 DEF Waiting
<1>5. ASSUME NEW a \in Actors, InCall(a)
      PROVE  requests'[q][d] = <<>>
  <2>. DEFINE x == call[a].q
              e == DirOf(request[call[a].r].kind)
  <2>1. x # q /\ e \in Dirs
    <3>1. call[a].r \in 0 .. MaxRequests
      BY <1>2, StateFacts
    <3>. QED
      BY <1>1, UnbornUnused DEF DirOf, Dirs
  <2>2. CASE Enqueue(a)
    <3>1. x \in Queues /\ requests' = [requests EXCEPT ![x][e] = Append(@, call[a].r)]
      BY <2>2, NamedQueues DEF Enqueue
    <3>. HIDE DEF x, e
    <3>. QED
      BY <1>4, <2>1, <3>1
  <2>3. CASE Refuse(a)
    <3>1. x \in Queues /\ (requests' = requests \/ requests' = [requests EXCEPT ![x][e] = Front(@)])
      BY <2>3, NamedQueues DEF Refuse
    <3>. HIDE DEF x, e
    <3>. QED
      BY <1>3, <1>4, <2>1, <3>1
  <2>4. CASE ~Enqueue(a) /\ ~Refuse(a)
    BY <1>3, <1>5, <2>4 DEF InCall, ConnectAtOnce, Acquire, Write, Retain, Drop, Join, queueVars
  <2>. QED
    BY <2>2, <2>3, <2>4
<1>6. ASSUME NEW x \in Queues, NEW e \in Dirs, NEW how, HeadGone(x, e, how)
      PROVE  requests'[q][d] = <<>>
  BY <1>2, <1>4, <1>6 DEF HeadGone
<1>7. ASSUME NEW a \in Actors, Program(a)
      PROVE  requests' = requests
  BY <1>7, ProgramMoves
<1>. QED
  BY <1>3, <1>5, <1>6, <1>7, DispatchingEnds DEF Next, Dispatching, HeadsGo

----------------------------------------------------------------------------
(* No request is forgotten.                                                *)

Written(q) == \E a \in Actors : pc[a] = "write" /\ call[a].cmd = Renew /\ call[a].q = q
Noticed(q, d) == Polled(q, d) \/ AboutToLook(q, d) \/ RenewInPipe(q) \/ Written(q)
LEMMA SentParts ==
    /\ SentNoticed <=> \A q \in owned, d \in Dirs :
            Sent(q, d) /\ at \notin {"exit", "ended"} => Noticed(q, d)
    /\ SentNoticed' <=> \A q \in owned', d \in Dirs :
            Sent(q, d)' /\ at' \notin {"exit", "ended"} => Noticed(q, d)'
  BY DEF SentNoticed, Noticed, Written

\* Sent is a matter of numbers: of the requests, less the one not sent yet.
LEMMA SentFacts ==
    ASSUME TypeOK, NEW q \in Queues, NEW d \in Dirs
    PROVE  /\ Len(requests[q][d]) \in Nat
           /\ Unsent(q, d) => (Sent(q, d) <=> Len(requests[q][d]) > 1)
           /\ ~Unsent(q, d) => (Sent(q, d) <=> Len(requests[q][d]) > 0)
           /\ Sent(q, d) => requests[q][d] # <<>>
<1>1. Len(requests[q][d]) \in Nat /\ requests[q][d] # <<>> <=> Len(requests[q][d]) > 0
  BY StateFacts
<1>2. Unsent(q, d) => Count(Unsent(q, d)) = 1
  BY DEF Count
<1>3. ~Unsent(q, d) => Count(Unsent(q, d)) = 0
  BY DEF Count
<1>4. Sent(q, d) <=> Len(requests[q][d]) > Count(Unsent(q, d))
  BY DEF Sent
<1>. QED
  BY <1>1, <1>2, <1>3, <1>4

SentKnown == \A q \in Queues, d \in Dirs : TypeOK =>
    /\ Len(requests[q][d]) \in Nat
    /\ Unsent(q, d) => (Sent(q, d) <=> Len(requests[q][d]) > 1)
    /\ ~Unsent(q, d) => (Sent(q, d) <=> Len(requests[q][d]) > 0)
    /\ Sent(q, d) => requests[q][d] # <<>>
LEMMA SentFacts0 == SentKnown
  BY SentFacts DEF SentKnown
LEMMA SentFacts1 == SentKnown'
  BY SentFacts0, PTL

\* The calls that are to take the pipe with a request.
Asks(b) == pc[b] = "acquire" /\ call[b].cmd = Renew
LEMMA UnsentKept ==
    ASSUME IInv, Next, NEW q, NEW d,
           \A b \in Actors : call[b].q = q /\ Asks(b) => Asks(b)' /\ call'[b] = call[b],
           \A b \in Actors : call'[b].q = q /\ Asks(b)' => Asks(b) /\ call'[b] = call[b]
    PROVE  Unsent(q, d)' <=> Unsent(q, d)
<1>1. \A b \in Actors : Asks(b) => call[b].r \in Requests /\ call[b].r <= made
  BY LastSent DEF Asks
<1>2. \A b \in Actors : Asks(b) => request'[call[b].r].kind = request[call[b].r].kind
  BY <1>1, RequestsKeep
<1>3. Unsent(q, d) <=> \E b \in Actors : Asks(b) /\ call[b].q = q /\ DirOf(request[call[b].r].kind) = d
  BY DEF Unsent, Asks
<1>4. Unsent(q, d)' <=> \E b \in Actors : Asks(b)' /\ call'[b].q = q /\ DirOf(request'[call'[b].r].kind) = d
  BY DEF Unsent, Asks
<1>. QED
  BY <1>2, <1>3, <1>4 DEF DirOf

\* Nobody asks for a queue that is not locked.
LEMMA UnsentQuiet ==
    ASSUME NEW q, NobodySends(q), NEW d
    PROVE  ~Unsent(q, d)
BY DEF NobodySends, Unsent

\* The steps of the dispatcher and the destructors send nothing.
LEMMA DispatchingSent ==
    ASSUME IInv, TypeOK', Dispatching \/ \E a \in Actors : Runs(a),
           NEW q \in owned', NEW d \in Dirs, Sent(q, d)'
    PROVE  q \in owned /\ Sent(q, d) /\ requests[q][d] # <<>>
<1>0. Next
  BY DEF Next, Dispatching
<1>1. /\ TypeOK /\ UnbornEmpty /\ requests \in Waiting /\ q \in Queues
  BY TypeParts, TypeParts1 DEF IInv, QueuesTyped
<1>2. UNCHANGED <<pc, call>>
  BY DispatchingLeaves, RunsLeaves
<1>3. Unsent(q, d)' <=> Unsent(q, d)
  BY <1>0, <1>2, UnsentKept DEF Asks
<1>4. Sent(q, d)
  <2>1. CASE requests' = requests
    BY <1>1, <1>3, <2>1, SentFacts0, SentFacts1 DEF SentKnown
  <2>2. ASSUME NEW x \in Queues, NEW e \in Dirs, NEW how, HeadGone(x, e, how)
        PROVE  Sent(q, d)
    <3>1. requests[x][e] # <<>> /\ requests' = [requests EXCEPT ![x][e] = Tail(@)]
          /\ NobodySends(x)
      BY <2>2, UnlockedQuiet DEF HeadGone
    <3>2. CASE x = q /\ e = d
      <4>1. ~Unsent(q, d) /\ requests[q][d] # <<>> /\ requests[q][d] \in Seq(Requests)
        BY <1>1, <3>1, <3>2, UnsentQuiet DEF Waiting
      <4>2. Len(requests[q][d]) > 0
        BY <4>1, SeqFacts
      <4>. QED
        BY <1>1, <4>1, <4>2, SentFacts0 DEF SentKnown
    <3>3. CASE x # q \/ e # d
      <4>1. requests'[q][d] = requests[q][d]
        BY <1>1, <3>1, <3>3 DEF Waiting
      <4>. QED
        BY <1>1, <1>3, <4>1, SentFacts0, SentFacts1 DEF SentKnown
    <3>. QED
      BY <3>2, <3>3
  <2>. QED
    BY <2>1, <2>2, DispatchingEnds DEF HeadsGo
<1>5. requests[q][d] # <<>>
  BY <1>1, <1>4, SentFacts0 DEF SentKnown
<1>6. q \in owned
  BY <1>0, <1>1, <1>5, OwnedStep DEF UnbornEmpty
<1>. QED
  BY <1>4, <1>5, <1>6

\* What the dispatcher is to look at stays so until it has looked.
LEMMA DispatchingNoticed ==
    ASSUME IInv, Dispatching, NEW q \in owned, NEW d \in Dirs, requests[q][d] # <<>>,
           requests'[q][d] # <<>>, at' \notin {"exit", "ended"}, Noticed(q, d)
    PROVE  Noticed(q, d)'
<1>1. /\ TypeOK /\ LoopSound /\ CommandsSound /\ attr \in [Queues -> SUBSET Dirs] /\ q \in Queues
      /\ clients \subseteq Queues /\ NoItem.q = NoOne /\ NoOne \notin Queues
      /\ pipe \in Seq(Commands) /\ Len(pipe) \in Nat
  BY TypeParts, StateFacts, Distinctness DEF IInv, LoopTyped, QueuesTyped, NoItem
<1>2. at \in {"poll", "command", "exit", "ended"} => item.q = NoOne
  BY <1>1 DEF LoopSound
<1>3. CASE Written(q)
  <2>1. Written(q)'
    BY <1>3, DispatchingLeaves DEF Written
  <2>. QED
    BY <2>1 DEF Noticed
<1>4. CASE RenewInPipe(q) /\ pipe' = pipe
  <2>1. RenewInPipe(q)'
    BY <1>4 DEF RenewInPipe
  <2>. QED
    BY <2>1 DEF Noticed
<1>5. CASE ReadCommand
  <2>1. /\ at = "command" /\ pipe # <<>> /\ pipe' = Tail(pipe) /\ item'.q = Head(pipe).q
        /\ UNCHANGED <<clients, attr>>
        /\ at' = CASE Head(pipe).cmd = Renew -> "renewRead"
                   [] Head(pipe).cmd = Cancel -> "cancel"
                   [] Head(pipe).cmd = Leave -> "leave"
    BY <1>5 DEF ReadCommand, InLoop
  <2>2. /\ Head(pipe) = pipe[1] /\ 1 \in 1 .. Len(pipe)
        /\ Len(pipe') = Len(pipe) - 1 /\ \A i \in 1 .. Len(pipe) - 1 : pipe'[i] = pipe[i + 1]
        /\ Head(pipe).cmd \in {Renew, Leave, Cancel}
    BY <1>1, <2>1, HeadCommand
  <2>3. at' = "leave" => item'.q # q
    <3>1. at' = "leave" => Head(pipe).cmd = Leave
      BY <2>1, <2>2, Distinctness
    <3>. QED
      BY <1>1, <2>1, <2>2, <3>1 DEF CommandsSound
  <2>4. at' \in {"renewRead", "cancel", "leave"}
    BY <2>1, <2>2, Distinctness
  <2>5. CASE Polled(q, d)
    <3>1. Polled(q, d)'
      BY <2>1, <2>3, <2>4, <2>5 DEF Polled
    <3>. QED
      BY <3>1 DEF Noticed
  <2>6. CASE RenewInPipe(q)
    <3>1. PICK k \in 1 .. Len(pipe) : pipe[k] = [cmd |-> Renew, q |-> q]
      BY <2>6 DEF RenewInPipe
    <3>2. CASE k = 1
      <4>1. at' = "renewRead" /\ item'.q = q
        BY <2>1, <2>2, <3>1, <3>2, Distinctness
      <4>2. AboutToLook(q, d)'
        BY <4>1 DEF AboutToLook
      <4>. QED
        BY <4>2 DEF Noticed
    <3>3. CASE k # 1
      <4>1. k - 1 \in 1 .. Len(pipe) - 1 /\ pipe'[k - 1] = pipe[k]
        BY <1>1, <2>2, <3>3
      <4>2. RenewInPipe(q)'
        BY <2>2, <3>1, <4>1 DEF RenewInPipe
      <4>. QED
        BY <4>2 DEF Noticed
    <3>. QED
      BY <3>2, <3>3
  <2>7. ~AboutToLook(q, d)
    BY <1>1, <1>2, <2>1 DEF AboutToLook
  <2>. QED
    BY <1>3, <2>5, <2>6, <2>7 DEF Noticed
<1>6. ASSUME ~ReadCommand
      PROVE  pipe' = pipe
  BY <1>6 DEF Dispatching, Loop, PollEvent, PollCommand, NothingDone, Finish, Accept, PeekRead,
         Revise, ThenWrite, RemoveMarked, NoCommand, Renewed, CancelNext, Forget, Exit, pipeVars
<1>7. ASSUME ~ReadCommand, Polled(q, d) \/ AboutToLook(q, d)
      PROVE  Polled(q, d)' \/ AboutToLook(q, d)' \/ RenewInPipe(q) \/ Written(q)
  <2>1. ASSUME NEW x \in Queues, NEW e \in Dirs, PollEvent(x, e)
        PROVE  Polled(q, d)' \/ AboutToLook(q, d)'
    BY <1>1, <1>2, <1>7, <2>1 DEF PollEvent, InLoop, Polled, AboutToLook
  <2>2. CASE PollCommand \/ NoCommand
    BY <1>1, <1>2, <1>7, <2>2 DEF PollCommand, NoCommand, InLoop, Polled, AboutToLook
  <2>3. ASSUME NEW e \in Dirs, NothingDone(e) \/ Finish(e) \/ Accept(e)
        PROVE  Polled(q, d)' \/ AboutToLook(q, d)'
    BY <1>1, <1>7, <2>3 DEF NothingDone, Finish, Accept, Ready, InLoop, Polled, AboutToLook
  <2>4. CASE PeekRead("peekRead", "peekWrite")
    BY <1>1, <1>7, <2>4 DEF PeekRead, InLoop, Polled, AboutToLook, Dirs
  <2>5. CASE PeekRead("renewRead", "renewWrite")
    BY <1>1, <1>7, <2>5 DEF PeekRead, InLoop, Polled, AboutToLook, Dirs
  <2>6. CASE Revise
    <3>1. /\ at = "peekWrite" /\ at' = "round" /\ UNCHANGED <<item, clients>>
          /\ attr' = [attr EXCEPT ![item.q] = Peeked]
      BY <2>6 DEF Revise, InLoop
    <3>2. item.q \in clients /\ item.q \in Queues
      BY <1>1, <3>1 DEF LoopSound
    <3>3. CASE item.q = q
      <4>1. d \in Peeked
        BY <1>7, <3>1, <3>3 DEF Polled, AboutToLook, Peeked, Dirs
      <4>. QED
        BY <1>1, <3>1, <3>2, <3>3, <4>1 DEF Polled
    <3>4. CASE item.q # q
      BY <1>1, <1>7, <3>1, <3>2, <3>4 DEF Polled, AboutToLook
    <3>. QED
      BY <3>3, <3>4
  <2>7. CASE ThenWrite
    <3>1. item'.q = item.q
      <4>1. item \in ItemSet /\ item' = [item EXCEPT !.what = "write"]
        BY <1>1, <2>7, TypeParts DEF LoopTyped, ThenWrite
      <4>2. \A i \in ItemSet : [i EXCEPT !.what = "write"].q = i.q
        BY DEF ItemSet, NoItem
      <4>. QED
        BY <4>1, <4>2
    <3>. QED
      BY <1>7, <2>7, <3>1 DEF ThenWrite, InLoop, Polled, AboutToLook
  <2>8. CASE RemoveMarked
    <3>1. /\ at = "round" /\ at' = "command" /\ attr' = attr
          /\ clients' = clients \/ (attr[item.q] = {} /\ clients' = clients \ {item.q})
      BY <2>8 DEF RemoveMarked, InLoop
    <3>. QED
      BY <1>7, <3>1 DEF Polled, AboutToLook
  <2>9. CASE Renewed
    <3>1. /\ at = "renewWrite"
          /\ \/ /\ at' = "poll" /\ clients' = clients \cup {item.q}
                /\ attr' = [attr EXCEPT ![item.q] = Peeked]
             \/ Peeked = {} /\ at' = "leave" /\ UNCHANGED <<clients, attr, item>>
      BY <2>9 DEF Renewed, InLoop
    <3>2. item.q \in Queues
      BY <1>1, <3>1 DEF LoopSound, Working
    <3>3. CASE item.q = q
      <4>1. d \in Peeked
        BY <1>7, <3>1, <3>3 DEF Polled, AboutToLook, Peeked, Dirs
      <4>. QED
        BY <1>1, <3>1, <3>2, <3>3, <4>1 DEF Polled
    <3>4. CASE item.q # q
      BY <1>1, <1>7, <3>1, <3>2, <3>4 DEF Polled, AboutToLook
    <3>. QED
      BY <3>3, <3>4
  <2>10. CASE CancelNext
    <3>. DEFINE e == IF requests[item.q]["read"] # <<>> THEN "read" ELSE "write"
    <3>1. /\ at = "cancel" /\ UNCHANGED <<item, clients, attr>>
          /\ at' = "cancel" \/ (at' = "leave" /\ requests[item.q][e] = <<>>)
      BY <2>10 DEF CancelNext, InLoop
    <3>2. CASE item.q = q
      <4>1. at' = "cancel"
        BY <3>1, <3>2 DEF Dirs
      <4>. QED
        BY <3>1, <3>2, <4>1 DEF AboutToLook
    <3>3. CASE item.q # q
      BY <1>7, <3>1, <3>3 DEF Polled, AboutToLook
    <3>. QED
      BY <3>2, <3>3
  <2>11. CASE Forget
    <3>1. /\ at = "leave" /\ at' = "poll" /\ clients' = clients \ {item.q}
          /\ attr' = [attr EXCEPT ![item.q] = {}]
      BY <2>11 DEF Forget, InLoop
    <3>2. item.q # q
      BY <1>7, <3>1 DEF Polled, AboutToLook
    <3>. QED
      BY <1>1, <1>7, <3>1, <3>2 DEF Polled, AboutToLook
  <2>12. ~Exit
    BY DEF Exit, InLoop
  <2>. QED
    BY <1>7, <2>1, <2>2, <2>3, <2>4, <2>5, <2>6, <2>7, <2>8, <2>9, <2>10, <2>11, <2>12
       DEF Dispatching, Loop
<1>. QED
  BY <1>3, <1>4, <1>5, <1>6, <1>7 DEF Noticed

\* The steps of a call: the engine is told before its lock is given up.
LEMMA InCallSent ==
    ASSUME IInv, TypeOK', NEW a \in Actors, InCall(a), NEW q \in owned, NEW d \in Dirs,
           Sent(q, d)', at \notin {"exit", "ended"}
    PROVE  Noticed(q, d)'
<1>0. Next
  BY DEF Next
<1>1. /\ TypeOK /\ LocksHeld /\ CallsSound /\ SentNoticed /\ requests \in Waiting /\ q \in Queues
      /\ pc \in PcType /\ call \in [Actors -> Calls] /\ NoOne \notin Actors
      /\ pipe \in Seq(Commands) /\ Len(pipe) \in Nat /\ NoCall.q = NoOne /\ NoOne \notin Queues
      /\ Renew # Leave /\ Renew # Cancel
  BY TypeParts, StateFacts, Distinctness DEF IInv, QueuesTyped, ActorsTyped, NoCall
<1>2. UNCHANGED loopVars
  BY InCallMoves
<1>3. PICK l \in {"idle", "acquire", "write", "retain", "drop"} : Goto(a, l)
  BY InCallMoves
<1>4. /\ pc'[a] = l /\ \A b \in Actors \ {a} : pc'[b] = pc[b] /\ call'[b] = call[b]
      /\ call'[a] = IF l = "idle" THEN NoCall ELSE call[a]
  BY <1>1, <1>3, GotoMoves DEF Moved
<1>5. ASSUME RenewInPipe(q)
      PROVE  RenewInPipe(q)'
  <2>1. PICK k \in 1 .. Len(pipe) : pipe[k] = [cmd |-> Renew, q |-> q]
    BY <1>5 DEF RenewInPipe
  <2>2. CASE pipe' = pipe
    BY <1>5, <2>2 DEF RenewInPipe
  <2>3. CASE pc[a] = "write" /\ pipe' = Append(pipe, [cmd |-> call[a].cmd, q |-> call[a].q])
    <3>1. call[a] \in CallTo
      BY <2>3, NamedQueues
    <3>2. [cmd |-> call[a].cmd, q |-> call[a].q] \in Commands
      BY <3>1 DEF CallTo, Commands
    <3>3. Len(pipe') = Len(pipe) + 1 /\ pipe'[k] = pipe[k]
      BY <1>1, <2>3, <3>2, AppendFacts
    <3>4. k \in 1 .. Len(pipe')
      BY <1>1, <3>3
    <3>. QED
      BY <2>1, <3>3, <3>4 DEF RenewInPipe
  <2>. QED
    BY <2>2, <2>3, InCallPipe
<1>6. ASSUME Sent(q, d), ~(Write(a) /\ Written(q))
      PROVE  Noticed(q, d)'
  <2>1. Noticed(q, d)
    BY <1>1, <1>6, SentParts
  <2>2. Polled(q, d) \/ AboutToLook(q, d) => Polled(q, d)' \/ AboutToLook(q, d)'
    BY <1>2 DEF Polled, AboutToLook, loopVars
  <2>3. ASSUME Written(q)
        PROVE  Written(q)'
    <3>1. PICK b \in Actors : pc[b] = "write" /\ call[b].cmd = Renew /\ call[b].q = q
      BY <2>3 DEF Written
    <3>2. CASE b = a
      <4>1. ~Write(a)
        BY <1>6, <2>3
      <4>2. FALSE
        BY <3>1, <3>2, <4>1 DEF InCall, Enqueue, ConnectAtOnce, Acquire, Refuse, Retain, Drop, Join
      <4>. QED
        BY <4>2
    <3>3. CASE b # a
      BY <1>4, <3>1, <3>3 DEF Written
    <3>. QED
      BY <3>2, <3>3
  <2>. QED
    BY <1>5, <2>1, <2>2, <2>3 DEF Noticed
<1>7. ASSUME requests' = requests, Unsent(q, d)' <=> Unsent(q, d)
      PROVE  Sent(q, d)
  BY <1>1, <1>7, SentFacts0, SentFacts1 DEF SentKnown
<1>8. CASE Enqueue(a)
  <2>. DEFINE x == call[a].q
              r == call[a].r
              e == DirOf(request[r].kind)
  <2>1. /\ pc[a] = "lock" /\ sync[x] = NoOne /\ x \in Queues /\ r \in Requests /\ e \in Dirs
        /\ requests' = [requests EXCEPT ![x][e] = Append(@, r)] /\ l = "acquire"
    <3>1. pc[a] = "lock" /\ pc' = [pc EXCEPT ![a] = "acquire"]
      BY <1>8 DEF Enqueue, Goto
    <3>2. x \in Queues /\ r \in Requests
      BY <3>1, NamedQueues
    <3>3. l = "acquire"
      BY <1>1, <1>4, <3>1 DEF PcType
    <3>. QED
      BY <1>1, <1>8, <3>1, <3>2, <3>3, StateFacts DEF Enqueue
  <2>2. ASSUME x # q \/ e # d
        PROVE  Unsent(q, d)' <=> Unsent(q, d)
    <3>1. request' = request
      BY <1>8 DEF Enqueue, reqVars
    <3>2. Unsent(q, d)' <=> \E b \in Actors \ {a} : Asks(b) /\ call[b].q = q /\ DirOf(request[call[b].r].kind) = d
      BY <1>4, <2>1, <2>2, <3>1 DEF Unsent, Asks
    <3>3. Unsent(q, d) <=> \E b \in Actors \ {a} : Asks(b) /\ call[b].q = q /\ DirOf(request[call[b].r].kind) = d
      BY <2>1 DEF Unsent, Asks
    <3>. QED
      BY <3>2, <3>3
  <2>3. CASE x # q \/ e # d
    <3>1. requests'[q][d] = requests[q][d]
      BY <1>1, <2>1, <2>3 DEF Waiting
    <3>2. Sent(q, d)
      BY <1>1, <2>2, <2>3, <3>1, SentFacts0, SentFacts1 DEF SentKnown
    <3>. QED
      BY <1>6, <2>1, <3>2 DEF Write
  <2>4. CASE x = q /\ e = d
    <3>1. ~Unsent(q, d)
      <4>1. NobodySends(q)
        BY <2>1, <2>4, UnlockedQuiet
      <4>. QED
        BY <4>1, UnsentQuiet
    <3>2. Unsent(q, d)'
      <4>1. call[a].cmd = Renew /\ call'[a] = call[a] /\ pc'[a] = "acquire" /\ request' = request
        BY <1>1, <1>4, <1>8, <2>1 DEF CallsSound, Enqueue, reqVars
      <4>. QED
        BY <2>4, <4>1 DEF Unsent
    <3>3. Len(requests'[q][d]) = Len(requests[q][d]) + 1
      <4>1. requests'[q][d] = Append(requests[q][d], r)
        BY <1>1, <2>1, <2>4 DEF Waiting
      <4>2. requests[q][d] \in Seq(Requests)
        BY <1>1 DEF Waiting
      <4>. HIDE DEF x, e, r
      <4>3. Len(Append(requests[q][d], r)) = Len(requests[q][d]) + 1
        BY <2>1, <4>2, AppendFacts
      <4>. QED
        BY <4>1, <4>3
    <3>4. Sent(q, d)
      <4>1. Len(requests'[q][d]) > 1 /\ Len(requests[q][d]) \in Nat
        BY <1>1, <3>2, SentFacts0, SentFacts1 DEF SentKnown
      <4>. QED
        BY <1>1, <3>1, <3>3, <4>1, SentFacts0 DEF SentKnown
    <3>. QED
      BY <1>6, <2>1, <3>4 DEF Write
  <2>. QED
    BY <2>3, <2>4
<1>9. CASE Refuse(a) /\ call[a].cmd = Renew
  <2>. DEFINE x == call[a].q
              r == call[a].r
              e == DirOf(request[r].kind)
  <2>1. /\ pc[a] = "acquire" /\ pc'[a] = "idle" /\ request' = request /\ call[a].cmd = Renew
        /\ requests' = [requests EXCEPT ![x][e] = Front(@)]
    BY <1>1, <1>9 DEF Refuse, Goto, PcType
  <2>2. /\ x \in Queues /\ e \in Dirs /\ r \in Requests
        /\ requests[x][e] \in Seq(Requests) /\ requests[x][e] # <<>>
    BY <2>1, LastSent
  <2>3. \A b \in Actors \ {a} : ~(Asks(b) /\ call[b].q = x)
    BY <1>1, <2>1, <2>2 DEF LocksHeld, Sending, Asks
  <2>4. ~(Write(a) /\ Written(q))
    BY <2>1 DEF Write
  <2>5. CASE x = q /\ e = d
    <3>1. Unsent(q, d)
      BY <2>1, <2>5 DEF Unsent
    <3>2. ~Unsent(q, d)'
      BY <1>4, <2>1, <2>3, <2>5 DEF Unsent, Asks
    <3>3. Len(requests'[q][d]) = Len(requests[q][d]) - 1
      <4>1. requests'[q][d] = Front(requests[q][d])
        BY <1>1, <2>1, <2>2, <2>5 DEF Waiting
      <4>. QED
        BY <2>2, <2>5, <4>1, FrontFacts
    <3>4. Sent(q, d)
      <4>1. Len(requests'[q][d]) > 0 /\ Len(requests[q][d]) \in Nat
        BY <1>1, <3>2, SentFacts0, SentFacts1 DEF SentKnown
      <4>. QED
        BY <1>1, <3>1, <3>3, <4>1, SentFacts0 DEF SentKnown
    <3>. QED
      BY <1>6, <2>4, <3>4
  <2>6. CASE x # q \/ e # d
    <3>1. requests'[q][d] = requests[q][d]
      BY <1>1, <2>1, <2>2, <2>6 DEF Waiting
    <3>2. Unsent(q, d)' <=> \E b \in Actors \ {a} : Asks(b) /\ call[b].q = q /\ DirOf(request[call[b].r].kind) = d
      BY <1>4, <2>1 DEF Unsent, Asks
    <3>3. Unsent(q, d) <=> \E b \in Actors \ {a} : Asks(b) /\ call[b].q = q /\ DirOf(request[call[b].r].kind) = d
      BY <2>6 DEF Unsent, Asks
    <3>4. Sent(q, d)
      BY <1>1, <3>1, <3>2, <3>3, SentFacts0, SentFacts1 DEF SentKnown
    <3>. QED
      BY <1>6, <2>4, <3>4
  <2>. QED
    BY <2>5, <2>6
<1>10. CASE Acquire(a)
  <2>1. /\ pc[a] = "acquire" /\ pc'[a] = "write" /\ call'[a] = call[a] /\ requests' = requests
    BY <1>1, <1>10 DEF Acquire, Goto, PcType, queueVars
  <2>2. CASE call[a].cmd = Renew /\ call[a].q = q
    <3>1. Written(q)'
      BY <2>1, <2>2 DEF Written
    <3>. QED
      BY <3>1 DEF Noticed
  <2>3. CASE ~(call[a].cmd = Renew /\ call[a].q = q)
    <3>1. Unsent(q, d)' <=> Unsent(q, d)
      BY <1>0, <1>4, <2>1, <2>3, UnsentKept DEF Asks
    <3>2. ~Write(a)
      BY <2>1 DEF Write
    <3>. QED
      BY <1>6, <1>7, <2>1, <3>1, <3>2
  <2>. QED
    BY <2>2, <2>3
<1>11. CASE Write(a)
  <2>1. /\ pc[a] = "write" /\ pc'[a] = "retain" /\ call'[a] = call[a] /\ requests' = requests
        /\ pipe' = Append(pipe, [cmd |-> call[a].cmd, q |-> call[a].q])
    BY <1>1, <1>11 DEF Write, Goto, PcType, queueVars
  <2>2. Unsent(q, d)' <=> Unsent(q, d)
    BY <1>0, <1>4, <2>1, UnsentKept DEF Asks
  <2>3. CASE Written(q)
    <3>1. call[a].cmd = Renew /\ call[a].q = q
      BY <1>1, <2>1, <2>3 DEF LocksHeld, Written
    <3>2. [cmd |-> Renew, q |-> q] \in Commands
      BY <1>1 DEF Commands
    <3>3. /\ Len(pipe') = Len(pipe) + 1 /\ pipe'[Len(pipe) + 1] = [cmd |-> Renew, q |-> q]
      BY <1>1, <2>1, <3>1, <3>2, AppendFacts
    <3>4. Len(pipe) + 1 \in 1 .. Len(pipe')
      BY <1>1, <3>3
    <3>5. RenewInPipe(q)'
      BY <3>3, <3>4 DEF RenewInPipe
    <3>. QED
      BY <3>5 DEF Noticed
  <2>4. CASE ~Written(q)
    BY <1>6, <1>7, <2>1, <2>2, <2>4
  <2>. QED
    BY <2>3, <2>4
<1>12. CASE ConnectAtOnce(a) \/ Retain(a) \/ Drop(a) \/ Join(a) \/ (Refuse(a) /\ call[a].cmd # Renew)
  <2>1. requests' = requests /\ l \in {"idle", "drop"}
    BY <1>1, <1>4, <1>12 DEF ConnectAtOnce, Retain, Drop, Join, Refuse, Goto, PcType, queueVars
  <2>2. ~Asks(a) /\ ~Write(a)
    BY <1>12 DEF ConnectAtOnce, Retain, Drop, Join, Refuse, Write, Asks
  <2>3. Unsent(q, d)' <=> Unsent(q, d)
    BY <1>0, <1>4, <2>1, <2>2, UnsentKept DEF Asks
  <2>. QED
    BY <1>6, <1>7, <2>1, <2>2, <2>3
<1>. QED
  BY <1>8, <1>9, <1>10, <1>11, <1>12 DEF InCall

LEMMA ProgramSent ==
    ASSUME IInv, TypeOK', NEW a \in Actors, Program(a), NEW q \in owned', NEW d \in Dirs,
           Sent(q, d)', at \notin {"exit", "ended"}
    PROVE  Noticed(q, d)'
<1>0. Next
  BY DEF Next
<1>1. /\ TypeOK /\ CallsSound /\ SentNoticed /\ UnbornEmpty /\ q \in Queues
      /\ Renew # Leave /\ Renew # Cancel
  BY TypeParts1, Distinctness DEF IInv, QueuesTyped
<1>2. pc[a] = "idle" /\ UNCHANGED <<requests, pipe, loopVars>>
  BY ProgramMoves
<1>3. /\ \A b \in Actors \ {a} : pc'[b] = pc[b] /\ call'[b] = call[b]
      /\ ~Asks(a) /\ ~Asks(a)' /\ pc'[a] # "write"
  <2>1. ASSUME NEW l \in {"lock", "acquire", "join"}, NEW c, Moved(a, l, c),
               l = "acquire" => c.cmd # Renew
        PROVE  /\ \A b \in Actors \ {a} : pc'[b] = pc[b] /\ call'[b] = call[b]
               /\ ~Asks(a)' /\ pc'[a] # "write"
    BY <2>1 DEF Moved, Asks
  <2>2. [cmd |-> Cancel, q |-> call'[a].q, r |-> 0].cmd = Cancel
        /\ [cmd |-> Leave, q |-> call'[a].q, r |-> 0].cmd = Leave
    OBVIOUS
  <2>3. ~Asks(a) /\ (UNCHANGED <<pc, call>> => ~Asks(a)')
    BY <1>2 DEF Asks
  <2>. QED
    BY <1>1, <1>2, <2>1, <2>2, <2>3, ProgramMoves
<1>4. Unsent(q, d)' <=> Unsent(q, d)
  BY <1>0, <1>3, UnsentKept DEF Asks
<1>5. Sent(q, d) /\ requests[q][d] # <<>>
  BY <1>1, <1>2, <1>4, SentFacts0, SentFacts1 DEF SentKnown
<1>6. q \in owned
  BY <1>0, <1>1, <1>5, OwnedStep DEF UnbornEmpty
<1>7. Noticed(q, d)
  BY <1>1, <1>5, <1>6, SentParts
<1>8. Written(q) => Written(q)'
  BY <1>2, <1>3 DEF Written
<1>. QED
  BY <1>2, <1>7, <1>8 DEF Noticed, Polled, AboutToLook, RenewInPipe, loopVars

LEMMA SentStep ==
    ASSUME IInv, Next, TypeOK'
    PROVE  SentNoticed'
<1>. SUFFICES ASSUME NEW q \in owned', NEW d \in Dirs, Sent(q, d)', at' \notin {"exit", "ended"}
              PROVE  Noticed(q, d)'
  BY SentParts
<1>1. ASSUME NEW a \in Actors, Program(a)
      PROVE  Noticed(q, d)'
  <2>1. at' = at
    BY <1>1, ProgramMoves DEF loopVars
  <2>. QED
    BY <1>1, <2>1, ProgramSent
<1>2. ASSUME NEW a \in Actors, InCall(a)
      PROVE  Noticed(q, d)'
  <2>1. at' = at /\ owned' = owned
    BY <1>2, InCallMoves DEF loopVars
  <2>. QED
    BY <1>2, <2>1, InCallSent
<1>3. ASSUME Dispatching \/ \E a \in Actors : Runs(a)
      PROVE  /\ q \in owned /\ Sent(q, d) /\ requests[q][d] # <<>>
             /\ at \notin {"exit", "ended"} => Noticed(q, d)
  <2>1. SentNoticed
    BY DEF IInv
  <2>2. q \in owned /\ Sent(q, d) /\ requests[q][d] # <<>>
    BY <1>3, DispatchingSent
  <2>. QED
    BY <2>1, <2>2, SentParts
<1>4. ASSUME NEW a \in Actors, Runs(a)
      PROVE  Noticed(q, d)'
  <2>1. UNCHANGED <<clients, attr, at, item, seen, pipe, pc, call>>
    BY <1>4, RunsLeaves DEF loopVars, pipeVars
  <2>2. Noticed(q, d)
    BY <1>3, <1>4, <2>1
  <2>. QED
    BY <2>1, <2>2 DEF Noticed, Polled, AboutToLook, RenewInPipe, Written
<1>5. ASSUME Dispatching
      PROVE  Noticed(q, d)'
  <2>1. at \notin {"exit", "ended"}
    BY <1>5 DEF Dispatching, Loop, PollEvent, PollCommand, NothingDone, Finish, Accept, PeekRead,
         Revise, ThenWrite, RemoveMarked, ReadCommand, NoCommand, Renewed, CancelNext, Forget,
         Exit, Ready, InLoop
  <2>2. requests'[q][d] # <<>>
    <3>1. q \in Queues
      BY TypeParts1 DEF QueuesTyped
    <3>. QED
      BY <3>1, SentFacts1 DEF SentKnown
  <2>. QED
    BY <1>3, <1>5, <2>1, <2>2, DispatchingNoticed
<1>. QED
  BY <1>1, <1>2, <1>4, <1>5 DEF Next, Dispatching

\* Its weaker form, the one a program relies on.
ForgottenNone == TypeOK /\ SentNoticed => NothingForgotten
LEMMA NoticedForgotten == ForgottenNone
<1>. SUFFICES ASSUME TypeOK, SentNoticed, NEW q \in owned, NEW d \in Dirs,
                     requests[q][d] # <<>>, at \notin {"exit", "ended"}
              PROVE  \/ q \in clients /\ d \in attr[q]
                     \/ Renewing(q) \/ AboutToLook(q, d)
  BY DEF ForgottenNone, NothingForgotten
<1>1. q \in Queues /\ Len(requests[q][d]) > 0
  BY StateFacts, TypeParts DEF QueuesTyped
<1>2. CASE Unsent(q, d)
  BY <1>2 DEF Unsent, Renewing, Sending
<1>3. CASE ~Unsent(q, d)
  <2>1. Sent(q, d)
    BY <1>1, <1>3, SentFacts0 DEF SentKnown
  <2>2. Noticed(q, d)
    BY <2>1, SentParts
  <2>. QED
    BY <2>2 DEF Noticed, Polled, Written, Renewing, Sending
<1>. QED
  BY <1>2, <1>3
LEMMA NoticedForgotten1 == ForgottenNone'
  BY NoticedForgotten, PTL

----------------------------------------------------------------------------
(* The invariant, and what it says.                                        *)

LEMMA NextKeepsInvariant ==
    ASSUME IInv, Next, InTime
    PROVE  IInv'
<1>1. TypeOK' /\ CallsSound' /\ LocksHeld' /\ RequestsInPlace' /\ RequestsFresh'
  BY TypeStep, CallsStep, LocksStep, PlacedStep
<1>2. LoopSound' /\ CommandsSound' /\ CommandOwed'
  BY LoopSoundStep, CommandsStep, OwedStep
<1>3. ReferencesCounted' /\ NotDestroyedInUse' /\ DestructorsOfDead' /\ UnbornEmpty'
  BY <1>1, <1>2, ReferencesStep, DestroyedStep, DestructorsStep, UnbornStep
<1>4. SentNoticed'
  BY <1>1, SentStep
<1>5. NothingForgotten'
  BY <1>1, <1>4, NoticedForgotten1 DEF ForgottenNone
<1>. QED
  BY <1>1, <1>2, <1>3, <1>4, <1>5 DEF IInv

LEMMA StutterKeepsInvariant ==
    ASSUME IInv, UNCHANGED vars
    PROVE  IInv'
<1>. USE DEF vars, queueVars, reqVars, pipeVars, loopVars, actorVars
<1>1. TypeOK'
  BY DEF IInv, TypeOK
<1>2. CallsSound' /\ LocksHeld' /\ RequestsInPlace' /\ RequestsFresh'
  BY DEF IInv, CallsSound, LocksHeld, RequestsInPlace, RequestsFresh, Sending, Entering
<1>3. LoopSound' /\ CommandsSound' /\ CommandOwed'
  BY DEF IInv, LoopSound, Working, CommandsSound, CommandOwed
<1>4. /\ \A q : InPipe(q)' = InPipe(q)
      /\ \A q : Executing(q)' <=> Executing(q)
      /\ \A q : Leaving(q)' <=> Leaving(q)
      /\ \A q : Owing(q)' <=> Owing(q)
      /\ \A q : Unborn(q)' <=> Unborn(q)
  BY DEF InPipe, Executing, Working, Leaving, Owing, Unborn
<1>5. \A q : Holders(q)' = Holders(q)
  BY <1>4, SameHolders
<1>6. ReferencesCounted' /\ NotDestroyedInUse' /\ DestructorsOfDead' /\ UnbornEmpty'
  BY <1>4, <1>5 DEF IInv, ReferencesCounted, NotDestroyedInUse, DestructorsOfDead, UnbornEmpty
<1>7. SentNoticed'
  <2>1. \A q, d : Unsent(q, d)' <=> Unsent(q, d)
    BY DEF Unsent
  <2>2. ASSUME NEW q \in owned, NEW d \in Dirs
        PROVE  (Sent(q, d)' <=> Sent(q, d)) /\ (Noticed(q, d)' <=> Noticed(q, d))
    <3>1. q \in Queues /\ TypeOK
      BY TypeParts DEF IInv, QueuesTyped
    <3>2. Sent(q, d)' <=> Sent(q, d)
      BY <1>1, <2>1, <3>1, SentFacts0, SentFacts1 DEF SentKnown
    <3>3. Noticed(q, d)' <=> Noticed(q, d)
      BY DEF Noticed, Polled, AboutToLook, RenewInPipe, Written
    <3>. QED
      BY <3>2, <3>3
  <2>3. SentNoticed
    BY DEF IInv
  <2>. QED
    BY <2>2, <2>3, SentParts
<1>8. NothingForgotten'
  BY <1>1, <1>7, NoticedForgotten1 DEF ForgottenNone
<1>. QED
  BY <1>1, <1>2, <1>3, <1>6, <1>7, <1>8 DEF IInv

(* The invariant of network_engine, for any queues, threads and bounds: in *)
(* a run of the code as it stands (PromptRetain or not) references, locks, *)
(* queues, the pipe and the table are accounted for, unless the dispatcher *)
(* once releases a command's reference before the writer has taken it.     *)
THEOREM EngineInvariant == Spec /\ [][InTime]_vars => []IInv
<1>1. IInv /\ [Next]_vars /\ [InTime]_vars => IInv'
  BY NextKeepsInvariant, StutterKeepsInvariant
<1>. QED
  BY <1>1, InitInvariant, PTL DEF Spec

----------------------------------------------------------------------------
(* The engine implements RequestLedger.                                    *)

LEMMA FrontOfAppend ==
    ASSUME NEW S, NEW s \in Seq(S), NEW e \in S
    PROVE  Front(Append(s, e)) = s
<1>. DEFINE t == Append(s, e)
<1>1. /\ t \in Seq(S) /\ t # <<>> /\ Len(t) = Len(s) + 1 /\ Len(s) \in Nat
      /\ \A i \in 1 .. Len(s) : t[i] = s[i]
  BY AppendFacts, LenProperties
<1>. HIDE DEF t
<1>2. /\ Front(t) \in Seq(S) /\ Len(Front(t)) = Len(s)
      /\ \A i \in 1 .. Len(s) : Front(t)[i] = s[i]
  BY <1>1, FrontFacts
<1>3. Front(t) = s
  BY <1>2, SeqEqual
<1>. QED
  BY <1>3 DEF t

LEMMA AppendOfFront ==
    ASSUME NEW S, NEW s \in Seq(S), s # <<>>
    PROVE  Append(Front(s), Last(s)) = s
<1>. DEFINE f == Front(s)
            l == Last(s)
            t == Append(f, l)
<1>0. /\ f \in Seq(S) /\ l \in S /\ l = s[Len(s)] /\ Len(f) = Len(s) - 1
      /\ \A i \in 1 .. Len(s) - 1 : f[i] = s[i]
  BY FrontFacts
<1>. HIDE DEF f, l
<1>1. /\ f \in Seq(S) /\ l \in S /\ l = s[Len(s)] /\ Len(f) = Len(s) - 1 /\ Len(s) \in Nat \ {0}
      /\ \A i \in 1 .. Len(s) - 1 : f[i] = s[i]
  BY <1>0, LenProperties, EmptySeq
<1>2. /\ t \in Seq(S) /\ Len(t) = Len(s) /\ \A i \in 1 .. Len(f) : t[i] = f[i]
      /\ t[Len(f) + 1] = l
  BY <1>1, AppendFacts
<1>. HIDE DEF t
<1>3. \A i \in 1 .. Len(s) : t[i] = s[i]
  BY <1>1, <1>2
<1>4. t = s
  BY <1>2, <1>3, SeqEqual
<1>. QED
  BY <1>4 DEF t, f, l

MadeAt(q, d) == IF Unsent(q, d) THEN Front(requests[q][d]) ELSE requests[q][d]

LEMMA MadeFacts ==
    /\ \A q \in Queues, d \in Dirs : Made[q][d] = MadeAt(q, d)
    /\ (\A q \in Queues, d \in Dirs : MadeAt(q, d)' = MadeAt(q, d)) => Made' = Made
  BY DEF Made, MadeAt

LEMMA MadeChanges ==
    ASSUME NEW q \in Queues, NEW d \in Dirs, NEW t, MadeAt(q, d)' = t,
           \A x \in Queues, e \in Dirs : x # q \/ e # d => MadeAt(x, e)' = MadeAt(x, e)
    PROVE  Made' = [Made EXCEPT ![q][d] = t]
<1>1. Made = [x \in Queues |-> [e \in Dirs |-> MadeAt(x, e)]]
  BY DEF Made, MadeAt
<1>2. Made' = [x \in Queues |-> [e \in Dirs |-> MadeAt(x, e)']]
  BY DEF Made, MadeAt
<1>3. ASSUME NEW x \in Queues
      PROVE  Made'[x] = [Made EXCEPT ![q][d] = t][x]
  <2>1. CASE x = q
    <3>1. [Made EXCEPT ![q][d] = t][x] = [e \in Dirs |-> IF e = d THEN t ELSE MadeAt(x, e)]
      BY <1>1, <2>1
    <3>2. Made'[x] = [e \in Dirs |-> MadeAt(x, e)']
      BY <1>2
    <3>. QED
      BY <2>1, <3>1, <3>2
  <2>2. CASE x # q
    <3>1. [Made EXCEPT ![q][d] = t][x] = [e \in Dirs |-> MadeAt(x, e)]
      BY <1>1, <2>2
    <3>2. Made'[x] = [e \in Dirs |-> MadeAt(x, e)']
      BY <1>2
    <3>. QED
      BY <2>2, <3>1, <3>2
  <2>. QED
    BY <2>1, <2>2
<1>4. DOMAIN Made' = Queues /\ DOMAIN Made = Queues
  BY <1>1, <1>2
<1>. QED
  BY <1>1, <1>2, <1>3, <1>4

\* A queue is made with its object, and is not unmade.
LEMMA UnbornMoves ==
    ASSUME IInv, Next
    PROVE  \A q \in Queues : /\ Unborn(q)' => Unborn(q)
                             /\ Unborn(q) => Unborn(q)' \/ q \in owned'
<1>. SUFFICES ASSUME NEW q \in Queues
              PROVE  /\ Unborn(q)' => Unborn(q)
                     /\ Unborn(q) => Unborn(q)' \/ q \in owned'
  OBVIOUS
<1>1. ASSUME Unborn(q)'
      PROVE  Unborn(q)
  <2>1. q \notin dead
    BY <1>1, StepMoves DEF Unborn
  <2>. QED
    BY <1>1, <2>1, StepMoves DEF Unborn, RefMove
<1>2. ASSUME Unborn(q)
      PROVE  Unborn(q)' \/ q \in owned'
  <2>1. /\ q \notin owned \cup clients /\ ~Executing(q) /\ \A a \in Actors : call[a].q # q
        /\ ref \in [Queues -> Int] /\ q \notin dead /\ ref[q] = 0 /\ LoopSound
    BY <1>2, UnbornUnused, TypeParts DEF IInv, QueuesTyped, Unborn
  <2>2. ASSUME ref'[q] = ref[q], dead' = dead
        PROVE  Unborn(q)'
    BY <2>1, <2>2 DEF Unborn
  <2>3. ASSUME NEW x, Adopt(x), dead' = dead
        PROVE  Unborn(q)' \/ q \in owned'
    BY <2>1, <2>3 DEF Adopt, Unborn
  <2>4. ASSUME NEW a, NEW y, NEW n, Release(a, y, n), y # q
        PROVE  Unborn(q)'
    <3>1. ref'[q] = ref[q] /\ dead' \subseteq dead \cup {y}
      BY <2>1, <2>4 DEF Release
    <3>. QED
      BY <2>1, <2>4, <3>1 DEF Unborn
  <2>5. ASSUME NEW a \in Actors, Program(a)
        PROVE  Unborn(q)' \/ q \in owned'
    <3>1. dead' = dead
      BY <2>5, ProgramMoves
    <3>2. ref' = ref \/ \E x \in Queues : Adopt(x)
      BY <2>5 DEF Program, BindA, ConnectA, Close, Destroy, Request, StopDispatch, queueVars
    <3>. QED
      BY <2>2, <2>3, <3>1, <3>2
  <2>6. ASSUME NEW a \in Actors, InCall(a)
        PROVE  Unborn(q)'
    <3>1. CASE Drop(a)
      BY <2>1, <2>4, <3>1 DEF Drop
    <3>2. CASE Retain(a)
      <4>1. ref' = [ref EXCEPT ![call[a].q] = @ + 1] /\ dead' = dead /\ call[a].q # q
        BY <2>1, <3>2 DEF Retain
      <4>. QED
        BY <2>1, <2>2, <4>1
    <3>3. CASE ~Drop(a) /\ ~Retain(a)
      BY <2>2, <2>6, <3>3 DEF InCall, Enqueue, ConnectAtOnce, Acquire, Refuse, Write, Join, queueVars
    <3>. QED
      BY <3>1, <3>2, <3>3
  <2>7. ASSUME NEW a \in Actors, Runs(a)
        PROVE  Unborn(q)'
    BY <2>2, <2>7, RunsLeaves
  <2>8. ASSUME Dispatching
        PROVE  Unborn(q)' \/ q \in owned'
    <3>1. CASE RemoveMarked
      <4>1. item.q # q
        BY <2>1, <3>1 DEF RemoveMarked, InLoop, LoopSound
      <4>. QED
        BY <2>2, <2>4, <3>1, <4>1 DEF RemoveMarked
    <3>2. CASE Renewed
      <4>1. item.q # q
        BY <2>1, <3>2 DEF Renewed, InLoop, Executing, Working
      <4>. QED
        BY <2>2, <2>4, <3>2, <4>1 DEF Renewed
    <3>3. CASE Forget
      <4>1. item.q # q
        BY <2>1, <3>3 DEF Forget, InLoop, Executing, Working
      <4>. QED
        BY <2>4, <3>3, <4>1 DEF Forget
    <3>4. CASE Exit
      BY <2>1, <2>2, <2>4, <3>4 DEF Exit
    <3>5. ASSUME NEW d \in Dirs, Accept(d)
          PROVE  Unborn(q)' \/ q \in owned'
      BY <2>2, <2>3, <3>5 DEF Accept
    <3>6. ASSUME ~RemoveMarked, ~Renewed, ~Forget, ~Exit, \A d \in Dirs : ~Accept(d)
          PROVE  UNCHANGED <<ref, dead>>
      BY <2>8, <3>6 DEF Dispatching, Loop, PollEvent, PollCommand, NothingDone, Finish, PeekRead,
         Revise, ThenWrite, ReadCommand, NoCommand, CancelNext, queueVars
    <3>. QED
      BY <2>2, <3>1, <3>2, <3>3, <3>4, <3>5, <3>6
  <2>. QED
    BY <2>5, <2>6, <2>7, <2>8 DEF Next, Dispatching
<1>. QED
  BY <1>1, <1>2

Closed == {q \in Listeners : cancels[q] > 0}
Abandoned == {q \in Queues \ owned : ~Unborn(q)}

LEMMA AbandonedKept ==
    ASSUME IInv, Next, owned \subseteq owned'
    PROVE  Abandoned' = Abandoned
<1>1. ASSUME NEW q \in Queues
      PROVE  q \in Abandoned' <=> q \in Abandoned
  <2>1. q \in owned' => q \in owned \/ Unborn(q)
    BY OwnedStep
  <2>2. (Unborn(q)' => Unborn(q)) /\ (Unborn(q) => Unborn(q)' \/ q \in owned')
    BY UnbornMoves
  <2>. QED
    BY <2>1, <2>2 DEF Abandoned
<1>. QED
  BY <1>1 DEF Abandoned

\* A step that is none of the ledger's.
LEMMA LedgerStutters ==
    ASSUME \A q \in Queues, d \in Dirs : MadeAt(q, d)' = MadeAt(q, d),
           UNCHANGED <<done, open>>, Closed' = Closed, Abandoned' = Abandoned
    PROVE  [Ledger!Next]_(Ledger!lvars)
<1>1. Made' = Made
  BY MadeFacts
<1>2. UNCHANGED Ledger!lvars
  BY <1>1 DEF Ledger!lvars, Closed, Abandoned
<1>. QED
  BY <1>2

LEMMA MadeSame ==
    ASSUME NEW q, NEW d, requests'[q][d] = requests[q][d], Unsent(q, d)' <=> Unsent(q, d)
    PROVE  MadeAt(q, d)' = MadeAt(q, d)
  BY DEF MadeAt

\* A request is in one queue, and not in any while its call waits.
LEMMA FreshFacts ==
    ASSUME IInv, NEW r \in Requests, done[r] = "no",
           Entering(r) \/ (/\ request[r].q \in Queues /\ DirOf(request[r].kind) \in Dirs
                           /\ requests[request[r].q][DirOf(request[r].kind)] # <<>>
                           /\ Last(requests[request[r].q][DirOf(request[r].kind)]) = r
                           /\ Unsent(request[r].q, DirOf(request[r].kind)))
    PROVE  Ledger!Fresh(r)
<1>1. RequestsInPlace /\ requests \in Waiting
  BY TypeParts DEF IInv, QueuesTyped
<1>2. ASSUME NEW q \in Queues, NEW d \in Dirs
      PROVE  r \notin ToSet(Made[q][d])
  <2>. DEFINE s == requests[q][d]
  <2>1. s \in Seq(Requests) /\ Made[q][d] = MadeAt(q, d)
    BY <1>1, MadeFacts DEF Waiting
  <2>2. /\ IsInjective(s)
        /\ r \in ToSet(s) => request[r].q = q /\ DirOf(request[r].kind) = d /\ ~Entering(r)
    BY <1>1 DEF RequestsInPlace
  <2>3. CASE r \notin ToSet(s)
    <3>1. CASE s = <<>>
      BY <2>1, <2>3, <3>1 DEF MadeAt, Front, ToSet
    <3>2. CASE s # <<>>
      <4>1. ToSet(Front(s)) \subseteq ToSet(s)
        BY <2>1, <3>2, FrontFacts
      <4>. QED
        BY <2>1, <2>3, <4>1 DEF MadeAt
    <3>. QED
      BY <3>1, <3>2
  <2>4. CASE r \in ToSet(s)
    <3>1. s # <<>> /\ Last(s) = r /\ Unsent(q, d)
      BY <2>2, <2>4
    <3>2. Last(s) \notin ToSet(Front(s))
      BY <2>1, <2>2, <3>1, FrontFacts
    <3>. QED
      BY <2>1, <3>1, <3>2 DEF MadeAt
  <2>. QED
    BY <2>3, <2>4
<1>3. \A q \in Queues, d \in Dirs : r \notin ToSet(Made[q][d])
  BY <1>2
<1>. QED
  BY <1>3 DEF Ledger!Fresh, Ledger!ToSet, ToSet

LEMMA ProgramLedger ==
    ASSUME IInv, Next, NEW a \in Actors, Program(a)
    PROVE  [Ledger!Next]_(Ledger!lvars)
<1>1. TypeOK /\ CallsSound /\ cancels \in [Listeners -> 0 .. MaxCancels] /\ MaxCancels \in Nat
      /\ Renew # Leave /\ Renew # Cancel
  BY TypeParts, Distinctness DEF IInv, ReqsTyped
<1>2. pc[a] = "idle" /\ UNCHANGED <<requests, done>>
  BY ProgramMoves
<1>3. /\ \A b \in Actors \ {a} : pc'[b] = pc[b] /\ call'[b] = call[b]
      /\ ~Asks(a) /\ ~Asks(a)'
  <2>1. ASSUME NEW l \in {"lock", "acquire", "join"}, NEW c, Moved(a, l, c),
               l = "acquire" => c.cmd # Renew
        PROVE  /\ \A b \in Actors \ {a} : pc'[b] = pc[b] /\ call'[b] = call[b]
               /\ ~Asks(a)'
    BY <2>1 DEF Moved, Asks
  <2>2. [cmd |-> Cancel, q |-> call'[a].q, r |-> 0].cmd = Cancel
        /\ [cmd |-> Leave, q |-> call'[a].q, r |-> 0].cmd = Leave
    OBVIOUS
  <2>3. ~Asks(a) /\ (UNCHANGED <<pc, call>> => ~Asks(a)')
    BY <1>2 DEF Asks
  <2>. QED
    BY <1>1, <1>2, <2>1, <2>2, <2>3, ProgramMoves
<1>4. ASSUME NEW q \in Queues, NEW d \in Dirs
      PROVE  MadeAt(q, d)' = MadeAt(q, d)
  <2>1. Unsent(q, d)' <=> Unsent(q, d)
    BY <1>3, UnsentKept DEF Asks
  <2>. QED
    BY <1>2, <2>1, MadeSame
<1>5. Made' = Made
  BY <1>4, MadeFacts
<1>6. ASSUME NEW x \in Queues, Close(a, x)
      PROVE  Ledger!Next
  <2>1. /\ x \in Listeners /\ cancels' = [cancels EXCEPT ![x] = @ + 1]
        /\ UNCHANGED <<owned, ref, dead, open>>
    BY <1>6 DEF Close, queueVars, pipeVars
  <2>2. Closed' = Closed \cup {x}
    BY <1>1, <2>1 DEF Closed
  <2>3. Abandoned' = Abandoned
    BY <2>1 DEF Abandoned, Unborn
  <2>4. Ledger!Close(x)
    BY <1>2, <1>5, <2>1, <2>2, <2>3 DEF Ledger!Close, Closed, Abandoned
  <2>. QED
    BY <2>4 DEF Ledger!Next
<1>7. ASSUME NEW x \in Queues, Destroy(a, x)
      PROVE  Ledger!Next
  <2>1. /\ x \in owned /\ owned' = owned \ {x} /\ UNCHANGED <<ref, dead, open, cancels>>
    BY <1>7 DEF Destroy, reqVars, pipeVars
  <2>2. ~Unborn(x)
    BY <2>1, KnownAlive
  <2>3. Abandoned' = Abandoned \cup {x}
    BY <2>1, <2>2 DEF Abandoned, Unborn
  <2>4. Closed' = Closed
    BY <2>1 DEF Closed
  <2>5. Ledger!Abandon(x)
    BY <1>2, <1>5, <2>1, <2>3, <2>4 DEF Ledger!Abandon, Closed, Abandoned
  <2>. QED
    BY <2>5 DEF Ledger!Next
<1>8. ASSUME StopDispatch(a)
      PROVE  Ledger!Next
  <2>1. /\ open' = FALSE /\ UNCHANGED <<owned, ref, dead, cancels>>
    BY <1>8 DEF StopDispatch, reqVars, queueVars
  <2>2. Closed' = Closed /\ Abandoned' = Abandoned
    BY <2>1 DEF Closed, Abandoned, Unborn
  <2>3. Ledger!Stop
    BY <1>2, <1>5, <2>1, <2>2 DEF Ledger!Stop, Closed, Abandoned
  <2>. QED
    BY <2>3 DEF Ledger!Next
<1>9. ASSUME ~StopDispatch(a), \A x \in Queues : ~Close(a, x) /\ ~Destroy(a, x)
      PROVE  [Ledger!Next]_(Ledger!lvars)
  <2>1. owned \subseteq owned' /\ UNCHANGED <<cancels, open>>
    BY <1>9 DEF Program, BindA, ConnectA, Request, Enter, Adopt, reqVars, pipeVars
  <2>2. Closed' = Closed /\ Abandoned' = Abandoned
    BY <2>1, AbandonedKept DEF Closed
  <2>. QED
    BY <1>2, <1>4, <2>1, <2>2, LedgerStutters
<1>. QED
  BY <1>6, <1>7, <1>8, <1>9


\* The call that asks for a queue is the only one, and has its lock.
LEMMA AskerGone ==
    ASSUME IInv, Next, NEW a \in Actors, Asks(a), ~Asks(a)',
           \A b \in Actors \ {a} : pc'[b] = pc[b] /\ call'[b] = call[b],
           NEW q, q = call[a].q, NEW d, d = DirOf(request[call[a].r].kind)
    PROVE  /\ Unsent(q, d) /\ ~Unsent(q, d)'
           /\ \A x \in Queues, e \in Dirs : x # q \/ e # d => (Unsent(x, e)' <=> Unsent(x, e))
<1>1. LocksHeld /\ q \in Queues
  BY LastSent DEF IInv, Asks
<1>2. \A b \in Actors \ {a} : ~(Asks(b) /\ call[b].q = q)
  BY <1>1 DEF LocksHeld, Sending, Asks
<1>3. \A b \in Actors : ~(Asks(b)' /\ call'[b].q = q)
  BY <1>2 DEF Asks
<1>4. Unsent(q, d)
  BY DEF Unsent, Asks
<1>5. \A e : ~Unsent(q, e)'
  BY <1>3 DEF Unsent, Asks
<1>6. \A e : e # d => ~Unsent(q, e)
  BY <1>2 DEF Unsent, Asks
<1>7. ASSUME NEW x \in Queues, NEW e \in Dirs, x # q
      PROVE  Unsent(x, e)' <=> Unsent(x, e)
  <2>1. \A b \in Actors : call[b].q = x /\ Asks(b) => Asks(b)' /\ call'[b] = call[b]
    BY <1>7 DEF Asks
  <2>2. \A b \in Actors : call'[b].q = x /\ Asks(b)' => Asks(b) /\ call'[b] = call[b]
    BY DEF Asks
  <2>. QED
    BY <2>1, <2>2, UnsentKept
<1>. QED
  BY <1>4, <1>5, <1>6, <1>7

\* A call that does not ask, before or after, asks for nothing new.
LEMMA UnaskedKept ==
    ASSUME IInv, Next, NEW a \in Actors, ~Asks(a), ~Asks(a)',
           \A b \in Actors \ {a} : pc'[b] = pc[b] /\ call'[b] = call[b]
    PROVE  \A q \in Queues, d \in Dirs : Unsent(q, d)' <=> Unsent(q, d)
<1>1. ASSUME NEW q \in Queues, NEW d \in Dirs
      PROVE  Unsent(q, d)' <=> Unsent(q, d)
  <2>1. \A b \in Actors : call[b].q = q /\ Asks(b) => Asks(b)' /\ call'[b] = call[b]
    BY DEF Asks
  <2>2. \A b \in Actors : call'[b].q = q /\ Asks(b)' => Asks(b) /\ call'[b] = call[b]
    BY DEF Asks
  <2>. QED
    BY <2>1, <2>2, UnsentKept
<1>. QED
  BY <1>1

LEMMA EnqueueLedger ==
    ASSUME IInv, Next, NEW a \in Actors, Enqueue(a),
           NEW q, q = call[a].q, NEW r, r = call[a].r, NEW d, d = DirOf(request[r].kind)
    PROVE  done' = done /\ \A x \in Queues, e \in Dirs : MadeAt(x, e)' = MadeAt(x, e)
<1>. DEFINE s == requests[q][d]
<1>1. /\ pc[a] = "lock" /\ sync[q] = NoOne /\ Goto(a, "acquire")
      /\ requests' = [requests EXCEPT ![q][d] = Append(@, r)]
      /\ UNCHANGED <<made, request, done, cancels>>
  BY DEF Enqueue, reqVars
<1>2. /\ requests \in Waiting /\ pc \in PcType /\ call \in [Actors -> Calls] /\ q \in Queues
      /\ r \in Requests /\ call[a].cmd = Renew /\ CallsSound
  BY <1>1, NamedQueues, TypeParts DEF IInv, QueuesTyped, ActorsTyped, CallsSound
<1>3. d \in Dirs /\ s \in Seq(Requests)
  BY <1>2 DEF DirOf, Dirs, Waiting
<1>4. /\ pc'[a] = "acquire" /\ call'[a] = call[a]
      /\ \A b \in Actors \ {a} : pc'[b] = pc[b] /\ call'[b] = call[b]
  BY <1>1, <1>2, GotoMoves DEF Moved
<1>5. /\ requests'[q][d] = Append(s, r)
      /\ \A x \in Queues, e \in Dirs : x # q \/ e # d => requests'[x][e] = requests[x][e]
  BY <1>1, <1>2, <1>3 DEF Waiting
<1>6. NobodySends(q)
  BY <1>1, <1>2, UnlockedQuiet
<1>7. \A e : ~Unsent(q, e)
  BY <1>6, UnsentQuiet
<1>8. Unsent(q, d)'
  BY <1>1, <1>2, <1>4 DEF Unsent
<1>9. \A e : e # d => ~Unsent(q, e)'
  BY <1>1, <1>4, <1>6 DEF Unsent, NobodySends
<1>10. Front(Append(s, r)) = s
  BY <1>2, <1>3, FrontOfAppend
<1>. HIDE DEF s
<1>11. ASSUME NEW x \in Queues, NEW e \in Dirs
       PROVE  MadeAt(x, e)' = MadeAt(x, e)
  <2>1. CASE x = q /\ e = d
    BY <1>5, <1>7, <1>8, <1>10, <2>1 DEF MadeAt, s
  <2>2. CASE x = q /\ e # d
    BY <1>5, <1>7, <1>9, <2>2 DEF MadeAt
  <2>3. CASE x # q
    <3>1. \A b \in Actors : call[b].q = x /\ Asks(b) => Asks(b)' /\ call'[b] = call[b]
      BY <1>4, <2>3 DEF Asks
    <3>2. \A b \in Actors : call'[b].q = x /\ Asks(b)' => Asks(b) /\ call'[b] = call[b]
      BY <1>4, <2>3 DEF Asks
    <3>3. Unsent(x, e)' <=> Unsent(x, e)
      BY <3>1, <3>2, UnsentKept
    <3>. QED
      BY <1>5, <2>3, <3>3 DEF MadeAt
  <2>. QED
    BY <2>1, <2>2, <2>3
<1>. QED
  BY <1>1, <1>11

LEMMA AcquireLedger ==
    ASSUME IInv, Next, NEW a \in Actors, Acquire(a), call[a].cmd = Renew,
           Closed' = Closed, Abandoned' = Abandoned,
           NEW q, q = call[a].q, NEW r, r = call[a].r, NEW d, d = DirOf(request[r].kind)
    PROVE  Ledger!Submit(q, d, r)
<1>. DEFINE s == requests[q][d]
<1>1. /\ pc[a] = "acquire" /\ open /\ Goto(a, "write") /\ UNCHANGED <<requests, done, open>>
  BY DEF Acquire, queueVars, reqVars
<1>2. /\ q \in Queues /\ q \in owned /\ d \in Dirs /\ r \in Requests
      /\ s \in Seq(Requests) /\ s # <<>> /\ Last(s) = r
      /\ RequestsInPlace
  BY <1>1, LastSent DEF IInv
<1>3. /\ pc'[a] = "write" /\ \A b \in Actors \ {a} : pc'[b] = pc[b] /\ call'[b] = call[b]
  BY <1>1, GotoMoves, TypeParts DEF Moved, IInv, ActorsTyped
<1>4. /\ Unsent(q, d) /\ ~Unsent(q, d)'
      /\ \A x \in Queues, e \in Dirs : x # q \/ e # d => (Unsent(x, e)' <=> Unsent(x, e))
  BY <1>1, <1>3, AskerGone DEF Asks
<1>5. MadeAt(q, d) = Front(s) /\ MadeAt(q, d)' = s
  BY <1>1, <1>4 DEF MadeAt
<1>6. \A x \in Queues, e \in Dirs : x # q \/ e # d => MadeAt(x, e)' = MadeAt(x, e)
  BY <1>1, <1>4 DEF MadeAt
<1>7. s = Append(Made[q][d], r)
  BY <1>2, <1>5, MadeFacts, AppendOfFront
<1>8. Made' = [Made EXCEPT ![q][d] = Append(Made[q][d], r)]
  <2>1. q \in Queues /\ d \in Dirs
    BY <1>2
  <2>. DEFINE t == Append(Made[q][d], r)
  <2>2. MadeAt(q, d)' = t
    BY <1>5, <1>7
  <2>. HIDE DEF s, t
  <2>3. Made' = [Made EXCEPT ![q][d] = t]
    BY <1>6, <2>1, <2>2, MadeChanges
  <2>. QED
    BY <2>3 DEF t
<1>9. r \in ToSet(s) /\ done[r] = "no" /\ request[r].q = q
  <2>1. r \in ToSet(s)
    BY <1>2, FrontFacts
  <2>. QED
    BY <1>2, <2>1 DEF RequestsInPlace
<1>10. Ledger!Fresh(r)
  BY <1>2, <1>4, <1>9, FreshFacts
<1>11. q \notin Abandoned
  BY <1>2 DEF Abandoned
<1>. HIDE DEF s
<1>. QED
  BY <1>1, <1>8, <1>10, <1>11 DEF Ledger!Submit, Closed, Abandoned

LEMMA RefuseLedger ==
    ASSUME IInv, Next, NEW a \in Actors, Refuse(a), call[a].cmd = Renew,
           Closed' = Closed, Abandoned' = Abandoned,
           NEW q, q = call[a].q, NEW r, r = call[a].r, NEW d, d = DirOf(request[r].kind)
    PROVE  Ledger!AtOnce(r, "refused")
<1>. DEFINE s == requests[q][d]
<1>1. /\ pc[a] = "acquire" /\ ~open /\ open' = open
      /\ requests' = [requests EXCEPT ![q][d] = Front(@)] /\ End(r, "refused")
      /\ Goto(a, "idle")
  BY Distinctness DEF Refuse, pipeVars
<1>2. /\ q \in Queues /\ q \in owned /\ d \in Dirs /\ r \in Requests
      /\ s \in Seq(Requests) /\ s # <<>> /\ Last(s) = r
      /\ RequestsInPlace /\ requests \in Waiting
  BY <1>1, LastSent, TypeParts DEF IInv, QueuesTyped
<1>3. /\ pc'[a] = "idle" /\ \A b \in Actors \ {a} : pc'[b] = pc[b] /\ call'[b] = call[b]
  BY <1>1, GotoMoves, TypeParts DEF Moved, IInv, ActorsTyped
<1>4. /\ Unsent(q, d) /\ ~Unsent(q, d)'
      /\ \A x \in Queues, e \in Dirs : x # q \/ e # d => (Unsent(x, e)' <=> Unsent(x, e))
  BY <1>1, <1>3, AskerGone DEF Asks
<1>5. /\ requests'[q][d] = Front(s)
      /\ \A x \in Queues, e \in Dirs : x # q \/ e # d => requests'[x][e] = requests[x][e]
  BY <1>1, <1>2 DEF Waiting
<1>6. ASSUME NEW x \in Queues, NEW e \in Dirs
      PROVE  MadeAt(x, e)' = MadeAt(x, e)
  <2>1. CASE x = q /\ e = d
    BY <1>4, <1>5, <2>1 DEF MadeAt
  <2>2. CASE x # q \/ e # d
    BY <1>4, <1>5, <2>2 DEF MadeAt
  <2>. QED
    BY <2>1, <2>2
<1>7. Made' = Made
  BY <1>6, MadeFacts
<1>8. r \in ToSet(s) /\ done[r] = "no" /\ request[r].q = q
  <2>1. r \in ToSet(s)
    BY <1>2, FrontFacts
  <2>. QED
    BY <1>2, <2>1 DEF RequestsInPlace
<1>9. Ledger!Fresh(r)
  BY <1>2, <1>4, <1>8, FreshFacts
<1>. QED
  BY <1>1, <1>7, <1>9 DEF Ledger!AtOnce, Ledger!Ends, End, Closed, Abandoned

LEMMA InCallLedger ==
    ASSUME IInv, Next, NEW a \in Actors, InCall(a)
    PROVE  [Ledger!Next]_(Ledger!lvars)
<1>1. pc \in PcType /\ call \in [Actors -> Calls] /\ CallsSound
  BY TypeParts DEF IInv, ActorsTyped
<1>2. UNCHANGED <<owned, cancels, open>>
  BY InCallMoves DEF InCall, Enqueue, ConnectAtOnce, Acquire, Refuse, Write, Retain, Drop, Join, pipeVars
<1>3. Closed' = Closed /\ Abandoned' = Abandoned
  BY <1>2, AbandonedKept DEF Closed
<1>4. CASE Enqueue(a)
  BY <1>2, <1>3, <1>4, EnqueueLedger, LedgerStutters
<1>5. CASE Acquire(a) /\ call[a].cmd = Renew
  <2>. DEFINE q == call[a].q
              r == call[a].r
              d == DirOf(request[r].kind)
  <2>1. q \in Queues /\ r \in Requests /\ d \in Dirs
    BY <1>5, LastSent DEF Acquire
  <2>2. Ledger!Submit(q, d, r)
    BY <1>3, <1>5, AcquireLedger
  <2>. HIDE DEF q, r, d
  <2>. QED
    BY <2>1, <2>2 DEF Ledger!Next
<1>6. CASE Refuse(a) /\ call[a].cmd = Renew
  <2>. DEFINE r == call[a].r
  <2>1. r \in Requests
    BY <1>6, LastSent DEF Refuse
  <2>2. Ledger!AtOnce(r, "refused")
    BY <1>3, <1>6, RefuseLedger
  <2>. HIDE DEF r
  <2>. QED
    BY <2>1, <2>2 DEF Ledger!Next
<1>7. ASSUME ~Asks(a), ~Asks(a)', requests' = requests,
             \A b \in Actors \ {a} : pc'[b] = pc[b] /\ call'[b] = call[b]
      PROVE  \A q \in Queues, d \in Dirs : MadeAt(q, d)' = MadeAt(q, d)
  <2>1. \A q \in Queues, d \in Dirs : Unsent(q, d)' <=> Unsent(q, d)
    BY <1>7, UnaskedKept
  <2>. QED
    BY <1>7, <2>1 DEF MadeAt
<1>8. CASE ConnectAtOnce(a)
  <2>. DEFINE r == call[a].r
  <2>1. /\ pc[a] = "lock" /\ Goto(a, "idle") /\ End(r, "finished") /\ requests' = requests
    BY <1>8 DEF ConnectAtOnce, queueVars
  <2>2. /\ pc'[a] = "idle" /\ \A b \in Actors \ {a} : pc'[b] = pc[b] /\ call'[b] = call[b]
    BY <1>1, <2>1, GotoMoves DEF Moved
  <2>3. Made' = Made
    BY <1>7, <2>1, <2>2, MadeFacts DEF Asks
  <2>4. r \in Requests /\ done[r] = "no" /\ Entering(r)
    BY <2>1, NamedQueues DEF IInv, RequestsFresh, Entering
  <2>5. Ledger!Fresh(r)
    BY <2>4, FreshFacts
  <2>. HIDE DEF r
  <2>6. Ledger!AtOnce(r, "finished")
    BY <1>2, <1>3, <2>1, <2>3, <2>5 DEF Ledger!AtOnce, Ledger!Ends, End, Closed, Abandoned
  <2>. QED
    BY <2>4, <2>6 DEF Ledger!Next
<1>9. ASSUME ~Enqueue(a), ~ConnectAtOnce(a), ~((Acquire(a) \/ Refuse(a)) /\ call[a].cmd = Renew)
      PROVE  [Ledger!Next]_(Ledger!lvars)
  <2>1. UNCHANGED <<requests, done>>
    BY <1>9 DEF InCall, Acquire, Refuse, Write, Retain, Drop, Join, queueVars, reqVars
  <2>2. ~Asks(a)
    BY <1>9 DEF InCall, Acquire, Refuse, Write, Retain, Drop, Join, Asks
  <2>3. PICK l \in {"idle", "write", "retain", "drop"} : Goto(a, l)
    BY <1>9 DEF InCall, Acquire, Refuse, Write, Retain, Drop, Join
  <2>4. /\ pc'[a] # "acquire" /\ \A b \in Actors \ {a} : pc'[b] = pc[b] /\ call'[b] = call[b]
    BY <1>1, <2>3, GotoMoves DEF Moved
  <2>5. \A q \in Queues, d \in Dirs : MadeAt(q, d)' = MadeAt(q, d)
    BY <1>7, <2>1, <2>2, <2>4 DEF Asks
  <2>. QED
    BY <1>2, <1>3, <2>1, <2>5, LedgerStutters
<1>. QED
  BY <1>4, <1>5, <1>6, <1>8, <1>9

LEMMA DispatchingLedger ==
    ASSUME IInv, Next, Dispatching \/ \E a \in Actors : Runs(a)
    PROVE  [Ledger!Next]_(Ledger!lvars)
<1>1. /\ owned \subseteq owned' /\ UNCHANGED <<pc, call, cancels, open>>
  BY DispatchingLeaves, RunsLeaves DEF pipeVars
<1>2. Closed' = Closed /\ Abandoned' = Abandoned
  BY <1>1, AbandonedKept DEF Closed
<1>3. \A x \in Queues, e \in Dirs : Unsent(x, e)' <=> Unsent(x, e)
  <2>. QED
    BY <1>1, UnsentKept DEF Asks
<1>4. CASE UNCHANGED <<requests, done>>
  <2>1. \A x \in Queues, e \in Dirs : MadeAt(x, e)' = MadeAt(x, e)
    BY <1>3, <1>4 DEF MadeAt
  <2>. QED
    BY <1>1, <1>2, <1>4, <2>1, LedgerStutters
<1>5. ASSUME NEW q \in Queues, NEW d \in Dirs, NEW how \in {"finished", "cancelled"},
             HeadGone(q, d, how)
      PROVE  Ledger!Complete(q, d, how)
  <2>. DEFINE s == requests[q][d]
  <2>1. /\ s # <<>> /\ requests' = [requests EXCEPT ![q][d] = Tail(@)] /\ End(Head(s), how)
        /\ how = "cancelled" => q \in dead \/ (q \in Listeners /\ cancels[q] > 0)
        /\ sync[q] = NoOne \/ q \in dead
    BY <1>5 DEF HeadGone
  <2>2. requests \in Waiting /\ NotDestroyedInUse
    BY TypeParts DEF IInv, QueuesTyped
  <2>3. /\ requests'[q][d] = Tail(s)
        /\ \A x \in Queues, e \in Dirs : x # q \/ e # d => requests'[x][e] = requests[x][e]
    BY <2>1, <2>2 DEF Waiting
  <2>4. ~Unsent(q, d)
    BY <2>1, UnlockedQuiet, UnsentQuiet
  <2>5. Made[q][d] = s /\ MadeAt(q, d)' = Tail(s)
    BY <1>3, <2>3, <2>4, MadeFacts DEF MadeAt
  <2>6. \A x \in Queues, e \in Dirs : x # q \/ e # d => MadeAt(x, e)' = MadeAt(x, e)
    BY <1>3, <2>3 DEF MadeAt
  <2>7. Made' = [Made EXCEPT ![q][d] = Tail(Made[q][d])]
    <3>1. MadeAt(q, d)' = Tail(Made[q][d])
      BY <2>5
    <3>. HIDE DEF s
    <3>. QED
      BY <2>6, <3>1, MadeChanges
  <2>8. how = "cancelled" => q \in Closed \cup Abandoned
    BY <2>1, <2>2 DEF NotDestroyedInUse, Closed, Abandoned, Unborn
  <2>9. Made[q][d] # <<>> /\ End(Head(Made[q][d]), how)
    BY <2>1, <2>5
  <2>. HIDE DEF s
  <2>. QED
    BY <1>1, <1>2, <2>7, <2>8, <2>9 DEF Ledger!Complete, Ledger!Ends, End, Closed, Abandoned
<1>6. CASE HeadsGo
  BY <1>5, <1>6 DEF HeadsGo, Ledger!Next
<1>. QED
  BY <1>4, <1>6, DispatchingEnds

LEMMA InitLedger ==
    ASSUME Init
    PROVE  Ledger!Init
<1>1. \A q, d : ~Unsent(q, d)
  BY DEF Init, Unsent
<1>2. Made = [q \in Queues |-> [d \in Dirs |-> <<>>]]
  <2>1. \A q \in Queues, d \in Dirs : requests[q][d] = <<>>
    BY DEF Init
  <2>. QED
    BY <1>1, <2>1 DEF Made
<1>3. {q \in Listeners : cancels[q] > 0} = {}
  BY DEF Init
<1>4. {q \in Queues \ owned : ~Unborn(q)} = {}
  BY DEF Init, Unborn
<1>. QED
  BY <1>2, <1>3, <1>4 DEF Init, Ledger!Init

LEMMA StepLedger ==
    ASSUME IInv, [Next]_vars
    PROVE  [Ledger!Next]_(Ledger!lvars)
<1>1. CASE Next
  BY <1>1, ProgramLedger, InCallLedger, DispatchingLedger DEF Next, Dispatching
<1>2. CASE UNCHANGED vars
  <2>1. UNCHANGED <<requests, done, cancels, owned, open, ref, dead, pc, call, request>>
    BY <1>2 DEF vars, queueVars, reqVars, pipeVars, actorVars
  <2>2. \A q, d : Unsent(q, d)' <=> Unsent(q, d)
    BY <2>1 DEF Unsent
  <2>3. \A q \in Queues, d \in Dirs : MadeAt(q, d)' = MadeAt(q, d)
    BY <2>1, <2>2 DEF MadeAt
  <2>4. Closed' = Closed /\ Abandoned' = Abandoned
    BY <2>1 DEF Closed, Abandoned, Unborn
  <2>. QED
    BY <2>1, <2>3, <2>4, LedgerStutters
<1>. QED
  BY <1>1, <1>2

(* The engine keeps the promises of RequestLedger: requests of one object  *)
(* and one direction end in the order in which they were made, each once,  *)
(* are cancelled only if their listener was closed or their object         *)
(* destroyed, and refused only if the engine has stopped.                  *)
THEOREM EngineImplementsLedger == Spec /\ [][InTime]_vars => ImplementsLedger
BY EngineInvariant, InitLedger, StepLedger, PTL DEF Spec, ImplementsLedger, Ledger!Spec

----------------------------------------------------------------------------
(* What the invariant says of a program.                                   *)

(* Closing a listener never takes its queue away from the object that owns *)
(* it, but by the release before its time that network_close shows.        *)
THEOREM ObjectsKeepTheirQueues == Spec /\ [][InTime]_vars => []ObjectsKeepQueues
<1>1. IInv => ObjectsKeepQueues
  BY DEF IInv, NotDestroyedInUse, ObjectsKeepQueues
<1>. QED
  BY <1>1, EngineInvariant, PTL

(* No request is forgotten: the dispatcher polls for the request at the    *)
(* head of each queue, or is told of it, or is about to look.              *)
THEOREM NoRequestForgotten == Spec /\ [][InTime]_vars => []NothingForgotten
<1>1. IInv => NothingForgotten
  BY DEF IInv
<1>. QED
  BY <1>1, EngineInvariant, PTL

\* A request that has ended keeps the outcome it had.
EndedOnce == \A r \in Requests : done[r] # "no" => done'[r] = done[r]

LEMMA StepEndsOnce ==
    ASSUME IInv, [Next]_vars
    PROVE  EndedOnce
<1>1. /\ done \in [Requests -> Statuses \cup {"no"}] /\ requests \in Waiting
      /\ RequestsInPlace /\ RequestsFresh
  BY TypeParts DEF IInv, ReqsTyped, QueuesTyped
<1>2. ASSUME NEW x \in Requests, NEW how, End(x, how), done[x] = "no"
      PROVE  EndedOnce
  BY <1>1, <1>2 DEF End, EndedOnce
<1>3. ASSUME done' = done
      PROVE  EndedOnce
  BY <1>3 DEF EndedOnce
<1>4. ASSUME NEW a \in Actors, Program(a)
      PROVE  EndedOnce
  BY <1>3, <1>4, ProgramMoves
<1>5. ASSUME NEW a \in Actors, InCall(a)
      PROVE  EndedOnce
  <2>1. CASE ConnectAtOnce(a)
    <3>1. pc[a] = "lock" /\ End(call[a].r, "finished")
      BY <2>1 DEF ConnectAtOnce
    <3>2. call[a].r \in Requests /\ done[call[a].r] = "no"
      BY <1>1, <3>1, NamedQueues DEF RequestsFresh
    <3>. QED
      BY <1>2, <3>1, <3>2
  <2>2. CASE Refuse(a) /\ call[a].cmd = Renew
    <3>. DEFINE q == call[a].q
                r == call[a].r
                d == DirOf(request[r].kind)
                s == requests[q][d]
    <3>1. pc[a] = "acquire" /\ End(r, "refused")
      BY <2>2 DEF Refuse
    <3>2. /\ q \in Queues /\ d \in Dirs /\ r \in Requests
          /\ s \in Seq(Requests) /\ s # <<>> /\ Last(s) = r
      BY <2>2, <3>1, LastSent
    <3>3. r \in ToSet(s)
      BY <3>2, FrontFacts
    <3>4. done[r] = "no"
      BY <1>1, <3>2, <3>3 DEF RequestsInPlace
    <3>. QED
      BY <1>2, <3>1, <3>2, <3>4
  <2>3. CASE ~ConnectAtOnce(a) /\ ~(Refuse(a) /\ call[a].cmd = Renew)
    BY <1>3, <1>5, <2>3
       DEF InCall, Enqueue, Acquire, Refuse, Write, Retain, Drop, Join, reqVars
  <2>. QED
    BY <2>1, <2>2, <2>3
<1>6. CASE HeadsGo
  <2>1. PICK q \in Queues, d \in Dirs, how \in {"finished", "cancelled"} : HeadGone(q, d, how)
    BY <1>6 DEF HeadsGo
  <2>2. requests[q][d] \in Seq(Requests) /\ requests[q][d] # <<>>
    BY <1>1, <2>1 DEF HeadGone, Waiting
  <2>3. /\ Head(requests[q][d]) \in Requests /\ Head(requests[q][d]) \in ToSet(requests[q][d])
    BY <2>2, TailFacts
  <2>4. done[Head(requests[q][d])] = "no"
    BY <1>1, <2>3 DEF RequestsInPlace
  <2>. QED
    BY <1>2, <2>1, <2>3, <2>4 DEF HeadGone
<1>7. ASSUME Dispatching \/ \E a \in Actors : Runs(a)
      PROVE  EndedOnce
  BY <1>3, <1>6, <1>7, DispatchingEnds
<1>8. CASE UNCHANGED vars
  BY <1>3, <1>8 DEF vars, reqVars
<1>. QED
  BY <1>4, <1>5, <1>7, <1>8 DEF Next, Dispatching

(* A request ends once: its handler is told of one outcome only, whoever   *)
(* runs it: the caller, the dispatcher or the destructor of the queue.     *)
THEOREM RequestsEndOnce == Spec /\ [][InTime]_vars => [][EndedOnce]_vars
BY EngineInvariant, StepEndsOnce, PTL DEF Spec
=============================================================================

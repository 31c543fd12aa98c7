---------------------------- MODULE ConsoleProofs ----------------------------
(***************************************************************************)
(* Proofs about the console for any number of programs, keys and calls:    *)
(* the invariant of ConsoleInvariant is inductive, it gives the safety     *)
(* properties, and every step of the console is a step of InputStream or   *)
(* none.                                                                   *)
(***************************************************************************)
EXTENDS ConsoleInvariant, SequenceTheorems, TLAPS

(***************************************************************************)
(* Sequences.                                                              *)
(***************************************************************************)

LEMMA AppendFacts ==
    ASSUME NEW S, NEW q \in Seq(S), NEW e \in S
    PROVE  /\ Append(q, e) \in Seq(S)
           /\ DOMAIN Append(q, e) = 1 .. Len(q) + 1
           /\ \A i \in 1 .. Len(q) : Append(q, e)[i] = q[i]
           /\ Append(q, e)[Len(q) + 1] = e
  BY AppendProperties, LenProperties

LEMMA TailFacts ==
    ASSUME NEW S, NEW q \in Seq(S), q # <<>>
    PROVE  /\ Len(q) \in Nat \ {0}
           /\ Head(q) \in S /\ Head(q) = q[1]
           /\ Tail(q) \in Seq(S)
           /\ DOMAIN Tail(q) = 1 .. Len(q) - 1
           /\ \A i \in 1 .. Len(q) - 1 : Tail(q)[i] = q[i + 1]
  BY HeadTailProperties, LenProperties, EmptySeq

LEMMA RemoveAtFacts ==
    ASSUME NEW S, NEW q \in Seq(S), NEW i \in DOMAIN q
    PROVE  /\ RemoveAt(q, i) \in Seq(S)
           /\ ToSet(RemoveAt(q, i)) \subseteq ToSet(q)
<1>0. i \in 1 .. Len(q) /\ Len(q) \in Nat /\ DOMAIN q = 1 .. Len(q)
  BY LenProperties
<1>. DEFINE a == SubSeq(q, 1, i - 1)
            b == SubSeq(q, i + 1, Len(q))
<1>1. /\ a \in Seq(S)
      /\ \A j \in 1 .. Len(a) : a[j] \in ToSet(q)
  <2>1. \A j \in 1 .. i - 1 : q[j] \in S
    BY <1>0, ElementOfSeq
  <2>2. /\ a \in Seq(S)
        /\ Len(a) = IF 1 <= i - 1 THEN i - 1 ELSE 0
        /\ \A j \in 1 .. i - 1 : a[j] = q[j]
    BY <1>0, <2>1, SubSeqProperties
  <2>. QED
    BY <1>0, <2>2 DEF ToSet
<1>2. /\ b \in Seq(S)
      /\ \A j \in 1 .. Len(b) : b[j] \in ToSet(q)
  <2>1. \A j \in i + 1 .. Len(q) : q[j] \in S
    BY <1>0, ElementOfSeq
  <2>2. /\ b \in Seq(S)
        /\ Len(b) = IF i + 1 <= Len(q) THEN Len(q) - i ELSE 0
        /\ \A j \in 1 .. Len(q) - i : b[j] = q[i + j]
    BY <1>0, <2>1, SubSeqProperties
  <2>. QED
    BY <1>0, <2>2 DEF ToSet
<1>. HIDE DEF a, b
<1>3. a \o b \in Seq(S) /\ Len(a \o b) = Len(a) + Len(b)
  BY <1>1, <1>2, ConcatProperties
<1>4. ASSUME NEW j \in DOMAIN (a \o b) PROVE (a \o b)[j] \in ToSet(q)
  <2>1. /\ Len(a) \in Nat /\ Len(b) \in Nat
        /\ j \in 1 .. Len(a) + Len(b)
    BY <1>1, <1>2, <1>3, LenProperties
  <2>2. (a \o b)[j] = IF j <= Len(a) THEN a[j] ELSE b[j - Len(a)]
    BY <1>1, <1>2, <2>1, ConcatProperties
  <2>. QED
    BY <1>1, <1>2, <2>1, <2>2
<1>5. ToSet(a \o b) \subseteq ToSet(q)
  BY <1>4 DEF ToSet
<1>. QED
  BY <1>3, <1>5 DEF RemoveAt, a, b

(***************************************************************************)
(* Keys in sequences.                                                      *)
(***************************************************************************)

LEMMA AppendKeys ==
    ASSUME NEW S, NEW q \in Seq(S), NEW m \in S
    PROVE  KeysOf(Append(q, m)) = KeysOf(q) \cup (IF m.type = "key" THEN {m.n} ELSE {})
<1>. DEFINE p == Append(q, m)
<1>1. /\ DOMAIN p = 1 .. Len(q) + 1 /\ DOMAIN q = 1 .. Len(q) /\ Len(q) \in Nat
      /\ \A i \in 1 .. Len(q) : p[i] = q[i]
      /\ p[Len(q) + 1] = m
  BY AppendFacts, LenProperties
<1>. HIDE DEF p
<1>2. \A i \in DOMAIN p : i \in DOMAIN q \/ i = Len(q) + 1
  BY <1>1
<1>3. DOMAIN q \subseteq DOMAIN p /\ Len(q) + 1 \in DOMAIN p
  BY <1>1
<1>4. \A i \in DOMAIN q : p[i] = q[i]
  BY <1>1
<1>5. KeysOf(p) = KeysOf(q) \cup (IF m.type = "key" THEN {m.n} ELSE {})
  BY <1>1, <1>2, <1>3, <1>4 DEF KeysOf
<1>. QED
  BY <1>5 DEF p

LEMMA AppendKeysIncreasing ==
    ASSUME NEW S, NEW q \in Seq(S), NEW m \in S, KeysIncreasing(q),
           m.type = "key" => Before(KeysOf(q), {m.n})
    PROVE  KeysIncreasing(Append(q, m))
<1>. DEFINE p == Append(q, m)
<1>1. /\ DOMAIN p = 1 .. Len(q) + 1 /\ DOMAIN q = 1 .. Len(q) /\ Len(q) \in Nat
      /\ \A i \in 1 .. Len(q) : p[i] = q[i]
      /\ p[Len(q) + 1] = m
  BY AppendFacts, LenProperties
<1>. HIDE DEF p
<1>2. ASSUME NEW i \in DOMAIN p, NEW j \in DOMAIN p, i < j,
             p[i].type = "key", p[j].type = "key"
      PROVE  p[i].n < p[j].n
  <2>1. CASE j = Len(q) + 1
    <3>1. i \in DOMAIN q /\ p[i] = q[i] /\ p[j] = m
      BY <1>1, <1>2, <2>1
    <3>2. p[i].n \in KeysOf(q)
      BY <1>2, <3>1 DEF KeysOf
    <3>. QED
      BY <1>2, <3>1, <3>2 DEF Before
  <2>2. CASE j # Len(q) + 1
    <3>1. i \in DOMAIN q /\ j \in DOMAIN q /\ p[i] = q[i] /\ p[j] = q[j]
      BY <1>1, <1>2, <2>2
    <3>. QED
      BY <1>2, <3>1 DEF KeysIncreasing
  <2>. QED
    BY <2>1, <2>2
<1>3. KeysIncreasing(p)
  BY <1>2 DEF KeysIncreasing
<1>. QED
  BY <1>3 DEF p

\* What follows the head of a sequence.
LEMMA TailKeys ==
    ASSUME NEW S, NEW q \in Seq(S), q # <<>>, KeysIncreasing(q)
    PROVE  /\ KeysOf(q) = KeysOf(Tail(q)) \cup (IF Head(q).type = "key" THEN {Head(q).n} ELSE {})
           /\ KeysIncreasing(Tail(q))
           /\ Head(q).type = "key" => Before({Head(q).n}, KeysOf(Tail(q)))
<1>. DEFINE p == Tail(q)
<1>1. /\ Len(q) \in Nat \ {0} /\ DOMAIN q = 1 .. Len(q)
      /\ Head(q) = q[1]
      /\ DOMAIN p = 1 .. Len(q) - 1
      /\ \A i \in 1 .. Len(q) - 1 : p[i] = q[i + 1]
  BY TailFacts, LenProperties
<1>. HIDE DEF p
<1>2. \A i \in DOMAIN p : i + 1 \in DOMAIN q /\ 1 < i + 1 /\ p[i] = q[i + 1]
  BY <1>1
<1>3. 1 \in DOMAIN q /\ \A i \in DOMAIN q : i = 1 \/ (i - 1 \in DOMAIN p /\ q[i] = p[i - 1])
  BY <1>1
<1>4. KeysOf(p) \cup (IF Head(q).type = "key" THEN {Head(q).n} ELSE {}) \subseteq KeysOf(q)
  BY <1>1, <1>2, <1>3 DEF KeysOf
<1>5. KeysOf(q) \subseteq KeysOf(p) \cup (IF Head(q).type = "key" THEN {Head(q).n} ELSE {})
  <2>1. ASSUME NEW i \in DOMAIN q, q[i].type = "key"
        PROVE  q[i].n \in KeysOf(p) \cup (IF Head(q).type = "key" THEN {Head(q).n} ELSE {})
    <3>1. CASE i = 1
      BY <1>1, <2>1, <3>1
    <3>2. CASE i # 1
      BY <1>3, <2>1, <3>2 DEF KeysOf
    <3>. QED
      BY <3>1, <3>2
  <2>. QED
    BY <2>1 DEF KeysOf
<1>6. KeysIncreasing(p)
  <2>1. ASSUME NEW i \in DOMAIN p, NEW j \in DOMAIN p, i < j,
               p[i].type = "key", p[j].type = "key"
        PROVE  p[i].n < p[j].n
    <3>1. i + 1 \in DOMAIN q /\ j + 1 \in DOMAIN q /\ i + 1 < j + 1
      BY <1>1, <1>2, <2>1
    <3>. QED
      BY <1>2, <2>1, <3>1 DEF KeysIncreasing
  <2>. QED
    BY <2>1 DEF KeysIncreasing
<1>7. ASSUME Head(q).type = "key" PROVE Before({Head(q).n}, KeysOf(p))
  BY <1>1, <1>2, <1>3, <1>7 DEF Before, KeysOf, KeysIncreasing
<1>. QED
  BY <1>4, <1>5, <1>6, <1>7 DEF p

(***************************************************************************)
(* Types.                                                                  *)
(***************************************************************************)

LEMMA VerbTypes ==
    /\ "read" \in Verbs /\ "close" \in Verbs
    /\ UsedSettings \subseteq Verbs /\ Kinds \subseteq Verbs
    /\ \A n \in Nat : Key(n) \in Responses
    /\ \A t \in {"resize", "close"} \cup Kinds : Plain(t) \in Responses
    /\ \A m \in Responses : m.type \in {"key", "resize", "close"} \cup Kinds /\ m.n \in Nat
  BY SettingsAssumption DEF Verbs, Responses, Key, Plain

LEMMA SendVerbTyped ==
    ASSUME ChannelTypeOK, NEW c \in Clients, NEW v \in Verbs, SendVerb(c, v)
    PROVE  toHost' \in [Clients -> Seq(Verbs)]
<1>1. Append(toHost[c], v) \in Seq(Verbs)
  BY AppendProperties DEF ChannelTypeOK
<1>. QED
  BY <1>1 DEF ChannelTypeOK, SendVerb

LEMMA SendResponseTyped ==
    ASSUME ChannelTypeOK, NEW c \in Clients, NEW m \in Responses, SendResponse(c, m)
    PROVE  toClient' \in [Clients -> Seq(Responses)]
<1>1. Append(toClient[c], m) \in Seq(Responses)
  BY AppendProperties DEF ChannelTypeOK
<1>. QED
  BY <1>1 DEF ChannelTypeOK, SendResponse

LEMMA BroadcastTyped ==
    ASSUME ChannelTypeOK, NEW cs, NEW m \in Responses, Broadcast(cs, m)
    PROVE  toClient' \in [Clients -> Seq(Responses)]
<1>1. \A c \in Clients : Append(toClient[c], m) \in Seq(Responses)
  BY AppendProperties DEF ChannelTypeOK
<1>. QED
  BY <1>1 DEF ChannelTypeOK, Broadcast

LEMMA EmitTyped ==
    ASSUME NEW left \in Nat
    PROVE  /\ Emit(left) \in UiType
           /\ Emit(left).at # "send"
  BY DEF Emit, Idle, UiType

LEMMA AcceptTyped ==
    ASSUME TypeOK, Accept, UNCHANGED clientVars
    PROVE  TypeOK'
<1>. USE DEF TypeOK
<1>1. Head(backlog) \in Clients /\ Tail(backlog) \in Seq(Clients)
  BY TailFacts DEF ChannelTypeOK, Accept
<1>2. ChannelTypeOK'
  BY <1>1 DEF ChannelTypeOK, Accept
<1>3. HostTypeOK'
  BY <1>1, AppendProperties DEF HostTypeOK, Accept, editVars
<1>. QED
  BY <1>2, <1>3 DEF ClientTypeOK, clientVars

LEMMA ReadRequestTyped ==
    ASSUME TypeOK, NEW c \in Clients, ReadRequest(c), UNCHANGED clientVars
    PROVE  TypeOK'
<1>. USE DEF TypeOK
<1>. DEFINE T == [verb : Verbs, from : Clients] \cup {EosTask}
<1>1. Head(toHost[c]) \in Verbs /\ Tail(toHost[c]) \in Seq(Verbs)
  BY TailFacts DEF ChannelTypeOK, ReadRequest
<1>2. Append(tasks, Task(Head(toHost[c]), c)) \in Seq(T)
  BY <1>1, AppendProperties DEF HostTypeOK, Task
<1>3. ChannelTypeOK'
  BY <1>1 DEF ChannelTypeOK, ReadRequest
<1>4. HostTypeOK'
  BY <1>2 DEF HostTypeOK, ReadRequest, editVars
<1>. QED
  BY <1>3, <1>4 DEF ClientTypeOK, clientVars

LEMMA LeaveTyped ==
    ASSUME TypeOK, NEW c \in Clients, Leave(c), UNCHANGED clientVars
    PROVE  TypeOK'
<1>. USE DEF TypeOK
<1>. DEFINE T == [verb : Verbs, from : Clients] \cup {EosTask}
<1>1. clients' \in Seq(Clients)
  BY RemoveAtFacts DEF HostTypeOK, Leave
<1>2. Append(tasks, EosTask) \in Seq(T)
  BY AppendProperties DEF HostTypeOK
<1>3. ChannelTypeOK'
  BY DEF ChannelTypeOK, Leave, channelVars
<1>4. HostTypeOK'
  BY <1>1, <1>2 DEF HostTypeOK, Leave, editVars
<1>. QED
  BY <1>3, <1>4 DEF ClientTypeOK, clientVars

LEMMA EmitPickTyped ==
    ASSUME TypeOK, EmitPick, UNCHANGED clientVars, ui.left \in Nat \ {0}
    PROVE  TypeOK'
<1>. USE DEF TypeOK
<1>0. emitted' \in Nat /\ ui.left - 1 \in Nat
  <2>1. emitted \in Nat
    BY DEF HostTypeOK
  <2>. QED
    BY <2>1 DEF EmitPick
<1>1. CASE Waiting = {}
  <2>1. events' = Append(events, emitted') /\ ui' = Emit(ui.left - 1) /\ UNCHANGED <<readReq, given>>
    BY <1>1 DEF EmitPick
  <2>2. events' \in Seq(Nat)
    BY <1>0, <2>1, AppendProperties DEF HostTypeOK
  <2>3. HostTypeOK'
    BY <1>0, <2>1, <2>2, EmitTyped DEF HostTypeOK, EmitPick, editVars
  <2>. QED
    BY <2>3 DEF ClientTypeOK, ChannelTypeOK, clientVars, channelVars, EmitPick
<1>2. CASE Waiting # {}
  <2>1. PICK last \in Waiting :
          /\ readReq' = [c \in Clients |->
                IF c \in Attached /\ readReq[c] > 0 THEN readReq[c] - 1 ELSE readReq[c]]
          /\ given' = [given EXCEPT ![clients[last]] = Append(@, emitted')]
          /\ ui' = Send(clients[last], emitted', ui.left - 1, None)
          /\ UNCHANGED events
    BY <1>2 DEF EmitPick
  <2>2. clients[last] \in Clients
    BY <2>1, ElementOfSeq, LenProperties DEF Waiting, HostTypeOK
  <2>3. Append(given[clients[last]], emitted') \in Seq(Nat)
    BY <1>0, <2>2, AppendProperties DEF HostTypeOK
  <2>4. readReq' \in [Clients -> Nat]
    BY <2>1 DEF HostTypeOK
  <2>5. given' \in [Clients -> Seq(Nat)]
    BY <2>1, <2>3 DEF HostTypeOK
  <2>6. ui' \in UiType
    BY <1>0, <2>1, <2>2 DEF Send, UiType
  <2>7. HostTypeOK'
    BY <1>0, <2>1, <2>4, <2>5, <2>6 DEF HostTypeOK, EmitPick, editVars
  <2>. QED
    BY <2>7 DEF ClientTypeOK, ChannelTypeOK, clientVars, channelVars, EmitPick
<1>. QED
  BY <1>1, <1>2

LEMMA EmitSendTyped ==
    ASSUME TypeOK, EmitSend, UNCHANGED clientVars, ui.to \in Clients
    PROVE  TypeOK'
<1>. USE DEF TypeOK
<1>1. Key(ui.key) \in Responses
  BY VerbTypes DEF HostTypeOK, UiType
<1>2. toClient' \in [Clients -> Seq(Responses)]
  BY <1>1, SendResponseTyped DEF EmitSend, ChannelTypeOK
<1>3. HostTypeOK'
  <2>1. ui' \in UiType
    BY EmitTyped DEF HostTypeOK, EmitSend, UiType
  <2>2. host' \in {"running", "closing", "exited", "crashed"}
    BY DEF HostTypeOK, EmitSend
  <2>. QED
    BY <2>1, <2>2 DEF HostTypeOK, EmitSend, editVars
<1>. QED
  BY <1>2, <1>3 DEF ClientTypeOK, ChannelTypeOK, clientVars, EmitSend

LEMMA TaskTypes ==
    ASSUME TypeOK, tasks # <<>>
    PROVE  /\ Tail(tasks) \in Seq([verb : Verbs, from : Clients] \cup {EosTask})
           /\ Head(tasks) # EosTask => Head(tasks).verb \in Verbs /\ Head(tasks).from \in Clients
           /\ Head(tasks).verb # "eos" => Head(tasks) # EosTask
  BY TailFacts DEF TypeOK, HostTypeOK, EosTask, Task

LEMMA RunReadTyped ==
    ASSUME TypeOK, NEW c \in Clients, RunRead(c)
    PROVE  /\ events' \in Seq(Nat)
           /\ given' \in [Clients -> Seq(Nat)]
           /\ readReq' \in [Clients -> Nat]
           /\ ui' \in UiType
<1>. USE DEF TypeOK, HostTypeOK
<1>1. CASE events # <<>>
  <2>1. Head(events) \in Nat /\ Tail(events) \in Seq(Nat)
    BY <1>1, TailFacts
  <2>2. Append(given[c], Head(events)) \in Seq(Nat)
    BY <2>1, AppendProperties
  <2>3. /\ events' = Tail(events) /\ UNCHANGED readReq
        /\ given' = [given EXCEPT ![c] = Append(@, Head(events))]
        /\ ui' = Send(c, Head(events), 0, c)
    BY <1>1 DEF RunRead
  <2>4. given' \in [Clients -> Seq(Nat)]
    BY <2>2, <2>3
  <2>5. ui' \in UiType
    BY <2>1, <2>3 DEF Send, UiType
  <2>. QED
    BY <2>1, <2>3, <2>4, <2>5
<1>2. CASE events = <<>>
  <2>1. /\ readReq' = IF c \in Attached THEN [readReq EXCEPT ![c] = @ + 1] ELSE readReq
        /\ UNCHANGED <<events, given, ui>>
    BY <1>2 DEF RunRead
  <2>2. readReq' \in [Clients -> Nat]
    BY <2>1
  <2>. QED
    BY <2>1, <2>2
<1>. QED
  BY <1>1, <1>2

LEMMA RunTaskTyped ==
    ASSUME TypeOK, RunTask, UNCHANGED clientVars
    PROVE  TypeOK'
<1>. USE DEF TypeOK
<1>. DEFINE t == Head(tasks)
<1>0. /\ tasks' \in Seq([verb : Verbs, from : Clients] \cup {EosTask})
      /\ t.verb # "eos" => t.from \in Clients
  BY TaskTypes DEF RunTask
<1>1. ASSUME t.verb = "read", RunRead(t.from),
             UNCHANGED <<host, editVars, eos, detach, toClient>>
      PROVE  TypeOK'
  BY <1>0, <1>1, RunReadTyped
     DEF RunTask, HostTypeOK, ClientTypeOK, ChannelTypeOK, clientVars, editVars
<1>2. ASSUME t.verb \in Kinds, SendResponse(t.from, Plain(t.verb)),
             UNCHANGED <<host, readReq, events, given, ui, editVars, eos, detach>>
      PROVE  TypeOK'
  <2>1. t.from \in Clients
    BY <1>0, <1>2, KindsAssumption
  <2>2. toClient' \in [Clients -> Seq(Responses)]
    BY <1>2, <2>1, VerbTypes, SendResponseTyped
  <2>. QED
    BY <1>0, <1>2, <2>2
       DEF RunTask, HostTypeOK, ClientTypeOK, ChannelTypeOK, clientVars, editVars
<1>3. ASSUME t.verb \in {"raw", "echo"}, SetMode(t.verb),
             UNCHANGED <<host, readReq, events, given, ui, eos, detach, toClient>>
      PROVE  TypeOK'
  <2>1. mode' \in {"raw", "echo"} /\ line' \in Nat /\ caret' \in 0 .. line'
    BY <1>3 DEF SetMode, HostTypeOK
  <2>. QED
    BY <1>0, <1>3, <2>1
       DEF RunTask, HostTypeOK, ClientTypeOK, ChannelTypeOK, clientVars, editVars
<1>4. ASSUME t.verb \in {"close on detach", "stay on detach"},
             detach' = (t.verb = "close on detach"),
             UNCHANGED <<host, readReq, events, given, ui, editVars, eos, toClient>>
      PROVE  TypeOK'
  <2>1. detach' \in BOOLEAN
    BY <1>4
  <2>. QED
    BY <1>0, <1>4, <2>1
       DEF RunTask, HostTypeOK, ClientTypeOK, ChannelTypeOK, clientVars, editVars
<1>5. ASSUME t = EosTask, EndOfStream,
             UNCHANGED <<readReq, events, given, ui, editVars, detach, toClient>>
      PROVE  TypeOK'
  BY <1>0, <1>5
     DEF RunTask, EndOfStream, HostTypeOK, ClientTypeOK, ChannelTypeOK, clientVars, editVars
<1>. QED
  BY <1>1, <1>2, <1>3, <1>4, <1>5 DEF RunTask

LEMMA UserTyped ==
    ASSUME TypeOK, User \/ Exit, UNCHANGED clientVars
    PROVE  TypeOK'
<1>. USE DEF TypeOK
<1>1. CASE RawKey
  <2>1. ui' = Emit(1) /\ UNCHANGED <<line, caret>> /\ typed' \in 0 .. MaxInput
    BY <1>1, InputAssumption DEF RawKey, Press, HostTypeOK
  <2>. QED
    BY <1>1, <2>1, EmitTyped
       DEF RawKey, Press, HostTypeOK, ClientTypeOK, ChannelTypeOK, clientVars, channelVars
<1>2. CASE Return
  <2>1. ui' = Emit(line + 1) /\ line' = 0 /\ caret' = 0 /\ typed' \in 0 .. MaxInput
    BY <1>2, InputAssumption DEF Return, Press, HostTypeOK
  <2>2. ui' \in UiType
    BY <2>1, EmitTyped DEF HostTypeOK
  <2>3. line' \in Nat /\ caret' \in 0 .. line'
    BY <2>1
  <2>. QED
    BY <1>2, <2>1, <2>2, <2>3
       DEF Return, Press, HostTypeOK, ClientTypeOK, ChannelTypeOK, clientVars, channelVars
<1>3. CASE Char \/ Back \/ Delete \/ MoveCaret
  <2>1. line' \in Nat /\ caret' \in 0 .. line' /\ UNCHANGED ui
    <3>0. line \in Nat /\ caret \in 0 .. line
      BY DEF HostTypeOK
    <3>1. CASE Char
      BY <3>0, <3>1 DEF Char, Press
    <3>2. CASE Back
      BY <3>0, <3>2 DEF Back, Press
    <3>3. CASE Delete
      BY <3>0, <3>3 DEF Delete, Press
    <3>4. CASE MoveCaret
      BY <3>0, <3>4 DEF MoveCaret, Press
    <3>. QED
      BY <1>3, <3>1, <3>2, <3>3, <3>4
  <2>2. typed' \in 0 .. MaxInput
    BY <1>3, InputAssumption DEF Char, Back, Delete, MoveCaret, Press, HostTypeOK
  <2>3. UNCHANGED <<host, clients, readReq, io, events, tasks, mode, eos, detach,
                    emitted, given, channelVars>>
    BY <1>3 DEF Char, Back, Delete, MoveCaret, Press
  <2>. QED
    BY <2>1, <2>2, <2>3 DEF HostTypeOK, ClientTypeOK, ChannelTypeOK, clientVars, channelVars
<1>4. CASE Resize
  <2>1. toClient' \in [Clients -> Seq(Responses)]
    BY <1>4, VerbTypes, BroadcastTyped DEF Resize
  <2>2. typed' \in 0 .. MaxInput
    BY <1>4, InputAssumption DEF Resize, HostTypeOK
  <2>. QED
    BY <1>4, <2>1, <2>2
       DEF Resize, HostTypeOK, ClientTypeOK, ChannelTypeOK, clientVars, editVars
<1>5. CASE CloseWindow
  <2>1. toClient' \in [Clients -> Seq(Responses)]
    BY <1>5, VerbTypes, BroadcastTyped DEF CloseWindow, ChannelTypeOK
  <2>. QED
    BY <1>5, <2>1
       DEF CloseWindow, HostTypeOK, ClientTypeOK, ChannelTypeOK, clientVars, editVars
<1>6. CASE Exit
  BY <1>6
     DEF Exit, HostTypeOK, ClientTypeOK, ChannelTypeOK, clientVars, channelVars, editVars
<1>. QED
  BY <1>1, <1>2, <1>3, <1>4, <1>5, <1>6 DEF User

LEMMA HostTyped ==
    ASSUME TypeOK, UiInv, Host
    PROVE  TypeOK'
<1>1. UNCHANGED clientVars
  BY DEF Host
<1>2. ASSUME EmitPick PROVE TypeOK'
  <2>1. ui.left \in Nat \ {0}
    BY <1>2 DEF UiInv, EmitPick, TypeOK, HostTypeOK, UiType
  <2>. QED
    BY <1>1, <1>2, <2>1, EmitPickTyped
<1>3. ASSUME EmitSend PROVE TypeOK'
  BY <1>1, <1>3, EmitSendTyped DEF UiInv, EmitSend
<1>4. ASSUME NEW c \in Clients, HostThread(c) PROVE TypeOK'
  BY <1>1, <1>4, ReadRequestTyped, LeaveTyped DEF HostThread
<1>. QED
  BY <1>1, <1>2, <1>3, <1>4, AcceptTyped, RunTaskTyped, UserTyped DEF Host, WindowThread

LEMMA RequestTyped ==
    ASSUME TypeOK, NEW c \in Clients, NEW v \in Verbs, NEW closed, Request(c, v, closed),
           UNCHANGED hostVars, reading' \in [Clients -> BOOLEAN],
           asking' \in [Clients -> Kinds \cup {None}]
    PROVE  TypeOK'
<1>. USE DEF TypeOK
<1>1. calls' \in [Clients -> 0 .. MaxCalls]
  BY CallsAssumption DEF Request, ClientTypeOK
<1>2. ChannelTypeOK'
  BY SendVerbTyped DEF Request, ChannelTypeOK
<1>3. ClientTypeOK'
  BY <1>1 DEF Request, ClientTypeOK
<1>. QED
  BY <1>2, <1>3 DEF HostTypeOK, hostVars

LEMMA CallsTyped ==
    ASSUME TypeOK, NEW c \in Clients, Calls(c), UNCHANGED hostVars
    PROVE  TypeOK'
<1>. USE DEF TypeOK
<1>1. ASSUME Connect(c) PROVE TypeOK'
  <2>1. ChannelTypeOK'
    BY <1>1, AppendProperties DEF Connect, ChannelTypeOK
  <2>2. ClientTypeOK'
    BY <1>1 DEF Connect, ClientTypeOK
  <2>. QED
    BY <2>1, <2>2 DEF HostTypeOK, hostVars
<1>2. ASSUME ReadEvent(c, HostClosed(c)) PROVE TypeOK'
  <2>1. reading' \in [Clients -> BOOLEAN] /\ asking' \in [Clients -> Kinds \cup {None}]
    BY <1>2 DEF ReadEvent, ClientTypeOK
  <2>. QED
    BY <1>2, <2>1, VerbTypes, RequestTyped DEF ReadEvent
<1>3. ASSUME NEW k \in Kinds, Ask(c, k, HostClosed(c)) PROVE TypeOK'
  <2>1. reading' \in [Clients -> BOOLEAN] /\ asking' \in [Clients -> Kinds \cup {None}]
    BY <1>3 DEF Ask, ClientTypeOK
  <2>. QED
    BY <1>3, <2>1, VerbTypes, RequestTyped DEF Ask
<1>4. ASSUME NEW v \in UsedSettings, Set(c, v, HostClosed(c)) PROVE TypeOK'
  <2>1. reading' \in [Clients -> BOOLEAN] /\ asking' \in [Clients -> Kinds \cup {None}]
    BY <1>4 DEF Set, ClientTypeOK
  <2>. QED
    BY <1>4, <2>1, VerbTypes, RequestTyped DEF Set
<1>5. ASSUME Close(c) PROVE TypeOK'
  <2>1. ChannelTypeOK'
    BY <1>5, VerbTypes, SendVerbTyped DEF Close, ChannelTypeOK
  <2>2. ClientTypeOK'
    BY <1>5 DEF Close, ClientTypeOK
  <2>. QED
    BY <2>1, <2>2 DEF HostTypeOK, hostVars
<1>6. ASSUME Die(c) PROVE TypeOK'
  <2>1. ChannelTypeOK'
    BY <1>6, VerbTypes, SendVerbTyped DEF Die, ChannelTypeOK
  <2>2. ClientTypeOK'
    BY <1>6 DEF Die, ClientTypeOK
  <2>. QED
    BY <2>1, <2>2 DEF HostTypeOK, hostVars
<1>. QED
  BY <1>1, <1>2, <1>3, <1>4, <1>5, <1>6 DEF Calls

LEMMA EventReadTyped ==
    ASSUME TypeOK, NEW c \in Clients, EventRead(c), UNCHANGED hostVars
    PROVE  TypeOK'
<1>. USE DEF TypeOK
<1>. DEFINE e == Head(inputs[c])
<1>1. e \in Responses \cup {EndOfFile} /\ Tail(inputs[c]) \in Seq(Responses \cup {EndOfFile})
  BY TailFacts DEF EventRead, ClientTypeOK
<1>2. received' \in [Clients -> Seq(Nat)]
  <2>1. e.type = "key" => e.n \in Nat
    BY <1>1, VerbTypes DEF EndOfFile, Plain
  <2>2. e.type = "key" => Append(received[c], e.n) \in Seq(Nat)
    BY <2>1, AppendProperties DEF ClientTypeOK
  <2>. QED
    BY <2>2 DEF EventRead, ClientTypeOK
<1>3. inputs' \in [Clients -> Seq(Responses \cup {EndOfFile})]
  BY <1>1 DEF EventRead, ClientTypeOK
<1>4. reading' \in [Clients -> BOOLEAN]
  BY DEF EventRead, ClientTypeOK
<1>5. ClientTypeOK'
  BY <1>2, <1>3, <1>4 DEF EventRead, ClientTypeOK
<1>. QED
  BY <1>5 DEF HostTypeOK, ChannelTypeOK, hostVars, channelVars, EventRead

LEMMA AnsweredTyped ==
    ASSUME TypeOK, CounterInv, NEW c \in Clients, Answered(c), UNCHANGED hostVars
    PROVE  TypeOK'
<1>. USE DEF TypeOK
<1>1. answers[c] # <<>>
  BY EmptySeq DEF Answered, ClientTypeOK, CounterInv
<1>2. Tail(answers[c]) \in Seq(Kinds \cup {"eof"})
  BY <1>1, TailFacts DEF ClientTypeOK
<1>3. answers' \in [Clients -> Seq(Kinds \cup {"eof"})]
  BY <1>2 DEF Answered, ClientTypeOK
<1>4. answerable' \in [Clients -> Nat]
  BY DEF Answered, ClientTypeOK
<1>5. asking' \in [Clients -> Kinds \cup {None}]
  BY DEF Answered, ClientTypeOK
<1>6. ClientTypeOK'
  BY <1>3, <1>4, <1>5 DEF Answered, ClientTypeOK
<1>. QED
  BY <1>6 DEF HostTypeOK, ChannelTypeOK, hostVars, channelVars, Answered

LEMMA ClosedTyped ==
    ASSUME TypeOK, NEW c \in Clients, Closed(c), UNCHANGED hostVars
    PROVE  TypeOK'
  BY DEF TypeOK, Closed, ClientTypeOK, HostTypeOK, ChannelTypeOK, hostVars, channelVars

LEMMA InputThreadTyped ==
    ASSUME TypeOK, NEW c \in Clients, InputThread(c), UNCHANGED hostVars
    PROVE  TypeOK'
<1>. USE DEF TypeOK
<1>1. ASSUME Sort(c) PROVE TypeOK'
  <2>. DEFINE m == Head(toClient[c])
  <2>1. m \in Responses /\ Tail(toClient[c]) \in Seq(Responses)
    BY <1>1, TailFacts DEF Sort, ChannelTypeOK
  <2>2. ChannelTypeOK'
    BY <1>1, <2>1 DEF Sort, ChannelTypeOK
  <2>3. m.type \notin {"key", "resize"} => m.type \in Kinds \cup {"eof"}
    BY <1>1, <2>1, VerbTypes DEF Sort
  <2>4. Append(inputs[c], m) \in Seq(Responses \cup {EndOfFile})
    BY <2>1, AppendProperties DEF ClientTypeOK
  <2>5. inputs' \in [Clients -> Seq(Responses \cup {EndOfFile})]
    BY <1>1, <2>4 DEF Sort, ClientTypeOK
  <2>6. answers' \in [Clients -> Seq(Kinds \cup {"eof"})]
    <3>1. CASE m.type \in {"key", "resize"}
      BY <1>1, <3>1 DEF Sort, ClientTypeOK
    <3>2. CASE m.type \notin {"key", "resize"}
      <4>1. Append(answers[c], m.type) \in Seq(Kinds \cup {"eof"})
        BY <2>3, <3>2, AppendProperties DEF ClientTypeOK
      <4>. QED
        BY <1>1, <3>2, <4>1 DEF Sort, ClientTypeOK
    <3>. QED
      BY <3>1, <3>2
  <2>7. answerable' \in [Clients -> Nat]
    <3>1. answerable' = answerable \/ answerable' = [answerable EXCEPT ![c] = @ + 1]
      BY <1>1 DEF Sort
    <3>2. answerable \in [Clients -> Nat]
      BY DEF ClientTypeOK
    <3>. QED
      BY <3>1, <3>2
  <2>8. ClientTypeOK'
    BY <1>1, <2>5, <2>6, <2>7 DEF Sort, ClientTypeOK
  <2>. QED
    BY <2>2, <2>8 DEF HostTypeOK, hostVars
<1>2. ASSUME EndOfInput(c, HostClosed(c)) PROVE TypeOK'
  <2>1. Append(inputs[c], EndOfFile) \in Seq(Responses \cup {EndOfFile})
    BY AppendProperties DEF ClientTypeOK
  <2>2. Append(answers[c], "eof") \in Seq(Kinds \cup {"eof"})
    BY AppendProperties DEF ClientTypeOK
  <2>3. /\ inputs' \in [Clients -> Seq(Responses \cup {EndOfFile})]
        /\ answers' \in [Clients -> Seq(Kinds \cup {"eof"})]
    BY <1>2, <2>1, <2>2 DEF EndOfInput, ClientTypeOK
  <2>4. answerable' \in [Clients -> Nat] /\ thread' \in [Clients -> {"none", "running", "ended"}]
    BY <1>2 DEF EndOfInput, ClientTypeOK
  <2>5. ClientTypeOK'
    BY <1>2, <2>3, <2>4 DEF EndOfInput, ClientTypeOK
  <2>. QED
    BY <1>2, <2>5 DEF HostTypeOK, ChannelTypeOK, hostVars, channelVars, EndOfInput
<1>. QED
  BY <1>1, <1>2 DEF InputThread

LEMMA ProgramTyped ==
    ASSUME TypeOK, CounterInv, NEW c \in Clients, Program(c)
    PROVE  TypeOK'
  BY CallsTyped, EventReadTyped, AnsweredTyped, ClosedTyped, InputThreadTyped
     DEF Program, Returns

LEMMA TypeInit ==
    ASSUME Init
    PROVE  TypeOK
<1>1. \A S : <<>> \in Seq(S)
  BY EmptySeq
<1>2. ChannelTypeOK
  BY <1>1 DEF Init, ChannelInit, ChannelTypeOK
<1>3. HostTypeOK
  <2>1. ui \in UiType
    BY DEF Init, HostInit, Idle, UiType
  <2>2. eos \in BOOLEAN /\ detach \in BOOLEAN
    BY DEF Init, HostInit
  <2>3. caret \in 0 .. line /\ line \in Nat
    BY DEF Init, HostInit
  <2>. QED
    BY <1>1, <2>1, <2>2, <2>3, InputAssumption DEF Init, HostInit, HostTypeOK
<1>4. ClientTypeOK
  BY <1>1, CallsAssumption DEF Init, ClientInit, ClientTypeOK
<1>. QED
  BY <1>2, <1>3, <1>4 DEF TypeOK

LEMMA TypeStep ==
    ASSUME IInv, [Next]_vars
    PROVE  TypeOK'
<1>1. TypeOK /\ UiInv /\ CounterInv
  BY DEF IInv
<1>2. CASE UNCHANGED vars
  BY <1>1, <1>2
     DEF vars, TypeOK, ChannelTypeOK, HostTypeOK, ClientTypeOK, channelVars, hostVars, clientVars
<1>. QED
  BY <1>1, <1>2, HostTyped, ProgramTyped DEF Next

(***************************************************************************)
(* What each step leaves alone.                                            *)
(***************************************************************************)

LEMMA CallsFrame ==
    ASSUME NEW c \in Clients, Calls(c)
    PROVE  UNCHANGED <<toClient, inputs, answers, answerable, received>>
  BY DEF Calls, Connect, ReadEvent, Ask, Set, Request, Close, Die

LEMMA UserFrame ==
    ASSUME User \/ Exit
    PROVE  /\ UNCHANGED <<clients, readReq, io, events, tasks, emitted, given, backlog, toHost>>
           /\ ui' = ui \/ \E left \in {1, line + 1} : ui' = Emit(left) /\ ui.at = "idle"
           /\ \/ UNCHANGED toClient
              \/ \E cs : \E t \in {"resize", "close"} : Broadcast(cs, Plain(t))
<1>1. CASE RawKey \/ Char \/ Return \/ Back \/ Delete \/ MoveCaret
  BY <1>1 DEF RawKey, Char, Return, Back, Delete, MoveCaret, Press, Ready, channelVars
<1>2. CASE Resize \/ CloseWindow
  <2>1. UNCHANGED <<clients, readReq, io, events, tasks, emitted, given, backlog, toHost, ui>>
    BY <1>2 DEF Resize, CloseWindow
  <2>2. \/ UNCHANGED toClient
        \/ Broadcast(Attached, Plain("resize"))
        \/ Broadcast(Attached, Plain("close"))
    BY <1>2 DEF Resize, CloseWindow
  <2>. QED
    BY <2>1, <2>2
<1>3. CASE Exit
  BY <1>3 DEF Exit, channelVars
<1>. QED
  BY <1>1, <1>2, <1>3 DEF User

LEMMA RunTaskFrame ==
    ASSUME TypeOK, RunTask
    PROVE  /\ UNCHANGED <<clients, io, emitted, backlog, toHost>>
           /\ ui.at = "idle"
           /\ \/ \E c \in Clients : RunRead(c) /\ UNCHANGED toClient
              \/ /\ UNCHANGED <<readReq, events, given, ui>>
                 /\ \/ UNCHANGED toClient
                    \/ \E c \in Clients, k \in Kinds : SendResponse(c, Plain(k))
<1>. DEFINE t == Head(tasks)
<1>0. t.verb # "eos" => t.from \in Clients
  BY TaskTypes DEF RunTask
<1>1. UNCHANGED <<clients, io, emitted, backlog, toHost>> /\ ui.at = "idle"
  BY DEF RunTask, Ready
<1>2. CASE t.verb = "read" /\ RunRead(t.from) /\ UNCHANGED toClient
  BY <1>0, <1>1, <1>2
<1>3. CASE /\ t.verb \in Kinds /\ SendResponse(t.from, Plain(t.verb))
           /\ UNCHANGED <<readReq, events, given, ui>>
  BY <1>0, <1>1, <1>3, KindsAssumption
<1>4. CASE UNCHANGED <<readReq, events, given, ui, toClient>>
  BY <1>1, <1>4
<1>. QED
  BY <1>2, <1>3, <1>4 DEF RunTask

(***************************************************************************)
(* The counter, and what the window's thread is in the middle of.          *)
(***************************************************************************)

LEMMA CounterStep ==
    ASSUME IInv, [Next]_vars
    PROVE  CounterInv'
<1>0. TypeOK /\ CounterInv
  BY DEF IInv
<1>1. CASE UNCHANGED <<answers, answerable>>
  BY <1>0, <1>1 DEF CounterInv
<1>2. ASSUME NEW c \in Clients, Answered(c) PROVE CounterInv'
  <2>1. answers[c] \in Seq(Kinds \cup {"eof"}) /\ answerable[c] \in Nat /\ answers[c] # <<>>
    BY <1>0, <1>2, EmptySeq DEF Answered, CounterInv, TypeOK, ClientTypeOK
  <2>2. Len(answers[c]) \in Nat /\ Len(Tail(answers[c])) = Len(answers[c]) - 1
    BY <2>1, HeadTailProperties, LenProperties
  <2>3. asking[c] # "eof"
    BY <1>0, <1>2, KindsAssumption DEF Answered, TypeOK, ClientTypeOK
  <2>4. answerable'[c] <= Len(answers'[c])
    <3>1. CASE Head(answers[c]) = "eof"
      BY <1>0, <1>2, <2>1, <2>3, <3>1 DEF Answered, CounterInv, TypeOK, ClientTypeOK
    <3>2. CASE Head(answers[c]) # "eof"
      <4>1. answerable'[c] = answerable[c] - 1
        BY <1>0, <1>2, <3>2 DEF Answered, TypeOK, ClientTypeOK
      <4>2. answers'[c] = Tail(answers[c]) \/ answers'[c] = answers[c]
        BY <1>0, <1>2 DEF Answered, TypeOK, ClientTypeOK
      <4>3. answerable[c] <= Len(answers[c])
        BY <1>0 DEF CounterInv
      <4>4. Len(answers'[c]) \in {Len(answers[c]), Len(answers[c]) - 1}
        BY <2>2, <4>2
      <4>. QED
        BY <2>1, <2>2, <4>1, <4>3, <4>4
    <3>. QED
      BY <3>1, <3>2
  <2>5. \A d \in Clients \ {c} : answers'[d] = answers[d] /\ answerable'[d] = answerable[d]
    BY <1>0, <1>2 DEF Answered, TypeOK, ClientTypeOK
  <2>. QED
    BY <1>0, <2>4, <2>5 DEF CounterInv
<1>3. ASSUME NEW c \in Clients, NEW a \in Kinds \cup {"eof"},
             answers' = [answers EXCEPT ![c] = Append(@, a)],
             answerable' = [answerable EXCEPT ![c] = @ + 1]
      PROVE  CounterInv'
  <2>1. Len(Append(answers[c], a)) = Len(answers[c]) + 1 /\ Len(answers[c]) \in Nat
    BY <1>0, AppendProperties, LenProperties DEF TypeOK, ClientTypeOK
  <2>. QED
    BY <1>0, <1>3, <2>1 DEF CounterInv, TypeOK, ClientTypeOK
<1>4. ASSUME NEW c \in Clients, Sort(c) PROVE CounterInv'
  <2>1. CASE Head(toClient[c]).type \in {"key", "resize"}
    BY <1>1, <1>4, <2>1 DEF Sort
  <2>2. CASE Head(toClient[c]).type \notin {"key", "resize"}
    <3>1. Head(toClient[c]) \in Responses
      BY <1>0, <1>4, TailFacts DEF Sort, TypeOK, ChannelTypeOK
    <3>2. Head(toClient[c]).type \in Kinds
      BY <1>4, <2>2, <3>1, VerbTypes DEF Sort
    <3>. QED
      BY <1>3, <1>4, <2>2, <3>2 DEF Sort
  <2>. QED
    BY <2>1, <2>2
<1>5. ASSUME NEW c \in Clients, EndOfInput(c, HostClosed(c)) PROVE CounterInv'
  BY <1>3, <1>5 DEF EndOfInput
<1>6. ASSUME NEW c \in Clients, Program(c) PROVE CounterInv'
  <2>1. ASSUME Calls(c) \/ EventRead(c) \/ Closed(c) PROVE UNCHANGED <<answers, answerable>>
    BY <2>1, CallsFrame DEF EventRead, Closed
  <2>. QED
    BY <1>1, <1>2, <1>4, <1>5, <1>6, <2>1 DEF Program, Returns, InputThread
<1>. QED
  BY <1>1, <1>6 DEF Next, Host, vars, clientVars

LEMMA UiStep ==
    ASSUME IInv, [Next]_vars
    PROVE  UiInv'
<1>0. TypeOK /\ UiInv
  BY DEF IInv
<1>1. ASSUME NEW left \in Nat, ui' = Emit(left) PROVE UiInv'
  BY <1>1 DEF UiInv, Emit, Idle
<1>2. ASSUME NEW c \in Clients, NEW n, NEW left, NEW h, ui' = Send(c, n, left, h) PROVE UiInv'
  BY <1>2 DEF UiInv, Send
<1>3. CASE UNCHANGED ui
  BY <1>0, <1>3 DEF UiInv
<1>4. ASSUME EmitPick PROVE UiInv'
  <2>1. CASE Waiting = {}
    <3>1. ui.left - 1 \in Nat
      <4>1. ui.at = "emit"
        BY <1>4 DEF EmitPick
      <4>2. ui.left > 0
        BY <1>0, <4>1 DEF UiInv
      <4>3. ui.left \in Nat
        BY <1>0 DEF TypeOK, HostTypeOK, UiType
      <4>. QED
        BY <4>2, <4>3
    <3>. QED
      BY <1>1, <1>4, <2>1, <3>1 DEF EmitPick
  <2>2. CASE Waiting # {}
    <3>1. PICK last \in Waiting : ui' = Send(clients[last], emitted', ui.left - 1, None)
      BY <1>4, <2>2 DEF EmitPick
    <3>2. clients[last] \in Clients
      BY <1>0, <3>1, ElementOfSeq, LenProperties DEF Waiting, TypeOK, HostTypeOK
    <3>. QED
      BY <1>2, <3>1, <3>2
  <2>. QED
    BY <2>1, <2>2
<1>5. ASSUME EmitSend PROVE UiInv'
  BY <1>0, <1>1, <1>5 DEF EmitSend, TypeOK, HostTypeOK, UiType
<1>6. ASSUME RunTask PROVE UiInv'
  BY <1>0, <1>2, <1>3, <1>6, RunTaskFrame DEF RunRead
<1>7. ASSUME User \/ Exit PROVE UiInv'
  BY <1>0, <1>1, <1>3, <1>7, UserFrame DEF TypeOK, HostTypeOK
<1>8. ASSUME Accept \/ \E c \in Clients : HostThread(c) PROVE UiInv'
  BY <1>3, <1>8 DEF Accept, HostThread, ReadRequest, Leave
<1>9. CASE UNCHANGED hostVars
  BY <1>3, <1>9 DEF hostVars
<1>. QED
  BY <1>4, <1>5, <1>6, <1>7, <1>8, <1>9 DEF Next, Host, WindowThread, Program, vars

(***************************************************************************)
(* Programs attach once.                                                   *)
(***************************************************************************)

LEMMA AttachFrame ==
    ASSUME AttachInv, UNCHANGED <<backlog, program, io, clients>>,
           \A c \in Clients : io[c] = "none" => readReq'[c] = readReq[c]
    PROVE  AttachInv'
  BY DEF AttachInv, Attached

LEMMA AcceptAttach ==
    ASSUME IInv, Accept, UNCHANGED clientVars
    PROVE  AttachInv' /\ readReq'[Head(backlog)] = 0 /\ Attached' = Attached \cup {Head(backlog)}
<1>. DEFINE h == Head(backlog)
<1>0. TypeOK /\ AttachInv
  BY DEF IInv
<1>1. /\ backlog' = Tail(backlog) /\ clients' = Append(clients, h)
      /\ io' = [io EXCEPT ![h] = "reading"] /\ readReq' = readReq
  BY DEF Accept
<1>2. /\ Len(backlog) \in Nat \ {0} /\ DOMAIN backlog = 1 .. Len(backlog)
      /\ h \in Clients /\ h = backlog[1]
      /\ DOMAIN backlog' = 1 .. Len(backlog) - 1
      /\ \A i \in 1 .. Len(backlog) - 1 : backlog'[i] = backlog[i + 1]
  BY <1>0, <1>1, TailFacts, LenProperties DEF Accept, TypeOK, ChannelTypeOK
<1>3. 1 \in DOMAIN backlog /\ io[h] = "none" /\ program[h] # "out"
  BY <1>0, <1>2 DEF AttachInv
<1>4. ASSUME NEW i \in DOMAIN backlog'
      PROVE  i + 1 \in DOMAIN backlog /\ backlog'[i] = backlog[i + 1] /\ backlog'[i] # h
  <2>1. i + 1 \in DOMAIN backlog /\ backlog'[i] = backlog[i + 1] /\ i + 1 # 1
    BY <1>2
  <2>. QED
    BY <1>0, <1>2, <1>3, <2>1 DEF AttachInv
<1>5. Attached' = Attached \cup {h}
  <2>1. /\ DOMAIN clients' = 1 .. Len(clients) + 1
        /\ DOMAIN clients = 1 .. Len(clients) /\ Len(clients) \in Nat
        /\ \A i \in 1 .. Len(clients) : clients'[i] = clients[i]
        /\ clients'[Len(clients) + 1] = h
    BY <1>0, <1>1, <1>2, AppendFacts, LenProperties DEF TypeOK, HostTypeOK
  <2>2. \A i \in DOMAIN clients' : i \in DOMAIN clients \/ i = Len(clients) + 1
    BY <2>1
  <2>3. DOMAIN clients \subseteq DOMAIN clients' /\ Len(clients) + 1 \in DOMAIN clients'
    BY <2>1
  <2>4. \A i \in DOMAIN clients : clients'[i] = clients[i]
    BY <2>1
  <2>. QED
    BY <2>1, <2>2, <2>3, <2>4 DEF Attached, ToSet
<1>6. readReq'[h] = 0
  BY <1>0, <1>1, <1>2, <1>3 DEF AttachInv
<1>7. \A i, j \in DOMAIN backlog' : backlog'[i] = backlog'[j] => i = j
  <2>1. \A i \in DOMAIN backlog' : i \in Nat
    BY <1>2
  <2>. QED
    BY <1>0, <1>4, <2>1 DEF AttachInv
<1>8. \A i \in DOMAIN backlog' : io'[backlog'[i]] = "none" /\ program'[backlog'[i]] # "out"
  <2>1. ASSUME NEW i \in DOMAIN backlog' PROVE io'[backlog'[i]] = io[backlog'[i]]
    <3>1. backlog'[i] \in Clients /\ backlog'[i] # h
      BY <1>0, <1>4, ElementOfSeq, LenProperties DEF TypeOK, ChannelTypeOK
    <3>. QED
      BY <1>0, <1>1, <3>1 DEF TypeOK, HostTypeOK
  <2>. QED
    BY <1>0, <1>4, <2>1 DEF AttachInv, clientVars
<1>9. \A c \in Clients :
        /\ program'[c] = "out" => io'[c] = "none"
        /\ io'[c] = "none" => c \notin Attached' /\ readReq'[c] = 0
  BY <1>0, <1>1, <1>2, <1>3, <1>5 DEF AttachInv, TypeOK, HostTypeOK, clientVars
<1>. QED
  BY <1>5, <1>6, <1>7, <1>8, <1>9 DEF AttachInv

LEMMA LeaveAttached ==
    ASSUME TypeOK, NEW c \in Clients, Leave(c)
    PROVE  Attached' \subseteq Attached
  BY RemoveAtFacts DEF TypeOK, HostTypeOK, Leave, Attached

LEMMA ConnectAttach ==
    ASSUME IInv, NEW c \in Clients, Connect(c), UNCHANGED hostVars
    PROVE  AttachInv'
<1>0. TypeOK /\ AttachInv
  BY DEF IInv
<1>1. /\ program[c] = "out" /\ program' = [program EXCEPT ![c] = "in"]
      /\ backlog' = Append(backlog, c)
      /\ UNCHANGED <<io, clients, readReq>>
  BY DEF Connect, hostVars
<1>2. /\ DOMAIN backlog' = 1 .. Len(backlog) + 1
      /\ DOMAIN backlog = 1 .. Len(backlog) /\ Len(backlog) \in Nat
      /\ \A i \in 1 .. Len(backlog) : backlog'[i] = backlog[i] /\ backlog[i] \in Clients
      /\ backlog'[Len(backlog) + 1] = c
  BY <1>0, <1>1, AppendFacts, LenProperties, ElementOfSeq DEF TypeOK, ChannelTypeOK
<1>3. \A i \in DOMAIN backlog' :
        \/ i \in DOMAIN backlog /\ backlog'[i] = backlog[i] /\ backlog[i] \in Clients
        \/ i = Len(backlog) + 1 /\ backlog'[i] = c
  BY <1>2
<1>4. \A i \in DOMAIN backlog : backlog[i] # c
  BY <1>0, <1>1 DEF AttachInv
<1>5. \A i, j \in DOMAIN backlog' : backlog'[i] = backlog'[j] => i = j
  BY <1>0, <1>3, <1>4 DEF AttachInv
<1>6. io[c] = "none" /\ \A d \in Clients : program'[d] # program[d] => d = c
  BY <1>0, <1>1 DEF AttachInv, TypeOK, ClientTypeOK
<1>7. program'[c] # "out"
  BY <1>0, <1>1 DEF TypeOK, ClientTypeOK
<1>8. \A i \in DOMAIN backlog' : io'[backlog'[i]] = "none" /\ program'[backlog'[i]] # "out"
  BY <1>0, <1>1, <1>3, <1>4, <1>6, <1>7 DEF AttachInv
<1>9. \A d \in Clients :
        /\ program'[d] = "out" => io'[d] = "none"
        /\ io'[d] = "none" => d \notin Attached' /\ readReq'[d] = 0
  BY <1>0, <1>1, <1>6, <1>7 DEF AttachInv, Attached
<1>. QED
  BY <1>5, <1>8, <1>9 DEF AttachInv

\* A program that stays or leaves does not become one that has not attached, and
\* neither does its reading thread.
LEMMA AttachKept ==
    ASSUME IInv, NEW c \in Clients, UNCHANGED backlog, UNCHANGED readReq,
           Attached' \subseteq Attached,
           NEW a, a # "out", program' = program \/ (program[c] # "out" /\ program' = [program EXCEPT ![c] = a]),
           NEW b, b # "none", io' = io \/ (io[c] # "none" /\ io' = [io EXCEPT ![c] = b])
    PROVE  AttachInv'
<1>0. TypeOK /\ AttachInv
  BY DEF IInv
<1>1. \A d \in Clients : /\ program'[d] = "out" <=> program[d] = "out"
                         /\ io'[d] = "none" <=> io[d] = "none"
  BY <1>0 DEF TypeOK, HostTypeOK, ClientTypeOK
<1>2. \A i \in DOMAIN backlog : backlog[i] \in Clients
  BY <1>0, ElementOfSeq, LenProperties DEF TypeOK, ChannelTypeOK
<1>. QED
  BY <1>0, <1>1, <1>2 DEF AttachInv

LEMMA AttachStep ==
    ASSUME IInv, [Next]_vars
    PROVE  AttachInv'
<1>0. TypeOK /\ AttachInv
  BY DEF IInv
<1>1. ASSUME UNCHANGED <<backlog, program, io, clients, readReq>> PROVE AttachInv'
  BY <1>0, <1>1, AttachFrame
<1>2. ASSUME Accept, UNCHANGED clientVars PROVE AttachInv'
  BY <1>2, AcceptAttach
<1>3. ASSUME NEW c \in Clients, ReadRequest(c), UNCHANGED clientVars PROVE AttachInv'
  <2>1. io' = io \/ (io[c] # "none" /\ io' = [io EXCEPT ![c] = "leaving"])
    BY <1>3 DEF ReadRequest
  <2>2. UNCHANGED <<backlog, readReq, program>> /\ Attached' = Attached
    BY <1>3 DEF ReadRequest, clientVars, Attached
  <2>. QED
    BY <2>1, <2>2, AttachKept
<1>4. ASSUME NEW c \in Clients, Leave(c), UNCHANGED clientVars PROVE AttachInv'
  <2>1. io[c] # "none" /\ io' = [io EXCEPT ![c] = "ended"]
    BY <1>4 DEF Leave
  <2>2. UNCHANGED <<backlog, readReq, program>>
    BY <1>4 DEF Leave, channelVars, clientVars
  <2>. QED
    BY <1>0, <1>4, <2>1, <2>2, LeaveAttached, AttachKept
<1>5. ASSUME EmitPick, UNCHANGED clientVars PROVE AttachInv'
  <2>1. UNCHANGED <<backlog, program, io, clients>>
    BY <1>5 DEF EmitPick, channelVars, clientVars
  <2>2. \/ readReq' = readReq
        \/ readReq' = [c \in Clients |->
               IF c \in Attached /\ readReq[c] > 0 THEN readReq[c] - 1 ELSE readReq[c]]
    BY <1>5 DEF EmitPick
  <2>3. \A c \in Clients : io[c] = "none" => readReq'[c] = readReq[c]
    BY <1>0, <2>2 DEF AttachInv
  <2>. QED
    BY <1>0, <2>1, <2>3, AttachFrame
<1>6. ASSUME RunTask, UNCHANGED clientVars PROVE AttachInv'
  <2>1. UNCHANGED <<backlog, program, io, clients>>
    BY <1>0, <1>6, RunTaskFrame DEF clientVars
  <2>2. \/ readReq' = readReq
        \/ \E c \in Clients : c \in Attached /\ readReq' = [readReq EXCEPT ![c] = @ + 1]
    BY <1>0, <1>6, RunTaskFrame DEF RunRead
  <2>3. \A c \in Clients : io[c] = "none" => readReq'[c] = readReq[c]
    BY <1>0, <2>2 DEF AttachInv, TypeOK, HostTypeOK
  <2>. QED
    BY <1>0, <2>1, <2>3, AttachFrame
<1>7. ASSUME EmitSend \/ User \/ Exit, UNCHANGED clientVars PROVE AttachInv'
  BY <1>1, <1>7, UserFrame DEF EmitSend, clientVars
<1>8. ASSUME NEW c \in Clients, Program(c) PROVE AttachInv'
  <2>0. UNCHANGED hostVars /\ UNCHANGED <<io, clients, readReq>> /\ Attached' = Attached
    BY <1>8 DEF Program, hostVars, Attached
  <2>1. ASSUME Connect(c) PROVE AttachInv'
    BY <2>0, <2>1, ConnectAttach
  <2>2. ASSUME NEW v, NEW closed, Request(c, v, closed) PROVE AttachInv'
    BY <1>1, <2>0, <2>2 DEF Request
  <2>3. ASSUME Close(c) \/ Die(c) \/ Closed(c) PROVE AttachInv'
    <3>1. UNCHANGED backlog /\ program[c] # "out"
      BY <2>3 DEF Close, Die, Closed, channelVars
    <3>2. \E a \in {"closing", "gone"} : program' = [program EXCEPT ![c] = a]
      BY <2>3 DEF Close, Die, Closed
    <3>. QED
      BY <2>0, <3>1, <3>2, AttachKept
  <2>4. ASSUME EventRead(c) \/ Answered(c) \/ InputThread(c) PROVE AttachInv'
    BY <1>1, <2>0, <2>4 DEF EventRead, Answered, InputThread, Sort, EndOfInput, channelVars
  <2>. QED
    BY <1>8, <2>1, <2>2, <2>3, <2>4 DEF Program, Calls, Returns, ReadEvent, Ask, Set
<1>9. CASE UNCHANGED vars
  BY <1>1, <1>9 DEF vars, channelVars, hostVars, clientVars
<1>. QED
  BY <1>2, <1>3, <1>4, <1>5, <1>6, <1>7, <1>8, <1>9 DEF Next, Host, WindowThread, HostThread

(***************************************************************************)
(* Nobody waits in vain.                                                   *)
(***************************************************************************)

LEMMA NoneWaiting ==
    ASSUME TypeOK
    PROVE  Waiting = {} <=> \A c \in Attached : readReq[c] = 0
<1>1. \A i \in DOMAIN clients : clients[i] \in Clients
  BY ElementOfSeq, LenProperties DEF TypeOK, HostTypeOK
<1>2. \A c \in Clients : readReq[c] \in Nat
  BY DEF TypeOK, HostTypeOK
<1>3. \A i \in DOMAIN clients : i \in Waiting <=> readReq[clients[i]] # 0
  BY <1>1, <1>2 DEF Waiting
<1>4. Waiting \subseteq DOMAIN clients
  BY DEF Waiting
<1>. QED
  BY <1>3, <1>4 DEF Attached, ToSet

LEMMA WaitStep ==
    ASSUME IInv, [Next]_vars
    PROVE  NobodyWaitsInVain'
<1>0. TypeOK /\ NobodyWaitsInVain
  BY DEF IInv
<1>1. ASSUME UNCHANGED <<events, readReq>>, Attached' \subseteq Attached PROVE NobodyWaitsInVain'
  BY <1>0, <1>1 DEF NobodyWaitsInVain
<1>2. ASSUME Accept, UNCHANGED clientVars PROVE NobodyWaitsInVain'
  BY <1>0, <1>2, AcceptAttach DEF NobodyWaitsInVain, Accept
<1>3. ASSUME NEW c \in Clients, HostThread(c) PROVE NobodyWaitsInVain'
  <2>1. ASSUME ReadRequest(c) PROVE NobodyWaitsInVain'
    BY <1>1, <2>1 DEF ReadRequest, Attached
  <2>2. ASSUME Leave(c) PROVE NobodyWaitsInVain'
    BY <1>0, <1>1, <2>2, LeaveAttached DEF Leave
  <2>. QED
    BY <1>3, <2>1, <2>2 DEF HostThread
<1>4. ASSUME EmitPick PROVE NobodyWaitsInVain'
  <2>1. Attached' = Attached
    BY <1>4 DEF EmitPick, Attached
  <2>2. CASE Waiting = {}
    <3>1. readReq' = readReq
      BY <1>4, <2>2 DEF EmitPick
    <3>. QED
      BY <1>0, <2>1, <2>2, <3>1, NoneWaiting DEF NobodyWaitsInVain
  <2>3. CASE Waiting # {}
    <3>1. events = <<>> /\ events' = events
      BY <1>0, <1>4, <2>3, NoneWaiting DEF EmitPick, NobodyWaitsInVain
    <3>. QED
      BY <3>1 DEF NobodyWaitsInVain
  <2>. QED
    BY <2>2, <2>3
<1>5. ASSUME RunTask PROVE NobodyWaitsInVain'
  <2>1. Attached' = Attached
    BY <1>0, <1>5, RunTaskFrame DEF Attached
  <2>2. ASSUME NEW c \in Clients, RunRead(c) PROVE NobodyWaitsInVain'
    BY <1>0, <2>1, <2>2 DEF RunRead, NobodyWaitsInVain
  <2>. QED
    BY <1>0, <1>1, <1>5, <2>1, <2>2, RunTaskFrame
<1>6. ASSUME EmitSend \/ User \/ Exit PROVE NobodyWaitsInVain'
  BY <1>1, <1>6, UserFrame DEF EmitSend, Attached
<1>7. CASE UNCHANGED hostVars
  BY <1>1, <1>7 DEF hostVars, Attached
<1>. QED
  BY <1>2, <1>3, <1>4, <1>5, <1>6, <1>7 DEF Next, Host, WindowThread, Program, vars

(***************************************************************************)
(* Keys are queued and assigned in order.                                  *)
(***************************************************************************)

\* A key later than all others is queued.
LEMMA KeepOrder ==
    ASSUME TypeOK, OrderInv, emitted' = emitted + 1, events' = Append(events, emitted'),
           UNCHANGED given
    PROVE  OrderInv'
<1>. DEFINE n == emitted + 1
<1>1. /\ emitted \in Nat /\ Len(events) \in Nat
      /\ DOMAIN events = 1 .. Len(events) /\ DOMAIN events' = 1 .. Len(events) + 1
      /\ \A i \in 1 .. Len(events) : events'[i] = events[i]
      /\ events'[Len(events) + 1] = n
  BY AppendFacts, LenProperties DEF TypeOK, HostTypeOK
<1>2. \A i \in DOMAIN events' :
        \/ i \in DOMAIN events /\ events'[i] = events[i] /\ i < Len(events) + 1
        \/ i = Len(events) + 1 /\ events'[i] = n
  BY <1>1
<1>3. \A i \in DOMAIN events : events[i] \in 1 .. emitted /\ events[i] < n
  BY <1>1 DEF OrderInv
<1>4. \A c \in Clients : \A i \in DOMAIN given[c] : given[c][i] \in 1 .. emitted /\ given[c][i] < n
  BY <1>1 DEF OrderInv
<1>5. 1 .. emitted \subseteq 1 .. emitted' /\ n \in 1 .. emitted'
  BY <1>1
<1>6. \A i \in DOMAIN events' : events'[i] \in 1 .. emitted'
  BY <1>2, <1>3, <1>5
<1>7. \A i, j \in DOMAIN events' : i < j => events'[i] < events'[j]
  <2>1. \A i \in DOMAIN events' : i \in Nat /\ i <= Len(events) + 1
    BY <1>1
  <2>. QED
    BY <1>1, <1>2, <1>3, <2>1 DEF OrderInv
<1>8. \A c \in Clients : \A i \in DOMAIN given[c] : \A j \in DOMAIN events' :
        given[c][i] < events'[j]
  BY <1>2, <1>4 DEF OrderInv
<1>. QED
  BY <1>4, <1>5, <1>6, <1>7, <1>8 DEF OrderInv

\* Key n is assigned to c: it is later than all that were assigned, and earlier
\* than all that stay in the queue.
LEMMA AssignOrder ==
    ASSUME TypeOK, OrderInv, NEW c \in Clients, NEW n \in Nat,
           given' = [given EXCEPT ![c] = Append(@, n)],
           n \in 1 .. emitted', emitted' \in Nat, emitted <= emitted',
           \A d \in Clients : \A i \in DOMAIN given[d] : given[d][i] < n,
           \A j \in DOMAIN events' : events'[j] \in 1 .. emitted' /\ n < events'[j],
           \A i, j \in DOMAIN events' : i < j => events'[i] < events'[j],
           \A j \in DOMAIN events' : \E k \in DOMAIN events : events'[j] = events[k]
    PROVE  OrderInv'
<1>1. /\ Len(given[c]) \in Nat /\ DOMAIN given[c] = 1 .. Len(given[c])
      /\ DOMAIN given'[c] = 1 .. Len(given[c]) + 1
      /\ \A i \in 1 .. Len(given[c]) : given'[c][i] = given[c][i]
      /\ given'[c][Len(given[c]) + 1] = n
  BY AppendFacts, LenProperties DEF TypeOK, HostTypeOK
<1>2. \A d \in Clients : d # c => given'[d] = given[d]
  BY DEF TypeOK, HostTypeOK
<1>3. \A d \in Clients : \A i \in DOMAIN given'[d] :
        \/ i \in DOMAIN given[d] /\ given'[d][i] = given[d][i]
        \/ d = c /\ i = Len(given[c]) + 1 /\ given'[d][i] = n
  BY <1>1, <1>2
<1>4. \A d \in Clients : \A i \in DOMAIN given[d] :
        /\ given[d][i] \in 1 .. emitted' /\ given[d][i] < n /\ given[d][i] # n
        /\ \A j \in DOMAIN events' : given[d][i] < events'[j]
  BY SMTT(40) DEF OrderInv, TypeOK, HostTypeOK
<1>5. \A d \in Clients : \A i \in DOMAIN given'[d] :
        /\ given'[d][i] \in 1 .. emitted'
        /\ \A j \in DOMAIN events' : given'[d][i] < events'[j]
  BY <1>3, <1>4
<1>6. \A d \in Clients : \A i, j \in DOMAIN given'[d] : i < j => given'[d][i] < given'[d][j]
  <2>1. ASSUME NEW d \in Clients, d # c
        PROVE  \A i, j \in DOMAIN given'[d] : i < j => given'[d][i] < given'[d][j]
    BY <1>2, <2>1 DEF OrderInv
  <2>2. ASSUME NEW i \in DOMAIN given'[c], NEW j \in DOMAIN given'[c], i < j
        PROVE  given'[c][i] < given'[c][j]
    <3>1. i \in DOMAIN given[c] /\ given'[c][i] = given[c][i]
      BY <1>1, <2>2
    <3>2. CASE j \in DOMAIN given[c]
      BY <1>1, <2>2, <3>1, <3>2 DEF OrderInv
    <3>3. CASE j \notin DOMAIN given[c]
      BY <1>3, <1>4, <3>1, <3>3
    <3>. QED
      BY <3>2, <3>3
  <2>. QED
    BY <2>1, <2>2
<1>7. \A d, e \in Clients : d # e =>
        \A i \in DOMAIN given'[d], j \in DOMAIN given'[e] : given'[d][i] # given'[e][j]
  BY <1>3, <1>4 DEF OrderInv
<1>. QED
  BY <1>5, <1>6, <1>7 DEF OrderInv

\* The oldest key of the queue is earlier than the others and later than all
\* that were assigned.
LEMMA TakeOrder ==
    ASSUME TypeOK, OrderInv, events # <<>>, NEW c \in Clients,
           events' = Tail(events), given' = [given EXCEPT ![c] = Append(@, Head(events))],
           UNCHANGED emitted
    PROVE  OrderInv'
<1>1. /\ Len(events) \in Nat \ {0} /\ DOMAIN events = 1 .. Len(events)
      /\ Head(events) \in Nat /\ Head(events) = events[1]
      /\ DOMAIN events' = 1 .. Len(events) - 1
      /\ \A i \in 1 .. Len(events) - 1 : events'[i] = events[i + 1]
      /\ emitted \in Nat
  BY TailFacts, LenProperties DEF TypeOK, HostTypeOK
<1>2. 1 \in DOMAIN events
  BY <1>1
<1>3. \A j \in DOMAIN events' : j + 1 \in DOMAIN events /\ 1 < j + 1 /\ events'[j] = events[j + 1]
  BY <1>1
<1>4. \A j \in DOMAIN events' : /\ events'[j] \in 1 .. emitted' /\ Head(events) < events'[j]
                               /\ \E k \in DOMAIN events : events'[j] = events[k]
  BY <1>1, <1>2, <1>3 DEF OrderInv
<1>5. \A i, j \in DOMAIN events' : i < j => events'[i] < events'[j]
  <2>1. ASSUME NEW i \in DOMAIN events', NEW j \in DOMAIN events', i < j
        PROVE  events'[i] < events'[j]
    <3>1. i + 1 < j + 1
      BY <1>1, <2>1
    <3>. QED
      BY <1>3, <3>1 DEF OrderInv
  <2>. QED
    BY <2>1
<1>6. \A d \in Clients : \A i \in DOMAIN given[d] : given[d][i] < Head(events)
  BY <1>1, <1>2 DEF OrderInv
<1>7. Head(events) \in 1 .. emitted' /\ emitted' \in Nat /\ emitted <= emitted'
  BY <1>1, <1>2 DEF OrderInv
<1>. QED
  BY <1>1, <1>4, <1>5, <1>6, <1>7, AssignOrder

\* What _emit_event does with a key.
LEMMA EmitPickCases ==
    ASSUME IInv, EmitPick
    PROVE  /\ emitted' = emitted + 1 /\ UNCHANGED toClient /\ ui.at = "emit"
           /\ \/ /\ events' = Append(events, emitted') /\ UNCHANGED given
                 /\ ui' = Emit(ui.left - 1) /\ ui.left - 1 \in Nat
              \/ \E c \in Clients :
                   /\ events = <<>> /\ UNCHANGED events
                   /\ given' = [given EXCEPT ![c] = Append(@, emitted')]
                   /\ ui' = Send(c, emitted', ui.left - 1, None)
<1>0. TypeOK /\ UiInv /\ NobodyWaitsInVain
  BY DEF IInv
<1>1. emitted' = emitted + 1 /\ UNCHANGED toClient /\ ui.at = "emit"
  BY DEF EmitPick, channelVars
<1>2. CASE Waiting = {}
  <2>1. ui.left - 1 \in Nat
    <3>1. ui.left > 0
      BY <1>0, <1>1 DEF UiInv
    <3>2. ui.left \in Nat
      BY <1>0 DEF TypeOK, HostTypeOK, UiType
    <3>. QED
      BY <3>1, <3>2
  <2>. QED
    BY <1>1, <1>2, <2>1 DEF EmitPick
<1>3. CASE Waiting # {}
  <2>1. events = <<>>
    BY <1>0, <1>3, NoneWaiting DEF NobodyWaitsInVain
  <2>2. PICK last \in Waiting :
          /\ given' = [given EXCEPT ![clients[last]] = Append(@, emitted')]
          /\ ui' = Send(clients[last], emitted', ui.left - 1, None)
          /\ UNCHANGED events
    BY <1>3 DEF EmitPick
  <2>3. clients[last] \in Clients
    BY <1>0, <2>2, ElementOfSeq, LenProperties DEF Waiting, TypeOK, HostTypeOK
  <2>. QED
    BY <1>1, <2>1, <2>2, <2>3
<1>. QED
  BY <1>2, <1>3

\* A key that is handed over at once is the latest, and none waits in the queue.
LEMMA HandOrder ==
    ASSUME TypeOK, OrderInv, events = <<>>, UNCHANGED events, emitted' = emitted + 1,
           NEW c \in Clients, given' = [given EXCEPT ![c] = Append(@, emitted')]
    PROVE  OrderInv'
<1>1. emitted \in Nat /\ emitted' \in Nat /\ emitted' \in 1 .. emitted' /\ emitted <= emitted'
  BY DEF TypeOK, HostTypeOK
<1>2. DOMAIN events' = {}
  BY DEF TypeOK, HostTypeOK
<1>3. \A d \in Clients : \A i \in DOMAIN given[d] : given[d][i] < emitted'
  BY <1>1 DEF OrderInv
<1>. QED
  BY <1>1, <1>2, <1>3, AssignOrder

LEMMA OrderStep ==
    ASSUME IInv, [Next]_vars
    PROVE  OrderInv'
<1>0. TypeOK /\ OrderInv
  BY DEF IInv
<1>1. ASSUME UNCHANGED <<events, emitted, given>> PROVE OrderInv'
  BY <1>0, <1>1 DEF OrderInv
<1>2. ASSUME EmitPick PROVE OrderInv'
  BY <1>0, <1>2, EmitPickCases, KeepOrder, HandOrder
<1>3. ASSUME NEW c \in Clients, RunRead(c), UNCHANGED emitted PROVE OrderInv'
  <2>1. CASE events = <<>>
    BY <1>1, <1>3, <2>1 DEF RunRead
  <2>2. CASE events # <<>>
    BY <1>0, <1>3, <2>2, TakeOrder DEF RunRead
  <2>. QED
    BY <2>1, <2>2
<1>4. ASSUME RunTask PROVE OrderInv'
  BY <1>0, <1>1, <1>3, <1>4, RunTaskFrame
<1>5. ASSUME EmitSend \/ User \/ Exit \/ Accept \/ \E c \in Clients : HostThread(c)
      PROVE  OrderInv'
  BY <1>1, <1>5, UserFrame DEF EmitSend, Accept, HostThread, ReadRequest, Leave
<1>6. CASE UNCHANGED hostVars
  BY <1>1, <1>6 DEF hostVars
<1>. QED
  BY <1>2, <1>4, <1>5, <1>6 DEF Next, Host, WindowThread, Program, vars

(***************************************************************************)
(* Nothing overtakes a key on its way to its program.                      *)
(***************************************************************************)

LEMMA PipelineFrame ==
    ASSUME NEW c \in Clients, PipelineInv(c), Assigned(c) \subseteq Assigned(c)',
           received'[c] = received[c], inputs'[c] = inputs[c], toClient'[c] = toClient[c],
           Leaving(c)' \subseteq Leaving(c)
    PROVE  PipelineInv(c)'
<1>1. Had(c)' = Had(c)
  BY DEF Had
<1>. QED
  BY <1>1 DEF PipelineInv, Before, Increasing

\* Assigning a key keeps what was assigned; the key is later than all of it.
LEMMA AssignedGrows ==
    ASSUME TypeOK, NEW c \in Clients, NEW n \in Nat,
           given' = [given EXCEPT ![c] = Append(@, n)], NEW d \in Clients
    PROVE  Assigned(d)' = Assigned(d) \cup (IF d = c THEN {n} ELSE {})
<1>1. CASE d = c
  <2>1. /\ DOMAIN given[c] = 1 .. Len(given[c])
        /\ DOMAIN given'[c] = 1 .. Len(given[c]) + 1 /\ Len(given[c]) \in Nat
        /\ \A i \in 1 .. Len(given[c]) : given'[c][i] = given[c][i]
        /\ given'[c][Len(given[c]) + 1] = n
    BY AppendFacts, LenProperties DEF TypeOK, HostTypeOK
  <2>2. /\ \A i \in DOMAIN given'[c] : i \in DOMAIN given[c] \/ i = Len(given[c]) + 1
        /\ DOMAIN given[c] \subseteq DOMAIN given'[c]
        /\ Len(given[c]) + 1 \in DOMAIN given'[c]
        /\ \A i \in DOMAIN given[c] : given'[c][i] = given[c][i]
    BY <2>1
  <2>. QED
    BY <1>1, <2>1, <2>2 DEF Assigned
<1>2. CASE d # c
  BY <1>2 DEF Assigned, TypeOK, HostTypeOK
<1>. QED
  BY <1>1, <1>2

LEMMA AssignPipeline ==
    ASSUME TypeOK, NEW c \in Clients, NEW n \in Nat, NEW d \in Clients, PipelineInv(d),
           given' = [given EXCEPT ![c] = Append(@, n)],
           \A i \in DOMAIN given[c] : given[c][i] < n,
           ui.at # "send", NEW left, NEW h, ui' = Send(c, n, left, h),
           UNCHANGED <<toClient, inputs, received>>
    PROVE  PipelineInv(d)'
<1>1. Assigned(d)' = Assigned(d) \cup (IF d = c THEN {n} ELSE {})
  BY AssignedGrows
<1>2. Leaving(d) = {} /\ Leaving(d)' = (IF d = c THEN {n} ELSE {})
  BY DEF Leaving, Send
<1>3. CASE d # c
  BY <1>1, <1>2, <1>3, PipelineFrame
<1>4. CASE d = c
  <2>1. \A a \in Assigned(d) : a < n
    BY <1>4 DEF Assigned
  <2>2. Had(d)' = Had(d)
    BY DEF Had
  <2>. QED
    BY <1>1, <1>2, <1>4, <2>1, <2>2 DEF PipelineInv, Before, Increasing
<1>. QED
  BY <1>3, <1>4

\* The key that was being sent goes to the end of the channel.
LEMMA SendPipeline ==
    ASSUME TypeOK, ui.at = "send", ui.to \in Clients, SendResponse(ui.to, Key(ui.key)),
           ui'.at # "send", UNCHANGED <<given, inputs, received>>,
           NEW d \in Clients, PipelineInv(d)
    PROVE  PipelineInv(d)'
<1>. DEFINE c == ui.to
<1>1. Leaving(d)' = {} /\ Assigned(d)' = Assigned(d) /\ Had(d)' = Had(d)
  BY DEF Leaving, Assigned, Had
<1>2. CASE d # c
  <2>1. toClient'[d] = toClient[d]
    BY <1>2 DEF SendResponse, TypeOK, ChannelTypeOK
  <2>. QED
    BY <1>1, <2>1, PipelineFrame
<1>3. CASE d = c
  <2>1. /\ toClient'[d] = Append(toClient[d], Key(ui.key))
        /\ toClient[d] \in Seq(Responses) /\ Key(ui.key) \in Responses
    BY <1>3, VerbTypes DEF SendResponse, TypeOK, ChannelTypeOK, HostTypeOK, UiType
  <2>2. Key(ui.key).type = "key" /\ Key(ui.key).n = ui.key
    BY DEF Key
  <2>3. Leaving(d) = {ui.key}
    BY <1>3 DEF Leaving
  <2>4. KeysOf(toClient'[d]) = KeysOf(toClient[d]) \cup {ui.key}
    BY <2>1, <2>2, AppendKeys
  <2>5. KeysIncreasing(toClient'[d])
    BY <2>1, <2>2, <2>3, AppendKeysIncreasing DEF PipelineInv
  <2>. QED
    BY <1>1, <2>3, <2>4, <2>5 DEF PipelineInv, Before, Increasing
<1>. QED
  BY <1>2, <1>3

\* Any other response changes nothing for the keys.
LEMMA PlainPipeline ==
    ASSUME TypeOK, UNCHANGED <<given, inputs, received>>, NEW t \in {"resize", "close"} \cup Kinds,
           NEW d \in Clients, PipelineInv(d), Leaving(d)' \subseteq Leaving(d),
           toClient'[d] = toClient[d] \/ toClient'[d] = Append(toClient[d], Plain(t))
    PROVE  PipelineInv(d)'
<1>1. Assigned(d)' = Assigned(d) /\ Had(d)' = Had(d)
  BY DEF Assigned, Had
<1>2. CASE toClient'[d] = toClient[d]
  BY <1>1, <1>2, PipelineFrame
<1>3. CASE toClient'[d] = Append(toClient[d], Plain(t))
  <2>1. /\ toClient[d] \in Seq(Responses) /\ Plain(t) \in Responses /\ Plain(t).type # "key"
    BY VerbTypes, KindsAssumption DEF TypeOK, ChannelTypeOK, Plain
  <2>2. KeysOf(toClient'[d]) = KeysOf(toClient[d]) \cup {}
    BY <1>3, <2>1, AppendKeys
  <2>3. KeysIncreasing(toClient'[d])
    <3>1. KeysIncreasing(toClient[d])
      BY DEF PipelineInv
    <3>. QED
      BY <1>3, <2>1, <3>1, AppendKeysIncreasing
  <2>. QED
    BY <1>1, <2>2, <2>3 DEF PipelineInv, Before, Increasing
<1>. QED
  BY <1>2, <1>3

\* The input thread puts a key at the end of the list.
LEMMA SortPipeline ==
    ASSUME TypeOK, NEW c \in Clients, Sort(c), UNCHANGED hostVars,
           NEW d \in Clients, PipelineInv(d)
    PROVE  PipelineInv(d)'
<1>. DEFINE m == Head(toClient[c])
<1>0. Assigned(d)' = Assigned(d) /\ Leaving(d)' = Leaving(d) /\ Had(d)' = Had(d)
  BY DEF Sort, hostVars, Assigned, Leaving, Had
<1>1. CASE d # c
  <2>1. inputs'[d] = inputs[d] /\ toClient'[d] = toClient[d]
    BY <1>1 DEF Sort, TypeOK, ChannelTypeOK, ClientTypeOK
  <2>2. received'[d] = received[d]
    BY DEF Sort
  <2>. QED
    BY <1>0, <2>1, <2>2, PipelineFrame
<1>2. CASE d = c
  <2>1. /\ toClient[d] \in Seq(Responses) /\ toClient[d] # <<>>
        /\ toClient'[d] = Tail(toClient[d])
        /\ inputs[d] \in Seq(Responses \cup {EndOfFile})
    BY <1>2 DEF Sort, TypeOK, ChannelTypeOK, ClientTypeOK
  <2>2. m \in Responses \cup {EndOfFile}
    BY <1>2, <2>1, TailFacts
  <2>3. KeysIncreasing(toClient[d]) /\ KeysIncreasing(inputs[d])
    BY DEF PipelineInv
  <2>4. /\ KeysOf(toClient[d]) = KeysOf(toClient'[d]) \cup (IF m.type = "key" THEN {m.n} ELSE {})
        /\ KeysIncreasing(toClient'[d])
        /\ m.type = "key" => Before({m.n}, KeysOf(toClient'[d]))
    BY <1>2, <2>1, <2>3, TailKeys
  <2>5. CASE m.type \in {"key", "resize"}
    <3>1. inputs'[d] = Append(inputs[d], m)
      BY <1>2, <2>5 DEF Sort, TypeOK, ClientTypeOK
    <3>2. KeysOf(inputs'[d]) = KeysOf(inputs[d]) \cup (IF m.type = "key" THEN {m.n} ELSE {})
      BY <2>1, <2>2, <3>1, AppendKeys
    <3>3. m.type = "key" => Before(KeysOf(inputs[d]), {m.n})
      BY <2>4 DEF PipelineInv, Before
    <3>4. KeysIncreasing(inputs'[d])
      BY <2>1, <2>2, <2>3, <3>1, <3>3, AppendKeysIncreasing
    <3>. QED
      BY <1>0, <2>4, <3>2, <3>3, <3>4 DEF PipelineInv, Before, Increasing, Sort
  <2>6. CASE m.type \notin {"key", "resize"}
    <3>1. inputs'[d] = inputs[d]
      BY <1>2, <2>6 DEF Sort
    <3>. QED
      BY <1>0, <2>4, <2>6, <3>1 DEF PipelineInv, Before, Increasing, Sort
  <2>. QED
    BY <2>5, <2>6
<1>. QED
  BY <1>1, <1>2

\* ReadEvent takes the first key of the list.
LEMMA ReadPipeline ==
    ASSUME TypeOK, NEW c \in Clients, EventRead(c), UNCHANGED hostVars,
           NEW d \in Clients, PipelineInv(d)
    PROVE  PipelineInv(d)'
<1>. DEFINE e == Head(inputs[c])
<1>0. Assigned(d)' = Assigned(d) /\ Leaving(d)' = Leaving(d) /\ toClient'[d] = toClient[d]
  BY DEF EventRead, hostVars, channelVars, Assigned, Leaving
<1>1. CASE d # c
  <2>1. inputs'[d] = inputs[d] /\ received'[d] = received[d]
    BY <1>1 DEF EventRead, TypeOK, ClientTypeOK
  <2>. QED
    BY <1>0, <2>1, PipelineFrame
<1>2. CASE d = c
  <2>1. /\ inputs[d] \in Seq(Responses \cup {EndOfFile}) /\ inputs[d] # <<>>
        /\ received[d] \in Seq(Nat)
    BY <1>2 DEF EventRead, TypeOK, ClientTypeOK
  <2>2. KeysIncreasing(inputs[d])
    BY DEF PipelineInv
  <2>3. /\ KeysOf(inputs[d]) = KeysOf(Tail(inputs[d])) \cup (IF e.type = "key" THEN {e.n} ELSE {})
        /\ KeysIncreasing(Tail(inputs[d]))
        /\ e.type = "key" => Before({e.n}, KeysOf(Tail(inputs[d])))
    BY <1>2, <2>1, <2>2, TailKeys
  <2>4. inputs'[d] = inputs[d] \/ inputs'[d] = Tail(inputs[d])
    BY <1>2 DEF EventRead, TypeOK, ClientTypeOK
  <2>5. CASE e.type # "key"
    <3>1. received'[d] = received[d] /\ Had(d)' = Had(d)
      BY <1>2, <2>5 DEF EventRead, Had
    <3>2. KeysOf(inputs'[d]) = KeysOf(inputs[d]) /\ KeysIncreasing(inputs'[d])
      BY <2>2, <2>3, <2>4, <2>5
    <3>. QED
      BY <1>0, <3>1, <3>2 DEF PipelineInv, Before, Increasing
  <2>6. CASE e.type = "key"
    <3>1. inputs'[d] = Tail(inputs[d]) /\ received'[d] = Append(received[d], e.n)
      BY <1>2, <2>6 DEF EventRead, EndOfFile, Plain, TypeOK, ClientTypeOK
    <3>2. e.n \in Nat
      <4>1. e \in Responses \cup {EndOfFile}
        BY <1>2, <2>1, TailFacts
      <4>. QED
        BY <2>6, <4>1, VerbTypes DEF EndOfFile, Plain
    <3>3. /\ DOMAIN received[d] = 1 .. Len(received[d]) /\ Len(received[d]) \in Nat
          /\ DOMAIN received'[d] = 1 .. Len(received[d]) + 1
          /\ \A i \in 1 .. Len(received[d]) : received'[d][i] = received[d][i]
          /\ received'[d][Len(received[d]) + 1] = e.n
      BY <2>1, <3>1, <3>2, AppendFacts, LenProperties
    <3>4. /\ \A i \in DOMAIN received'[d] :
              \/ i \in DOMAIN received[d] /\ received'[d][i] = received[d][i]
              \/ i = Len(received[d]) + 1 /\ received'[d][i] = e.n
          /\ DOMAIN received[d] \subseteq DOMAIN received'[d]
          /\ Len(received[d]) + 1 \in DOMAIN received'[d]
      BY <3>3
    <3>5. Had(d)' = Had(d) \cup {e.n}
      BY <3>3, <3>4 DEF Had
    <3>6. Before(Had(d), {e.n})
      BY <2>3, <2>6 DEF PipelineInv, Before
    <3>7. Increasing(received'[d])
      <4>1. ASSUME NEW i \in DOMAIN received'[d], NEW j \in DOMAIN received'[d], i < j
            PROVE  received'[d][i] < received'[d][j]
        <5>1. i \in DOMAIN received[d] /\ received'[d][i] = received[d][i]
          BY <3>3, <4>1
        <5>2. CASE j \in DOMAIN received[d]
          BY <3>3, <4>1, <5>1, <5>2 DEF PipelineInv, Increasing
        <5>3. CASE j \notin DOMAIN received[d]
          BY <3>4, <3>6, <5>1, <5>3 DEF Before, Had
        <5>. QED
          BY <5>2, <5>3
      <4>. QED
        BY <4>1 DEF Increasing
    <3>. QED
      BY <1>0, <2>3, <2>6, <3>1, <3>5, <3>6, <3>7, SMTT(40) DEF PipelineInv, Before
  <2>. QED
    BY <2>5, <2>6
<1>. QED
  BY <1>1, <1>2

\* The end of file is no key.
LEMMA EndPipeline ==
    ASSUME TypeOK, NEW c \in Clients, EndOfInput(c, HostClosed(c)), UNCHANGED hostVars,
           NEW d \in Clients, PipelineInv(d)
    PROVE  PipelineInv(d)'
<1>0. /\ Assigned(d)' = Assigned(d) /\ Leaving(d)' = Leaving(d)
      /\ toClient'[d] = toClient[d] /\ received'[d] = received[d] /\ Had(d)' = Had(d)
  BY DEF EndOfInput, hostVars, channelVars, Assigned, Leaving, Had
<1>1. CASE d # c
  <2>1. inputs'[d] = inputs[d]
    BY <1>1 DEF EndOfInput, TypeOK, ClientTypeOK
  <2>. QED
    BY <1>0, <2>1, PipelineFrame
<1>2. CASE d = c
  <2>1. inputs'[d] = Append(inputs[d], EndOfFile) /\ inputs[d] \in Seq(Responses \cup {EndOfFile})
    BY <1>2 DEF EndOfInput, TypeOK, ClientTypeOK
  <2>2. EndOfFile.type # "key" /\ EndOfFile \in Responses \cup {EndOfFile}
    BY DEF EndOfFile, Plain
  <2>3. KeysOf(inputs'[d]) = KeysOf(inputs[d]) \cup {}
    BY <2>1, <2>2, AppendKeys
  <2>4. KeysIncreasing(inputs'[d])
    <3>1. KeysIncreasing(inputs[d])
      BY DEF PipelineInv
    <3>. QED
      BY <2>1, <2>2, <3>1, AppendKeysIncreasing DEF Before
  <2>. QED
    BY <1>0, <2>3, <2>4 DEF PipelineInv, Before, Increasing
<1>. QED
  BY <1>1, <1>2

LEMMA HostPipeline ==
    ASSUME IInv, Host, NEW d \in Clients
    PROVE  PipelineInv(d)'
<1>0. TypeOK /\ UiInv /\ OrderInv /\ PipelineInv(d)
  BY DEF IInv
<1>1. UNCHANGED <<inputs, received>>
  BY DEF Host, clientVars
<1>2. ASSUME UNCHANGED <<given, toClient>>, Leaving(d)' \subseteq Leaving(d)
      PROVE  PipelineInv(d)'
  BY <1>0, <1>1, <1>2, PipelineFrame DEF Assigned
<1>3. ASSUME NEW left \in Nat, ui' = Emit(left) PROVE Leaving(d)' = {} /\ ui'.at # "send"
  BY <1>3, EmitTyped DEF Leaving
<1>4. ASSUME EmitPick PROVE PipelineInv(d)'
  <2>1. CASE UNCHANGED given /\ \E left \in Nat : ui' = Emit(left)
    BY <1>2, <1>3, <1>4, <2>1, EmitPickCases
  <2>2. ASSUME NEW c \in Clients, given' = [given EXCEPT ![c] = Append(@, emitted')],
               ui' = Send(c, emitted', ui.left - 1, None)
        PROVE  PipelineInv(d)'
    <3>1. emitted' \in Nat /\ \A i \in DOMAIN given[c] : given[c][i] < emitted'
      BY <1>0, <1>4, EmitPickCases DEF OrderInv, TypeOK, HostTypeOK
    <3>. QED
      BY <1>0, <1>1, <1>4, <2>2, <3>1, EmitPickCases, AssignPipeline
  <2>. QED
    BY <1>4, <2>1, <2>2, EmitPickCases
<1>5. ASSUME EmitSend PROVE PipelineInv(d)'
  <2>1. ui.at = "send" /\ ui.to \in Clients /\ ui.left \in Nat /\ ui' = Emit(ui.left) /\ UNCHANGED given
    BY <1>0, <1>5 DEF EmitSend, UiInv, TypeOK, HostTypeOK, UiType
  <2>2. Leaving(d)' = {} /\ ui'.at # "send"
    BY <1>3, <2>1
  <2>3. CASE UNCHANGED toClient
    BY <1>2, <2>1, <2>2, <2>3
  <2>4. CASE SendResponse(ui.to, Key(ui.key))
    BY <1>0, <1>1, <2>1, <2>2, <2>4, SendPipeline
  <2>. QED
    BY <1>5, <2>3, <2>4 DEF EmitSend
<1>6. ASSUME RunTask PROVE PipelineInv(d)'
  <2>1. ASSUME NEW c \in Clients, RunRead(c), UNCHANGED toClient PROVE PipelineInv(d)'
    <3>1. CASE events = <<>>
      BY <1>2, <2>1, <3>1 DEF RunRead, Leaving
    <3>2. CASE events # <<>>
      <4>1. /\ given' = [given EXCEPT ![c] = Append(@, Head(events))]
            /\ ui' = Send(c, Head(events), 0, c)
        BY <2>1, <3>2 DEF RunRead
      <4>2. Head(events) \in Nat /\ \A i \in DOMAIN given[c] : given[c][i] < Head(events)
        <5>1. Head(events) \in Nat /\ Head(events) = events[1] /\ 1 \in DOMAIN events
          BY <1>0, <3>2, TailFacts, LenProperties DEF TypeOK, HostTypeOK
        <5>. QED
          BY <1>0, <5>1 DEF OrderInv
      <4>3. ui.at # "send"
        BY <1>0, <1>6, RunTaskFrame
      <4>. QED
        BY <1>0, <1>1, <2>1, <4>1, <4>2, <4>3, AssignPipeline
    <3>. QED
      BY <3>1, <3>2
  <2>2. ASSUME UNCHANGED <<given, ui>>, NEW c \in Clients, NEW k \in Kinds, SendResponse(c, Plain(k))
        PROVE  PipelineInv(d)'
    <3>1. toClient'[d] = toClient[d] \/ toClient'[d] = Append(toClient[d], Plain(k))
      BY <1>0, <2>2 DEF SendResponse, TypeOK, ChannelTypeOK
    <3>2. Leaving(d)' = Leaving(d)
      BY <2>2 DEF Leaving
    <3>. QED
      BY <1>0, <1>1, <2>2, <3>1, <3>2, PlainPipeline
  <2>3. ASSUME UNCHANGED <<given, ui, toClient>> PROVE PipelineInv(d)'
    BY <1>2, <2>3 DEF Leaving
  <2>. QED
    BY <1>0, <1>6, <2>1, <2>2, <2>3, RunTaskFrame
<1>7. ASSUME User \/ Exit PROVE PipelineInv(d)'
  <2>1. UNCHANGED given /\ Leaving(d)' \subseteq Leaving(d)
    <3>1. CASE ui' = ui
      BY <1>7, <3>1, UserFrame DEF Leaving
    <3>2. ASSUME NEW left \in {1, line + 1}, ui' = Emit(left) PROVE Leaving(d)' = {}
      BY <1>0, <1>3, <3>2 DEF TypeOK, HostTypeOK
    <3>. QED
      BY <1>7, <3>1, <3>2, UserFrame
  <2>2. CASE UNCHANGED toClient
    BY <1>2, <2>1, <2>2
  <2>3. ASSUME NEW cs, NEW t \in {"resize", "close"}, Broadcast(cs, Plain(t))
        PROVE  PipelineInv(d)'
    <3>1. toClient'[d] = toClient[d] \/ toClient'[d] = Append(toClient[d], Plain(t))
      BY <2>3 DEF Broadcast
    <3>. QED
      BY <1>0, <1>1, <2>1, <3>1, PlainPipeline
  <2>. QED
    BY <1>7, <2>2, <2>3, UserFrame
<1>8. ASSUME Accept \/ \E c \in Clients : HostThread(c) PROVE PipelineInv(d)'
  BY <1>2, <1>8 DEF Accept, HostThread, ReadRequest, Leave, channelVars, Leaving
<1>. QED
  BY <1>4, <1>5, <1>6, <1>7, <1>8 DEF Host, WindowThread

LEMMA ProgramPipeline ==
    ASSUME IInv, NEW c \in Clients, Program(c), NEW d \in Clients
    PROVE  PipelineInv(d)'
<1>0. TypeOK /\ PipelineInv(d) /\ UNCHANGED hostVars
  BY DEF IInv, Program
<1>1. ASSUME UNCHANGED <<toClient, inputs, received>> PROVE PipelineInv(d)'
  BY <1>0, <1>1, PipelineFrame DEF hostVars, Assigned, Leaving
<1>2. ASSUME Calls(c) PROVE PipelineInv(d)'
  BY <1>1, <1>2, CallsFrame
<1>3. ASSUME Answered(c) \/ Closed(c) PROVE PipelineInv(d)'
  BY <1>1, <1>3 DEF Answered, Closed, channelVars
<1>. QED
  BY <1>0, <1>2, <1>3, SortPipeline, ReadPipeline, EndPipeline DEF Program, Returns, InputThread

LEMMA PipelineStep ==
    ASSUME IInv, [Next]_vars, NEW d \in Clients
    PROVE  PipelineInv(d)'
<1>1. CASE UNCHANGED vars
  <2>1. PipelineInv(d)
    BY DEF IInv
  <2>. QED
    BY <1>1, <2>1, PipelineFrame
       DEF vars, channelVars, hostVars, clientVars, Assigned, Leaving
<1>. QED
  BY <1>1, HostPipeline, ProgramPipeline DEF Next

(***************************************************************************)
(* Only programs that were accepted have tasks and are assigned keys.      *)
(***************************************************************************)

\* What the task that is run does, to the keys and to its program.
LEMMA RunTaskCases ==
    ASSUME TypeOK, RunTask, NEW t, t = Head(tasks)
    PROVE  /\ tasks # <<>> /\ tasks \in Seq([verb : Verbs, from : Clients] \cup {EosTask})
           /\ tasks' = Tail(tasks) /\ UNCHANGED <<clients, io, toHost, backlog>> /\ ui.at = "idle"
           /\ \/ /\ t.verb = "read" /\ t.from \in Clients
                 /\ RunRead(t.from) /\ UNCHANGED <<toClient, host>>
              \/ /\ t.verb \in Kinds /\ t.from \in Clients /\ t = Task(t.verb, t.from)
                 /\ SendResponse(t.from, Plain(t.verb)) /\ UNCHANGED <<given, ui, host>>
              \/ t.verb \notin Kinds /\ UNCHANGED <<given, ui, toClient>>
<1>1. /\ tasks # <<>> /\ tasks' = Tail(tasks) /\ UNCHANGED <<clients, io, toHost, backlog>>
      /\ ui.at = "idle"
  BY DEF RunTask, Ready
<1>2. tasks \in Seq([verb : Verbs, from : Clients] \cup {EosTask})
  BY DEF TypeOK, HostTypeOK
<1>3. t \in [verb : Verbs, from : Clients] \cup {EosTask}
  BY <1>1, <1>2, HeadTailProperties
<1>4. t.verb # "eos" => t.from \in Clients /\ t = Task(t.verb, t.from)
  BY <1>3 DEF EosTask, Task
<1>5. EosTask.verb = "eos" /\ "eos" \notin Kinds
  BY KindsAssumption DEF EosTask, Task
<1>6. \/ t.verb = "read" /\ RunRead(t.from) /\ UNCHANGED <<toClient, host>>
      \/ t.verb \in Kinds /\ SendResponse(t.from, Plain(t.verb)) /\ UNCHANGED <<given, ui, host>>
      \/ /\ t.verb \in {"raw", "echo", "close on detach", "stay on detach", "eos"}
         /\ UNCHANGED <<given, ui, toClient>>
  BY <1>5 DEF RunTask
<1>7. "read" # "eos" /\ \A v \in {"raw", "echo", "close on detach", "stay on detach", "eos"} : v \notin Kinds
  BY KindsAssumption DEF Settings
<1>. QED
  BY <1>1, <1>2, <1>4, <1>5, <1>6, <1>7

\* What a step does to the tasks.
LEMMA TasksMove ==
    ASSUME TypeOK, [Next]_vars
    PROVE  \/ tasks' = tasks
           \/ RunTask
           \/ \E c \in Clients : ReadRequest(c) /\ tasks' = Append(tasks, Task(Head(toHost[c]), c))
           \/ tasks' = Append(tasks, EosTask)
<1>1. ASSUME NEW c \in Clients, HostThread(c)
      PROVE  \/ tasks' = tasks
             \/ ReadRequest(c) /\ tasks' = Append(tasks, Task(Head(toHost[c]), c))
             \/ tasks' = Append(tasks, EosTask)
  BY <1>1 DEF HostThread, ReadRequest, Leave
<1>2. ASSUME User \/ Exit \/ EmitPick \/ EmitSend \/ Accept
      PROVE  tasks' = tasks
  BY <1>2, UserFrame DEF EmitPick, EmitSend, Accept
<1>3. CASE UNCHANGED hostVars
  BY <1>3 DEF hostVars
<1>. QED
  BY <1>1, <1>2, <1>3 DEF Next, Host, WindowThread, Program, vars

\* A reading thread that has begun has begun for good.
LEMMA IoKept ==
    ASSUME TypeOK, [Next]_vars, NEW c \in Clients
    PROVE  /\ io[c] # "none" => io'[c] # "none"
           /\ io[c] = "ended" => io'[c] = "ended" \/ (Accept /\ c = Head(backlog))
<1>0. io \in [Clients -> {"none", "reading", "leaving", "ended"}]
  BY DEF TypeOK, HostTypeOK
<1>1. CASE UNCHANGED io
  BY <1>1
<1>2. CASE Accept
  BY <1>0, <1>2 DEF Accept
<1>3. ASSUME NEW d \in Clients, ReadRequest(d)
      PROVE  io' = io \/ (io[d] = "reading" /\ io' = [io EXCEPT ![d] = "leaving"])
  BY <1>3 DEF ReadRequest
<1>4. ASSUME NEW d \in Clients, Leave(d)
      PROVE  io[d] = "leaving" /\ io' = [io EXCEPT ![d] = "ended"]
  BY <1>4 DEF Leave
<1>5. ASSUME User \/ Exit \/ EmitPick \/ EmitSend \/ RunTask
      PROVE  UNCHANGED io
  BY <1>5, UserFrame DEF EmitPick, EmitSend, RunTask
<1>6. CASE UNCHANGED hostVars
  BY <1>6 DEF hostVars
<1>. QED
  BY <1>0, <1>1, <1>2, <1>3, <1>4, <1>5, <1>6 DEF Next, Host, HostThread, WindowThread, Program, vars

\* Keys are given only to programs whose reading thread has begun.
LEMMA GivenTo ==
    ASSUME IInv, [Next]_vars
    PROVE  /\ given' = given \/ \E c \in Clients, n \in Nat : /\ io[c] # "none" /\ io'[c] # "none"
                                        /\ given' = [given EXCEPT ![c] = Append(@, n)]
                                        /\ ui.at # "send" /\ ui'.at = "send" /\ ui'.to = c /\ ui'.key = n
                                        /\ UNCHANGED <<inputs, received, toClient>>
           /\ ui'.at = "send" => (ui.at = "send" /\ ui'.to = ui.to) \/ io'[ui'.to] # "none"
<1>0. TypeOK /\ UiInv /\ KnownInv /\ AttachInv /\ emitted \in Nat /\ given \in [Clients -> Seq(Nat)]
  BY DEF IInv, TypeOK, HostTypeOK
<1>1. ASSUME UNCHANGED given, ui' = ui \/ \E left \in Nat : ui' = Emit(left)
      PROVE  /\ given' = given
             /\ ui'.at = "send" => ui.at = "send" /\ ui'.to = ui.to
  BY <1>1, EmitTyped
<1>2. CASE EmitPick
  <2>1. CASE Waiting = {}
    <3>1. UNCHANGED given /\ \E left \in Nat : ui' = Emit(left)
      BY <1>0, <1>2, <2>1, EmitPickCases DEF EmitPick, IInv
    <3>. QED
      BY <1>1, <3>1
  <2>2. CASE Waiting # {}
    <3>1. PICK last \in Waiting :
            /\ given' = [given EXCEPT ![clients[last]] = Append(@, emitted')]
            /\ ui' = Send(clients[last], emitted', ui.left - 1, None)
      BY <1>2, <2>2 DEF EmitPick
    <3>2. clients[last] \in Clients /\ clients[last] \in Attached
      BY <1>0, <3>1, ElementOfSeq, LenProperties DEF Waiting, TypeOK, HostTypeOK, Attached, ToSet
    <3>3. io[clients[last]] # "none" /\ io' = io
      BY <1>0, <1>2, <3>2 DEF AttachInv, EmitPick
    <3>4. emitted' \in Nat /\ ui.at # "send" /\ UNCHANGED <<inputs, received, toClient>>
      <4>1. UNCHANGED clientVars
        BY <1>2 DEF Next, Host, Program, vars, hostVars, EmitPick
      <4>. QED
        BY <1>0, <1>2, <4>1 DEF EmitPick, channelVars, clientVars
    <3>. QED
      BY <3>1, <3>2, <3>3, <3>4 DEF Send
  <2>. QED
    BY <2>1, <2>2
<1>3. CASE RunTask
  <2>. DEFINE t == Head(tasks)
  <2>1. /\ tasks # <<>> /\ tasks \in Seq([verb : Verbs, from : Clients] \cup {EosTask})
        /\ io' = io /\ ui.at = "idle"
    BY <1>0, <1>3, RunTaskCases
  <2>2. CASE UNCHANGED <<given, ui>>
    BY <1>1, <2>2
  <2>3. CASE t.from \in Clients /\ RunRead(t.from) /\ UNCHANGED toClient
    <3>. DEFINE c == t.from
    <3>1. CASE events = <<>>
      BY <1>1, <2>3, <3>1 DEF RunRead
    <3>2. CASE events # <<>>
      <4>1. /\ given' = [given EXCEPT ![c] = Append(@, Head(events))]
            /\ ui' = Send(c, Head(events), 0, c)
        BY <2>3, <3>2 DEF RunRead
      <4>2. Head(events) \in Nat
        BY <1>0, <3>2, TailFacts DEF TypeOK, HostTypeOK
      <4>3. io[c] # "none"
        <5>1. 1 \in DOMAIN tasks /\ tasks[1] = t
          BY <2>1, TailFacts, LenProperties
        <5>. QED
          BY <1>0, <2>3, <5>1 DEF KnownInv
      <4>4. UNCHANGED clientVars
        <5>1. tasks' # tasks
          <6>1. Len(Tail(tasks)) = Len(tasks) - 1 /\ Len(tasks) \in Nat
            BY <2>1, HeadTailProperties, LenProperties
          <6>2. tasks' = Tail(tasks)
            BY <1>0, <1>3, RunTaskCases
          <6>. QED
            BY <6>1, <6>2
        <5>. QED
          BY <5>1 DEF Next, Host, Program, vars, hostVars
      <4>5. UNCHANGED <<inputs, received>>
        BY <4>4 DEF clientVars
      <4>. HIDE DEF t
      <4>. QED
        BY <2>1, <2>3, <4>1, <4>2, <4>3, <4>5 DEF Send
    <3>. QED
      BY <3>1, <3>2
  <2>. QED
    BY <1>0, <1>3, <2>2, <2>3, RunTaskCases
<1>4. CASE EmitSend
  <2>1. ui' = Emit(ui.left) /\ ui.left \in Nat /\ UNCHANGED given
    BY <1>0, <1>4 DEF EmitSend, TypeOK, HostTypeOK, UiType
  <2>. QED
    BY <1>1, <2>1
<1>5. CASE User \/ Exit
  <2>1. UNCHANGED given /\ (ui' = ui \/ \E left \in {1, line + 1} : ui' = Emit(left))
    BY <1>5, UserFrame
  <2>2. {1, line + 1} \subseteq Nat
    BY <1>0 DEF TypeOK, HostTypeOK
  <2>. QED
    BY <1>1, <2>1, <2>2
<1>6. ASSUME Accept \/ \E c \in Clients : HostThread(c)
      PROVE  UNCHANGED <<given, ui>>
  BY <1>6 DEF Accept, HostThread, ReadRequest, Leave
<1>7. CASE UNCHANGED hostVars
  BY <1>1, <1>7 DEF hostVars
<1>. QED
  BY <1>1, <1>2, <1>3, <1>4, <1>5, <1>6, <1>7 DEF Next, Host, WindowThread, Program, vars

LEMMA TasksTail ==
    ASSUME TypeOK, RunTask
    PROVE  /\ \A i \in DOMAIN tasks' : i + 1 \in DOMAIN tasks /\ tasks'[i] = tasks[i + 1]
           /\ 1 \in DOMAIN tasks /\ Head(tasks) = tasks[1]
<1>1. tasks # <<>> /\ tasks' = Tail(tasks) /\ tasks \in Seq([verb : Verbs, from : Clients] \cup {EosTask})
  BY RunTaskCases
<1>2. /\ Len(tasks) \in Nat \ {0} /\ DOMAIN tasks = 1 .. Len(tasks)
      /\ Head(tasks) = tasks[1]
      /\ DOMAIN tasks' = 1 .. Len(tasks) - 1
      /\ \A i \in 1 .. Len(tasks) - 1 : tasks'[i] = tasks[i + 1]
  BY <1>1, TailFacts, LenProperties
<1>. QED
  BY <1>2

LEMMA TasksAppended ==
    ASSUME TypeOK, NEW t \in [verb : Verbs, from : Clients] \cup {EosTask}, tasks' = Append(tasks, t)
    PROVE  \A i \in DOMAIN tasks' : (i \in DOMAIN tasks /\ tasks'[i] = tasks[i]) \/ tasks'[i] = t
<1>1. tasks \in Seq([verb : Verbs, from : Clients] \cup {EosTask})
  BY DEF TypeOK, HostTypeOK
<1>2. /\ DOMAIN tasks' = 1 .. Len(tasks) + 1 /\ DOMAIN tasks = 1 .. Len(tasks) /\ Len(tasks) \in Nat
      /\ \A i \in 1 .. Len(tasks) : tasks'[i] = tasks[i]
      /\ tasks'[Len(tasks) + 1] = t
  BY <1>1, AppendFacts, LenProperties
<1>. QED
  BY <1>2

LEMMA KnownStep ==
    ASSUME IInv, [Next]_vars
    PROVE  KnownInv'
<1>0. TypeOK /\ KnownInv /\ UiInv /\ None \notin Clients
  BY NoneAssumption DEF IInv
<1>1. \A c \in Clients : io[c] # "none" => io'[c] # "none"
  BY <1>0, IoKept
<1>3. \A i \in DOMAIN tasks' : tasks'[i].from \in Clients => io'[tasks'[i].from] # "none"
  <2>1. CASE tasks' = tasks
    BY <1>0, <1>1, <2>1 DEF KnownInv
  <2>2. CASE RunTask
    <3>1. \A i \in DOMAIN tasks' : i + 1 \in DOMAIN tasks /\ tasks'[i] = tasks[i + 1]
      BY <1>0, <2>2, TasksTail
    <3>. QED
      BY <1>0, <1>1, <3>1 DEF KnownInv
  <2>3. ASSUME NEW t \in [verb : Verbs, from : Clients] \cup {EosTask}, tasks' = Append(tasks, t),
               t.from \in Clients => io[t.from] # "none"
        PROVE  \A i \in DOMAIN tasks' : tasks'[i].from \in Clients => io'[tasks'[i].from] # "none"
    <3>1. \A i \in DOMAIN tasks' : (i \in DOMAIN tasks /\ tasks'[i] = tasks[i]) \/ tasks'[i] = t
      BY <1>0, <2>3, TasksAppended
    <3>. QED
      BY <1>0, <1>1, <2>3, <3>1 DEF KnownInv
  <2>4. ASSUME NEW c \in Clients, ReadRequest(c), tasks' = Append(tasks, Task(Head(toHost[c]), c))
        PROVE  \A i \in DOMAIN tasks' : tasks'[i].from \in Clients => io'[tasks'[i].from] # "none"
    <3>1. Head(toHost[c]) \in Verbs /\ io[c] = "reading"
      BY <1>0, <2>4, HeadTailProperties DEF ReadRequest, TypeOK, ChannelTypeOK
    <3>2. Task(Head(toHost[c]), c) \in [verb : Verbs, from : Clients] /\ Task(Head(toHost[c]), c).from = c
      BY <3>1 DEF Task
    <3>. QED
      BY <2>3, <2>4, <3>1, <3>2
  <2>5. EosTask.from = None
    BY DEF EosTask, Task
  <2>. QED
    BY <1>0, <2>1, <2>2, <2>3, <2>4, <2>5, TasksMove
<1>4. ui'.at = "send" => io'[ui'.to] # "none"
  <2>1. CASE ui.at = "send" /\ ui'.to = ui.to
    BY <1>0, <1>1, <2>1 DEF KnownInv, UiInv
  <2>. QED
    BY <2>1, GivenTo
<1>5. ASSUME NEW c \in Clients, io'[c] = "none"
      PROVE  given'[c] = <<>>
  <2>1. given[c] = <<>>
    BY <1>0, <1>1, <1>5 DEF KnownInv
  <2>2. given' = given \/ \E d \in Clients, n \in Nat : /\ io'[d] # "none"
                              /\ given' = [given EXCEPT ![d] = Append(@, n)]
    BY GivenTo
  <2>3. given'[c] = given[c]
    BY <1>0, <1>5, <2>2 DEF TypeOK, HostTypeOK
  <2>. QED
    BY <2>1, <2>3
<1>. QED
  BY <1>3, <1>4, <1>5 DEF KnownInv

(***************************************************************************)
(* No key is lost while both ends are there.                               *)
(***************************************************************************)

\* The window's end of a channel does not come back.
LEMMA ClosedStays ==
    ASSUME IInv, [Next]_vars, NEW d \in Clients, HostClosed(d)
    PROVE  HostClosed(d)'
<1>0. TypeOK /\ AttachInv /\ UiInv /\ None \notin Clients
  BY NoneAssumption DEF IInv
<1>1. CASE ~Open
  <2>1. ~Host
    BY <1>1 DEF Host, User, RawKey, Char, Return, Back, Delete, MoveCaret, Press, Resize, CloseWindow,
                WindowThread, RunTask, EmitPick, EmitSend, Exit, Ready, Accept, HostThread,
                ReadRequest, Leave, Open
  <2>2. UNCHANGED host
    BY <2>1 DEF Next, Program, hostVars, vars
  <2>. QED
    BY <1>1, <2>2 DEF HostClosed, Open
<1>2. CASE io[d] = "ended" /\ ~Alive(d)
  <2>1. io'[d] = "ended"
    <3>1. ~(Accept /\ d = Head(backlog))
      <4>1. ASSUME Accept, d = Head(backlog) PROVE FALSE
        <5>1. backlog # <<>> /\ backlog \in Seq(Clients)
          BY <1>0, <4>1 DEF Accept, TypeOK, ChannelTypeOK
        <5>2. 1 \in DOMAIN backlog /\ Head(backlog) = backlog[1]
          BY <5>1, TailFacts, LenProperties
        <5>. QED
          BY <1>0, <1>2, <4>1, <5>2 DEF AttachInv
      <4>. QED
        BY <4>1
    <3>. QED
      BY <1>0, <1>2, <3>1, IoKept
  <2>2. d \notin Attached'
    <3>1. CASE UNCHANGED clients
      BY <1>2, <3>1 DEF Alive, Attached
    <3>2. CASE Accept
      <4>1. /\ backlog # <<>> /\ backlog \in Seq(Clients) /\ clients \in Seq(Clients)
            /\ clients' = Append(clients, Head(backlog))
        BY <1>0, <3>2 DEF Accept, TypeOK, ChannelTypeOK, HostTypeOK
      <4>2. 1 \in DOMAIN backlog /\ Head(backlog) = backlog[1] /\ Head(backlog) \in Clients
        BY <4>1, TailFacts, LenProperties
      <4>3. Head(backlog) # d
        BY <1>0, <1>2, <4>2 DEF AttachInv
      <4>4. /\ DOMAIN clients' = 1 .. Len(clients) + 1 /\ DOMAIN clients = 1 .. Len(clients)
            /\ Len(clients) \in Nat
            /\ \A i \in 1 .. Len(clients) : clients'[i] = clients[i]
            /\ clients'[Len(clients) + 1] = Head(backlog)
        BY <4>1, <4>2, AppendFacts, LenProperties
      <4>5. \A i \in DOMAIN clients' : (i \in DOMAIN clients /\ clients'[i] = clients[i])
                                       \/ clients'[i] = Head(backlog)
        BY <4>4
      <4>. QED
        BY <1>2, <4>3, <4>5 DEF Alive, Attached, ToSet
    <3>3. ASSUME NEW c \in Clients, Leave(c)
          PROVE  d \notin Attached'
      <4>1. PICK i \in DOMAIN clients : clients' = RemoveAt(clients, i)
        BY <3>3 DEF Leave
      <4>2. ToSet(clients') \subseteq ToSet(clients)
        BY <1>0, <4>1, RemoveAtFacts DEF TypeOK, HostTypeOK
      <4>. QED
        BY <1>2, <4>2 DEF Alive, Attached
    <3>4. ASSUME User \/ Exit \/ EmitPick \/ EmitSend \/ RunTask \/ \E c \in Clients : ReadRequest(c)
          PROVE  UNCHANGED clients
      BY <3>4, UserFrame DEF EmitPick, EmitSend, RunTask, ReadRequest
    <3>5. CASE UNCHANGED hostVars
      BY <3>1, <3>5 DEF hostVars
    <3>. QED
      BY <3>1, <3>2, <3>3, <3>4, <3>5 DEF Next, Host, HostThread, WindowThread, Program, vars
  <2>3. \A i \in DOMAIN tasks' : tasks'[i].from # d
    <3>0. \A i \in DOMAIN tasks : tasks[i].from # d
      BY <1>2 DEF Alive
    <3>1. CASE RunTask
      BY <1>0, <3>0, <3>1, TasksTail
    <3>2. ASSUME NEW c \in Clients, ReadRequest(c), tasks' = Append(tasks, Task(Head(toHost[c]), c))
          PROVE  \A i \in DOMAIN tasks' : tasks'[i].from # d
      <4>1. Head(toHost[c]) \in Verbs /\ io[c] = "reading"
        BY <1>0, <3>2, HeadTailProperties DEF ReadRequest, TypeOK, ChannelTypeOK
      <4>2. /\ Task(Head(toHost[c]), c) \in [verb : Verbs, from : Clients]
            /\ Task(Head(toHost[c]), c).from # d
        BY <1>2, <4>1 DEF Task
      <4>. QED
        BY <1>0, <3>0, <3>2, <4>2, TasksAppended
    <3>3. CASE tasks' = Append(tasks, EosTask)
      <4>1. EosTask.from # d
        BY <1>0 DEF EosTask, Task
      <4>. QED
        BY <1>0, <3>0, <3>3, <4>1, TasksAppended
    <3>. QED
      BY <1>0, <3>0, <3>1, <3>2, <3>3, TasksMove
  <2>4. ui'.holds # d
    <3>0. ui.holds # d
      BY <1>2 DEF Alive
    <3>1. ASSUME ui' = ui \/ \E left : ui' = Emit(left)
          PROVE  ui'.holds # d
      BY <1>0, <3>0, <3>1 DEF Emit, Idle
    <3>2. CASE EmitPick
      BY <1>0, <3>1, <3>2 DEF EmitPick, Send
    <3>3. CASE EmitSend
      BY <3>1, <3>3 DEF EmitSend
    <3>4. CASE RunTask
      <4>1. Head(tasks).from # d
        BY <1>0, <1>2, <3>4, TasksTail DEF Alive
      <4>2. CASE UNCHANGED ui
        BY <3>1, <4>2
      <4>3. CASE RunRead(Head(tasks).from)
        BY <3>1, <4>1, <4>3 DEF RunRead, Send
      <4>. QED
        BY <1>0, <3>4, <4>2, <4>3, RunTaskCases
    <3>5. CASE User \/ Exit
      BY <3>1, <3>5, UserFrame
    <3>6. ASSUME Accept \/ \E c \in Clients : HostThread(c)
          PROVE  UNCHANGED ui
      BY <3>6 DEF Accept, HostThread, ReadRequest, Leave
    <3>7. CASE UNCHANGED hostVars
      BY <3>1, <3>7 DEF hostVars
    <3>. QED
      BY <3>1, <3>2, <3>3, <3>4, <3>5, <3>6, <3>7 DEF Next, Host, WindowThread, Program, vars
  <2>. QED
    BY <2>1, <2>2, <2>3, <2>4 DEF HostClosed, Alive
<1>. QED
  BY <1>1, <1>2 DEF HostClosed

\* Where a key that was assigned to c is.
Somewhere(c) == Had(c) \cup KeysOf(inputs[c]) \cup KeysOf(toClient[c]) \cup Leaving(c)

LEMMA PlainKeys ==
    ASSUME TypeOK, NEW d \in Clients, NEW t \in {"resize", "close"} \cup Kinds,
           toClient'[d] = toClient[d] \/ toClient'[d] = Append(toClient[d], Plain(t))
    PROVE  KeysOf(toClient'[d]) = KeysOf(toClient[d])
<1>1. /\ toClient[d] \in Seq(Responses) /\ Plain(t) \in Responses /\ Plain(t).type # "key"
  BY VerbTypes, KindsAssumption DEF TypeOK, ChannelTypeOK, Plain
<1>2. KeysOf(Append(toClient[d], Plain(t))) = KeysOf(toClient[d]) \cup {}
  BY <1>1, AppendKeys
<1>. QED
  BY <1>2

LEMMA HostKept ==
    ASSUME IInv, Host, NEW d \in Clients, Assigned(d) \subseteq Somewhere(d), ~HostClosed(d)'
    PROVE  Assigned(d)' \subseteq Somewhere(d)'
<1>0. TypeOK /\ UiInv /\ KnownInv
  BY DEF IInv
<1>1. UNCHANGED <<inputs, received>> /\ Had(d)' = Had(d)
  BY DEF Host, clientVars, Had
<1>2. ASSUME UNCHANGED given, KeysOf(toClient'[d]) = KeysOf(toClient[d]), ui' = ui \/ ui.at # "send"
      PROVE  Assigned(d)' \subseteq Somewhere(d)'
  BY <1>1, <1>2 DEF Somewhere, Assigned, Leaving
<1>3. ASSUME NEW c \in Clients, NEW n \in Nat, given' = [given EXCEPT ![c] = Append(@, n)],
             UNCHANGED toClient, ui.at # "send", ui'.at = "send", ui'.to = c, ui'.key = n
      PROVE  Assigned(d)' \subseteq Somewhere(d)'
  <2>1. Assigned(d)' = Assigned(d) \cup (IF d = c THEN {n} ELSE {})
    BY <1>0, <1>3, AssignedGrows
  <2>2. Leaving(d) = {} /\ Leaving(d)' = (IF d = c THEN {n} ELSE {})
    BY <1>3 DEF Leaving
  <2>. QED
    BY <1>1, <1>3, <2>1, <2>2 DEF Somewhere
<1>4. ASSUME EmitPick \/ RunTask \/ User \/ Exit PROVE Assigned(d)' \subseteq Somewhere(d)'
  <2>1. CASE UNCHANGED given
    <3>1. KeysOf(toClient'[d]) = KeysOf(toClient[d])
      <4>1. ASSUME NEW t \in {"resize", "close"} \cup Kinds,
                   toClient'[d] = toClient[d] \/ toClient'[d] = Append(toClient[d], Plain(t))
            PROVE  KeysOf(toClient'[d]) = KeysOf(toClient[d])
        BY <1>0, <4>1, PlainKeys
      <4>2. CASE EmitPick
        BY <4>2 DEF EmitPick, channelVars
      <4>3. CASE User \/ Exit
        BY <4>1, <4>3, UserFrame DEF Broadcast
      <4>4. CASE RunTask
        <5>1. ASSUME NEW c \in Clients, NEW k \in Kinds, SendResponse(c, Plain(k))
              PROVE  toClient'[d] = toClient[d] \/ toClient'[d] = Append(toClient[d], Plain(k))
          BY <1>0, <5>1 DEF SendResponse, TypeOK, ChannelTypeOK
        <5>. QED
          BY <1>0, <4>1, <4>4, <5>1, RunTaskFrame
      <4>. QED
        BY <1>4, <4>2, <4>3, <4>4
    <3>2. ui' = ui \/ ui.at # "send"
      BY <1>0, <1>4, UserFrame, RunTaskFrame DEF EmitPick
    <3>. QED
      BY <1>2, <2>1, <3>1, <3>2
  <2>2. CASE given' # given
    BY <1>3, <2>2, GivenTo DEF Next
  <2>. QED
    BY <2>1, <2>2
<1>5. ASSUME EmitSend PROVE Assigned(d)' \subseteq Somewhere(d)'
  <2>1. ui.at = "send" /\ ui.to \in Clients /\ ui.left \in Nat /\ ui' = Emit(ui.left) /\ UNCHANGED given
    BY <1>0, <1>5 DEF EmitSend, UiInv, TypeOK, HostTypeOK, UiType
  <2>2. Assigned(d)' = Assigned(d) /\ Leaving(d) = (IF d = ui.to THEN {ui.key} ELSE {})
    BY <2>1 DEF Assigned, Leaving
  <2>3. CASE d # ui.to
    <3>1. toClient'[d] = toClient[d]
      BY <1>0, <1>5, <2>3 DEF EmitSend, SendResponse, TypeOK, ChannelTypeOK
    <3>. QED
      BY <1>1, <2>2, <2>3, <3>1 DEF Somewhere
  <2>4. CASE d = ui.to /\ SendResponse(ui.to, Key(ui.key))
    <3>1. /\ toClient'[d] = Append(toClient[d], Key(ui.key))
          /\ toClient[d] \in Seq(Responses) /\ Key(ui.key) \in Responses
      BY <1>0, <2>1, <2>4, VerbTypes DEF SendResponse, TypeOK, ChannelTypeOK, HostTypeOK, UiType
    <3>2. Key(ui.key).type = "key" /\ Key(ui.key).n = ui.key
      BY DEF Key
    <3>3. KeysOf(toClient'[d]) = KeysOf(toClient[d]) \cup {ui.key}
      BY <3>1, <3>2, AppendKeys
    <3>. QED
      BY <1>1, <2>2, <2>4, <3>3 DEF Somewhere
  <2>5. CASE d = ui.to /\ ~Alive(ui.to)
    <3>1. io[d] \in {"none", "reading", "leaving", "ended"} /\ io[d] # "none"
      BY <1>0, <2>1, <2>5 DEF KnownInv, TypeOK, HostTypeOK
    <3>2. HostClosed(d)
      BY <2>5, <3>1 DEF HostClosed, Alive
    <3>. QED
      BY <3>2, ClosedStays DEF Next
  <2>. QED
    BY <1>5, <2>3, <2>4, <2>5 DEF EmitSend
<1>6. ASSUME Accept \/ \E c \in Clients : HostThread(c) PROVE Assigned(d)' \subseteq Somewhere(d)'
  BY <1>2, <1>6 DEF Accept, HostThread, ReadRequest, Leave, channelVars
<1>. QED
  BY <1>4, <1>5, <1>6 DEF Host, WindowThread

LEMMA ProgramKept ==
    ASSUME IInv, NEW c \in Clients, Program(c), NEW d \in Clients, thread'[d] = "running",
           Assigned(d) \subseteq Somewhere(d)
    PROVE  Assigned(d)' \subseteq Somewhere(d)'
<1>0. TypeOK /\ PipelineInv(d) /\ UNCHANGED hostVars
  BY DEF IInv, Program
<1>1. Assigned(d)' = Assigned(d) /\ Leaving(d)' = Leaving(d)
  BY <1>0 DEF hostVars, Assigned, Leaving
<1>2. ASSUME inputs'[d] = inputs[d], received'[d] = received[d], toClient'[d] = toClient[d]
      PROVE  Assigned(d)' \subseteq Somewhere(d)'
  BY <1>1, <1>2 DEF Somewhere, Had
<1>3. CASE Calls(c) \/ Answered(c) \/ Closed(c)
  BY <1>2, <1>3, CallsFrame DEF Answered, Closed, channelVars
<1>4. CASE Sort(c) /\ d = c
  <2>. DEFINE m == Head(toClient[c])
  <2>1. /\ toClient[d] \in Seq(Responses) /\ toClient[d] # <<>>
        /\ toClient'[d] = Tail(toClient[d])
        /\ inputs[d] \in Seq(Responses \cup {EndOfFile})
    BY <1>0, <1>4 DEF Sort, TypeOK, ChannelTypeOK, ClientTypeOK
  <2>2. m \in Responses \cup {EndOfFile}
    BY <1>4, <2>1, TailFacts
  <2>3. KeysOf(toClient[d]) = KeysOf(toClient'[d]) \cup (IF m.type = "key" THEN {m.n} ELSE {})
    BY <1>0, <1>4, <2>1, TailKeys DEF PipelineInv
  <2>4. Had(d)' = Had(d)
    BY <1>4 DEF Sort, Had
  <2>5. CASE m.type \in {"key", "resize"}
    <3>1. inputs'[d] = Append(inputs[d], m)
      BY <1>0, <1>4, <2>5 DEF Sort, TypeOK, ClientTypeOK
    <3>2. KeysOf(inputs'[d]) = KeysOf(inputs[d]) \cup (IF m.type = "key" THEN {m.n} ELSE {})
      BY <2>1, <2>2, <3>1, AppendKeys
    <3>. QED
      BY <1>1, <2>3, <2>4, <3>2 DEF Somewhere
  <2>6. CASE m.type \notin {"key", "resize"}
    <3>1. inputs'[d] = inputs[d]
      BY <1>4, <2>6 DEF Sort
    <3>. QED
      BY <1>1, <2>3, <2>4, <2>6, <3>1 DEF Somewhere
  <2>. QED
    BY <2>5, <2>6
<1>5. CASE Sort(c) /\ d # c
  BY <1>0, <1>2, <1>5 DEF Sort, TypeOK, ChannelTypeOK, ClientTypeOK
<1>6. CASE EventRead(c) /\ d = c
  <2>. DEFINE e == Head(inputs[c])
  <2>1. /\ inputs[d] \in Seq(Responses \cup {EndOfFile}) /\ inputs[d] # <<>>
        /\ received[d] \in Seq(Nat) /\ toClient'[d] = toClient[d]
    BY <1>0, <1>6 DEF EventRead, TypeOK, ClientTypeOK, channelVars
  <2>2. KeysOf(inputs[d]) = KeysOf(Tail(inputs[d])) \cup (IF e.type = "key" THEN {e.n} ELSE {})
    BY <1>0, <1>6, <2>1, TailKeys DEF PipelineInv
  <2>3. inputs'[d] = inputs[d] \/ inputs'[d] = Tail(inputs[d])
    BY <1>0, <1>6 DEF EventRead, TypeOK, ClientTypeOK
  <2>4. CASE e.type # "key"
    <3>1. received'[d] = received[d] /\ Had(d)' = Had(d)
      BY <1>6, <2>4 DEF EventRead, Had
    <3>. QED
      BY <1>1, <2>1, <2>2, <2>3, <2>4, <3>1 DEF Somewhere
  <2>5. CASE e.type = "key"
    <3>1. inputs'[d] = Tail(inputs[d]) /\ received'[d] = Append(received[d], e.n)
      BY <1>0, <1>6, <2>5 DEF EventRead, EndOfFile, Plain, TypeOK, ClientTypeOK
    <3>2. e.n \in Nat
      <4>1. e \in Responses \cup {EndOfFile}
        BY <1>6, <2>1, TailFacts
      <4>. QED
        BY <2>5, <4>1, VerbTypes DEF EndOfFile, Plain
    <3>3. /\ DOMAIN received[d] = 1 .. Len(received[d]) /\ Len(received[d]) \in Nat
          /\ DOMAIN received'[d] = 1 .. Len(received[d]) + 1
          /\ \A i \in 1 .. Len(received[d]) : received'[d][i] = received[d][i]
          /\ received'[d][Len(received[d]) + 1] = e.n
      BY <2>1, <3>1, <3>2, AppendFacts, LenProperties
    <3>4. /\ \A i \in DOMAIN received'[d] :
              \/ i \in DOMAIN received[d] /\ received'[d][i] = received[d][i]
              \/ i = Len(received[d]) + 1 /\ received'[d][i] = e.n
          /\ DOMAIN received[d] \subseteq DOMAIN received'[d]
          /\ Len(received[d]) + 1 \in DOMAIN received'[d]
      BY <3>3
    <3>5. Had(d)' = Had(d) \cup {e.n}
      BY <3>3, <3>4 DEF Had
    <3>. QED
      BY <1>1, <2>1, <2>2, <2>5, <3>1, <3>5 DEF Somewhere
  <2>. QED
    BY <2>4, <2>5
<1>7. CASE EventRead(c) /\ d # c
  BY <1>0, <1>2, <1>7 DEF EventRead, TypeOK, ClientTypeOK, channelVars
<1>8. CASE EndOfInput(c, HostClosed(c))
  <2>1. d # c
    BY <1>0, <1>8 DEF EndOfInput, TypeOK, ClientTypeOK
  <2>. QED
    BY <1>0, <1>2, <1>8, <2>1 DEF EndOfInput, TypeOK, ClientTypeOK, channelVars
<1>. QED
  BY <1>3, <1>4, <1>5, <1>6, <1>7, <1>8 DEF Program, Returns, InputThread

LEMMA KeptStep ==
    ASSUME IInv, [Next]_vars, NEW d \in Clients
    PROVE  AllKept(d)'
<1>0. TypeOK /\ AttachInv /\ KnownInv /\ AllKept(d)
  BY DEF IInv
<1>1. SUFFICES ASSUME thread'[d] = "running", ~HostClosed(d)'
               PROVE  Assigned(d)' \subseteq Somewhere(d)'
  BY DEF AllKept, Somewhere
<1>2. ~HostClosed(d)
  BY <1>1, ClosedStays
<1>3. CASE thread[d] = "running"
  <2>1. Assigned(d) \subseteq Somewhere(d)
    BY <1>0, <1>2, <1>3 DEF AllKept, Somewhere
  <2>2. CASE UNCHANGED vars
    BY <2>1, <2>2 DEF vars, channelVars, hostVars, clientVars, Somewhere, Assigned, Had, Leaving
  <2>. QED
    BY <1>1, <2>1, <2>2, HostKept, ProgramKept DEF Next
<1>4. CASE thread[d] # "running"
  <2>1. UNCHANGED given /\ program[d] = "out"
    <3>1. PICK c \in Clients : Program(c)
      BY <1>1, <1>4 DEF Next, Host, clientVars, vars
    <3>2. UNCHANGED hostVars
      BY <3>1 DEF Program
    <3>3. program[d] = "out"
      BY <1>0, <1>1, <1>4, <3>1 DEF Program, Calls, Connect, ReadEvent, Ask, Set, Request, Close, Die,
           Returns, EventRead, Answered, Closed, InputThread, Sort, EndOfInput, TypeOK, ClientTypeOK
    <3>. QED
      BY <3>2, <3>3 DEF hostVars
  <2>2. given[d] = <<>>
    BY <1>0, <2>1 DEF AttachInv, KnownInv
  <2>3. DOMAIN <<>> = {}
    OBVIOUS
  <2>. QED
    BY <2>1, <2>2, <2>3 DEF Assigned
<1>. QED
  BY <1>3, <1>4

(***************************************************************************)
(* A question is in one place.                                             *)
(***************************************************************************)

\* p has the same members of S as q.
Same(q, p, S) == /\ Free(q, S) => Free(p, S)
                 /\ \A x \in S : Single(q, S, x) => Single(p, S, x)

LEMMA SameAppend ==
    ASSUME NEW T, NEW q \in Seq(T), NEW e \in T, NEW S, e \notin S
    PROVE  Same(q, Append(q, e), S)
<1>. DEFINE p == Append(q, e)
<1>1. /\ DOMAIN p = 1 .. Len(q) + 1 /\ DOMAIN q = 1 .. Len(q) /\ Len(q) \in Nat
      /\ \A i \in 1 .. Len(q) : p[i] = q[i]
      /\ p[Len(q) + 1] = e
  BY AppendFacts, LenProperties
<1>. HIDE DEF p
<1>2. \A i \in DOMAIN p : i \in DOMAIN q \/ p[i] \notin S
  BY <1>1
<1>3. \A i \in DOMAIN q : i \in DOMAIN p /\ p[i] = q[i]
  BY <1>1
<1>4. Same(q, p, S)
  BY <1>2, <1>3 DEF Same, Free, Single
<1>. QED
  BY <1>4 DEF p

LEMMA SingleAppend ==
    ASSUME NEW T, NEW q \in Seq(T), NEW S, NEW e \in T, e \in S, Free(q, S)
    PROVE  Single(Append(q, e), S, e)
<1>. DEFINE p == Append(q, e)
<1>1. /\ DOMAIN p = 1 .. Len(q) + 1 /\ DOMAIN q = 1 .. Len(q) /\ Len(q) \in Nat
      /\ \A i \in 1 .. Len(q) : p[i] = q[i]
      /\ p[Len(q) + 1] = e
  BY AppendFacts, LenProperties
<1>. HIDE DEF p
<1>2. Len(q) + 1 \in DOMAIN p /\ \A j \in DOMAIN p : j = Len(q) + 1 \/ p[j] \notin S
  BY <1>1 DEF Free
<1>3. Single(p, S, e)
  BY <1>1, <1>2 DEF Single
<1>. QED
  BY <1>3 DEF p

LEMMA SameTail ==
    ASSUME NEW T, NEW q \in Seq(T), q # <<>>, NEW S
    PROVE  /\ Head(q) \notin S => Same(q, Tail(q), S)
           /\ Free(q, S) => Head(q) \notin S /\ Free(Tail(q), S)
           /\ \A x \in S : Single(q, S, x) /\ Head(q) \in S => Head(q) = x /\ Free(Tail(q), S)
<1>. DEFINE p == Tail(q)
<1>1. /\ Len(q) \in Nat \ {0} /\ DOMAIN q = 1 .. Len(q)
      /\ Head(q) = q[1]
      /\ DOMAIN p = 1 .. Len(q) - 1
      /\ \A i \in 1 .. Len(q) - 1 : p[i] = q[i + 1]
  BY TailFacts, LenProperties
<1>. HIDE DEF p
<1>2. \A i \in DOMAIN p : i \in Int /\ i + 1 \in DOMAIN q /\ 1 # i + 1 /\ p[i] = q[i + 1]
  BY <1>1
<1>3. 1 \in DOMAIN q /\ \A i \in DOMAIN q : i = 1 \/ (i - 1 \in DOMAIN p /\ q[i] = p[i - 1])
  BY <1>1
<1>4. ASSUME Free(q, S)
      PROVE  Head(q) \notin S /\ Free(p, S)
  BY <1>1, <1>2, <1>3, <1>4 DEF Free
<1>5. ASSUME Head(q) \notin S, NEW x \in S, Single(q, S, x)
      PROVE  Single(p, S, x)
  <2>1. PICK i \in DOMAIN q : q[i] = x /\ \A j \in DOMAIN q : q[j] \in S => j = i
    BY <1>5 DEF Single
  <2>2. i - 1 \in DOMAIN p /\ p[i - 1] = x
    BY <1>1, <1>3, <1>5, <2>1
  <2>3. \A j \in DOMAIN p : p[j] \in S => j + 1 = i
    BY <1>2, <2>1
  <2>4. \A j \in DOMAIN p : p[j] \in S => j = i - 1
    BY <1>1, <1>2, <2>3
  <2>. QED
    BY <2>2, <2>4 DEF Single
<1>6. ASSUME NEW x \in S, Single(q, S, x), Head(q) \in S
      PROVE  Head(q) = x /\ Free(p, S)
  BY <1>1, <1>2, <1>3, <1>6 DEF Single, Free
<1>. QED
  BY <1>4, <1>5, <1>6 DEF p, Same

LEMMA ShortSequences ==
    ASSUME NEW x, NEW y
    PROVE  /\ Append(<<>>, y) = <<y>> /\ Append(<<x>>, y) = <<x, y>>
           /\ Head(<<x>>) = x /\ Tail(<<x>>) = <<>>
           /\ Head(<<x, y>>) = x /\ Tail(<<x, y>>) = <<y>>
<1>0. Append(<<>>, y) = <<y>>
  OBVIOUS
<1>1. Append(<<x>>, y) = <<x, y>>
  <2>1. <<x>> \in Seq({x, y}) /\ y \in {x, y} /\ <<x, y>> \in Seq({x, y})
    OBVIOUS
  <2>2. Len(<<x>>) = 1 /\ Len(<<x, y>>) = 2 /\ <<x, y>>[1] = x /\ <<x, y>>[2] = y /\ <<x>>[1] = x
    OBVIOUS
  <2>3. Append(<<x>>, y) \in Seq({x, y}) /\ Len(Append(<<x>>, y)) = 2 /\ Append(<<x>>, y)[1] = x /\ Append(<<x>>, y)[2] = y
    BY <2>1, <2>2, AppendProperties
  <2>4. \A i \in 1 .. 2 : i = 1 \/ i = 2
    OBVIOUS
  <2>5. \A i \in 1 .. 2 : Append(<<x>>, y)[i] = <<x, y>>[i]
    BY <2>2, <2>3, <2>4
  <2>. QED
    BY <2>1, <2>2, <2>3, <2>5, SeqEqual
<1>2. Head(<<x>>) = x /\ Tail(<<x>>) = <<>>
  OBVIOUS
<1>3. Head(<<x, y>>) = x
  OBVIOUS
<1>4. Tail(<<x, y>>) = <<y>>
  OBVIOUS
<1>. QED
  BY <1>0, <1>1, <1>2, <1>3, <1>4

LEMMA SameSelf ==
    ASSUME NEW q, NEW S
    PROVE  Same(q, q, S)
BY DEF Same

\* The question of d stays where it is.
LEMMA AskedFrame ==
    ASSUME NEW d \in Clients, asking[d] \in Kinds \cup {None}, Asked(d),
           Same(toHost[d], toHost'[d], Kinds), Same(tasks, tasks', Questions(d)),
           Same(toClient[d], toClient'[d], Replies),
           answers'[d] = answers[d], asking'[d] = asking[d]
    PROVE  Asked(d)'
<1>1. CASE asking[d] = None
  BY <1>1 DEF Asked, NoQuestion, Same
<1>2. CASE asking[d] # None
  <2>. DEFINE k == asking[d]
  <2>1. k \in Kinds /\ Task(k, d) \in Questions(d) /\ Plain(k) \in Replies
    BY <1>2 DEF Questions, Replies
  <2>2. OneQuestion(d, k)
    BY <1>2 DEF Asked
  <2>3. OneQuestion(d, k)'
    BY <2>1, <2>2 DEF OneQuestion, Same
  <2>. QED
    BY <1>2, <2>3 DEF Asked
<1>. QED
  BY <1>1, <1>2

LEMMA QuestionFrame ==
    ASSUME NEW d \in Clients, TypeOK, QuestionInv(d),
           Same(toHost[d], toHost'[d], Kinds), Same(tasks, tasks', Questions(d)),
           Same(toClient[d], toClient'[d], Replies),
           answers'[d] = answers[d], asking'[d] = asking[d],
           thread'[d] = thread[d], program'[d] = program[d]
    PROVE  QuestionInv(d)'
<1>1. asking[d] \in Kinds \cup {None}
  BY DEF TypeOK, ClientTypeOK
<1>2. Asked(d) => Asked(d)'
  BY <1>1, AskedFrame
<1>. QED
  BY <1>2 DEF QuestionInv

\* The window's steps for d's question.
LEMMA QuestionRead ==
    ASSUME IInv, NEW c \in Clients, ReadRequest(c), UNCHANGED clientVars, NEW d \in Clients
    PROVE  QuestionInv(d)'
<1>0. /\ TypeOK /\ QuestionInv(d) /\ "close" \notin Kinds /\ asking[d] \in Kinds \cup {None}
      /\ None \notin Kinds
  BY KindsAssumption DEF IInv, TypeOK, ClientTypeOK
<1>. DEFINE v == Head(toHost[c])
            TS == [verb : Verbs, from : Clients] \cup {EosTask}
<1>1. /\ UNCHANGED <<answers, asking, thread, program, toClient>>
      /\ toHost[c] \in Seq(Verbs) /\ toHost[c] # <<>> /\ tasks \in Seq(TS)
      /\ toHost' = [toHost EXCEPT ![c] = Tail(@)]
      /\ (tasks' = tasks /\ v = "close") \/ tasks' = Append(tasks, Task(v, c))
  BY <1>0 DEF ReadRequest, clientVars, TypeOK, ChannelTypeOK, HostTypeOK
<1>2. v \in Verbs /\ Task(v, c) \in TS
  BY <1>1, TailFacts DEF Task
<1>3. toHost'[d] = (IF d = c THEN Tail(toHost[c]) ELSE toHost[d])
  BY <1>0, <1>1 DEF TypeOK, ChannelTypeOK
<1>. HIDE DEF v, TS
<1>4. Same(toClient[d], toClient'[d], Replies)
  BY <1>1, SameSelf
<1>5. CASE d # c \/ v \notin Kinds
  <2>1. Task(v, c) \notin Questions(d)
    BY <1>5 DEF Questions, Task
  <2>2. Same(tasks, tasks', Questions(d))
    BY <1>1, <1>2, <2>1, SameAppend, SameSelf
  <2>3. Same(toHost[d], toHost'[d], Kinds)
    BY <1>1, <1>3, <1>5, SameTail, SameSelf DEF v
  <2>. QED
    BY <1>0, <1>1, <1>4, <2>2, <2>3, QuestionFrame
<1>6. CASE d = c /\ v \in Kinds
  <2>1. tasks' = Append(tasks, Task(v, d)) /\ Task(v, d) \in Questions(d)
    BY <1>0, <1>1, <1>6 DEF Questions
  <2>2. ~Free(toHost[d], Kinds)
    BY <1>1, <1>6, SameTail DEF v
  <2>3. Asked(d) => Asked(d)'
    <3>1. ASSUME Asked(d) PROVE Asked(d)'
      <4>1. asking[d] \in Kinds /\ OneQuestion(d, asking[d])
        BY <1>0, <2>2, <3>1 DEF Asked, NoQuestion
      <4>2. /\ Single(toHost[d], Kinds, asking[d]) /\ Free(tasks, Questions(d))
            /\ Free(toClient[d], Replies) /\ answers[d] = <<>>
        BY <2>2, <4>1 DEF OneQuestion
      <4>3. v = asking[d] /\ Free(toHost'[d], Kinds)
        BY <1>1, <1>3, <1>6, <4>1, <4>2, SameTail DEF v
      <4>4. Single(tasks', Questions(d), Task(asking[d], d))
        BY <1>1, <1>2, <1>6, <2>1, <4>2, <4>3, SingleAppend
      <4>. QED
        BY <1>0, <1>1, <4>1, <4>2, <4>3, <4>4 DEF Asked, OneQuestion
    <3>. QED
      BY <3>1
  <2>. QED
    BY <1>0, <1>1, <2>3 DEF QuestionInv
<1>. QED
  BY <1>5, <1>6

LEMMA QuestionTask ==
    ASSUME IInv, RunTask, UNCHANGED clientVars, NEW d \in Clients
    PROVE  QuestionInv(d)'
<1>. DEFINE t == Head(tasks)
            TS == [verb : Verbs, from : Clients] \cup {EosTask}
<1>0. TypeOK /\ QuestionInv(d) /\ asking[d] \in Kinds \cup {None} /\ None \notin Kinds /\ "read" \notin Kinds
  BY KindsAssumption DEF IInv, TypeOK, ClientTypeOK
<1>1. /\ UNCHANGED <<answers, asking, thread, program, toHost>>
      /\ tasks # <<>> /\ tasks \in Seq(TS) /\ tasks' = Tail(tasks)
  BY <1>0, RunTaskCases DEF clientVars
<1>2. Same(toHost[d], toHost'[d], Kinds)
  BY <1>1, SameSelf
<1>3. CASE t \notin Questions(d)
  <2>1. toClient'[d] = toClient[d]
    <3>1. ASSUME t.verb \in Kinds, t.from \in Clients, t = Task(t.verb, t.from),
                 SendResponse(t.from, Plain(t.verb))
          PROVE  toClient'[d] = toClient[d]
      <4>1. t.from # d
        BY <1>3, <3>1 DEF Questions
      <4>. QED
        BY <1>0, <3>1, <4>1 DEF SendResponse, TypeOK, ChannelTypeOK
    <3>. QED
      BY <1>0, <3>1, RunTaskCases
  <2>2. Same(toClient[d], toClient'[d], Replies)
    BY <2>1, SameSelf
  <2>3. Same(tasks, tasks', Questions(d))
    BY <1>1, <1>3, SameTail
  <2>. QED
    BY <1>0, <1>1, <1>2, <2>2, <2>3, QuestionFrame
<1>4. CASE t \in Questions(d)
  <2>1. t.verb \in Kinds /\ t.from = d /\ t = Task(t.verb, d)
    <3>1. PICK k \in Kinds : t = Task(k, d)
      BY <1>4 DEF Questions
    <3>2. Task(k, d).verb = k /\ Task(k, d).from = d
      BY DEF Task
    <3>. HIDE DEF t
    <3>. QED
      BY <3>1, <3>2
  <2>2. SendResponse(d, Plain(t.verb))
    BY <1>0, <2>1, RunTaskCases
  <2>3. /\ toClient'[d] = Append(toClient[d], Plain(t.verb)) /\ toClient[d] \in Seq(Responses)
        /\ Plain(t.verb) \in Responses /\ Plain(t.verb) \in Replies
    BY <1>0, <2>1, <2>2, VerbTypes DEF SendResponse, TypeOK, ChannelTypeOK, Replies
  <2>4. ~Free(tasks, Questions(d))
    BY <1>1, <1>4, SameTail
  <2>5. Asked(d) => Asked(d)'
    <3>1. ASSUME Asked(d) PROVE Asked(d)'
      <4>1. asking[d] \in Kinds /\ OneQuestion(d, asking[d])
        BY <1>0, <2>4, <3>1 DEF Asked, NoQuestion
      <4>2. /\ Free(toHost[d], Kinds) /\ Single(tasks, Questions(d), Task(asking[d], d))
            /\ Free(toClient[d], Replies) /\ answers[d] = <<>>
        BY <2>4, <4>1 DEF OneQuestion
      <4>3. Task(asking[d], d) \in Questions(d)
        BY <4>1 DEF Questions
      <4>4. t = Task(asking[d], d) /\ Free(tasks', Questions(d))
        BY <1>1, <1>4, <4>2, <4>3, SameTail
      <4>5. t.verb = asking[d]
        BY <4>4 DEF Task
      <4>6. Single(toClient'[d], Replies, Plain(asking[d]))
        BY <2>3, <4>2, <4>5, SingleAppend
      <4>. HIDE DEF t
      <4>. QED
        BY <1>0, <1>1, <4>1, <4>2, <4>4, <4>6 DEF Asked, OneQuestion
    <3>. QED
      BY <3>1
  <2>. QED
    BY <1>0, <1>1, <2>5 DEF QuestionInv
<1>. QED
  BY <1>3, <1>4

LEMMA QuestionHost ==
    ASSUME IInv, Host, NEW d \in Clients
    PROVE  QuestionInv(d)'
<1>0. TypeOK /\ UiInv /\ QuestionInv(d) /\ UNCHANGED <<answers, asking, thread, program>> /\ UNCHANGED clientVars
  BY DEF IInv, Host, clientVars
<1>1. ASSUME UNCHANGED toHost, Same(tasks, tasks', Questions(d)), Same(toClient[d], toClient'[d], Replies)
      PROVE  QuestionInv(d)'
  BY <1>0, <1>1, SameSelf, QuestionFrame
<1>2. ASSUME UNCHANGED <<toHost, tasks>>, NEW m \in Responses, m \notin Replies,
             toClient'[d] = toClient[d] \/ toClient'[d] = Append(toClient[d], m)
      PROVE  QuestionInv(d)'
  <2>1. toClient[d] \in Seq(Responses)
    BY <1>0 DEF TypeOK, ChannelTypeOK
  <2>2. Same(toClient[d], Append(toClient[d], m), Replies)
    BY <1>2, <2>1, SameAppend
  <2>3. Same(toClient[d], toClient'[d], Replies)
    BY <1>2, <2>2, SameSelf
  <2>. QED
    BY <1>1, <1>2, <2>3, SameSelf
<1>3. \A n \in Nat : Key(n) \in Responses /\ Key(n) \notin Replies
  BY KindsAssumption, VerbTypes DEF Key, Replies, Plain
<1>4. \A s \in {"resize", "close"} : Plain(s) \in Responses /\ Plain(s) \notin Replies
  BY KindsAssumption, VerbTypes DEF Replies, Plain
<1>5. CASE EmitPick \/ Accept
  BY <1>1, <1>5, SameSelf DEF EmitPick, Accept, channelVars
<1>6. CASE EmitSend
  <2>1. ui.to \in Clients /\ ui.key \in Nat /\ UNCHANGED <<toHost, tasks>>
    BY <1>0, <1>6 DEF EmitSend, UiInv, TypeOK, HostTypeOK, UiType
  <2>2. toClient'[d] = toClient[d] \/ toClient'[d] = Append(toClient[d], Key(ui.key))
    BY <1>0, <1>6 DEF EmitSend, SendResponse, TypeOK, ChannelTypeOK
  <2>. QED
    BY <1>2, <1>3, <2>1, <2>2
<1>7. CASE User \/ Exit
  <2>1. UNCHANGED <<toHost, tasks>>
    BY <1>7, UserFrame
  <2>2. ASSUME NEW cs, NEW s \in {"resize", "close"}, Broadcast(cs, Plain(s))
        PROVE  QuestionInv(d)'
    <3>1. toClient'[d] = toClient[d] \/ toClient'[d] = Append(toClient[d], Plain(s))
      BY <2>2 DEF Broadcast
    <3>. QED
      BY <1>2, <1>4, <2>1, <3>1
  <2>3. CASE UNCHANGED toClient
    BY <1>1, <2>1, <2>3, SameSelf
  <2>. QED
    BY <1>7, <2>2, <2>3, UserFrame
<1>8. ASSUME NEW c \in Clients, Leave(c) PROVE QuestionInv(d)'
  <2>1. UNCHANGED <<toHost, toClient>> /\ (tasks' = tasks \/ tasks' = Append(tasks, EosTask))
    BY <1>8 DEF Leave, channelVars
  <2>2. EosTask \notin Questions(d)
    BY NoneAssumption DEF EosTask, Questions, Task
  <2>3. Same(tasks, tasks', Questions(d))
    <3>1. tasks \in Seq([verb : Verbs, from : Clients] \cup {EosTask})
      BY <1>0 DEF TypeOK, HostTypeOK
    <3>2. Same(tasks, Append(tasks, EosTask), Questions(d))
      BY <2>2, <3>1, SameAppend
    <3>. QED
      BY <2>1, <3>2, SameSelf
  <2>. QED
    BY <1>1, <2>1, <2>3, SameSelf
<1>. QED
  BY <1>0, <1>5, <1>6, <1>7, <1>8, QuestionRead, QuestionTask DEF Host, HostThread, WindowThread

\* The program's own steps.
LEMMA QuestionCalls ==
    ASSUME IInv, NEW d \in Clients, Calls(d), UNCHANGED hostVars
    PROVE  QuestionInv(d)'
<1>0. /\ TypeOK /\ QuestionInv(d) /\ asking[d] \in Kinds \cup {None} /\ None \notin Kinds
      /\ toHost[d] \in Seq(Verbs) /\ "read" \notin Kinds /\ "close" \notin Kinds
      /\ UsedSettings \cap Kinds = {}
  BY KindsAssumption, SettingsAssumption DEF IInv, TypeOK, ClientTypeOK, ChannelTypeOK
<1>1. /\ UNCHANGED <<tasks, toClient, answers>>
      /\ Same(tasks, tasks', Questions(d)) /\ Same(toClient[d], toClient'[d], Replies)
  BY CallsFrame, SameSelf DEF hostVars
<1>2. ASSUME NEW v \in Verbs, v \notin Kinds, SendVerb(d, v)
      PROVE  Same(toHost[d], toHost'[d], Kinds)
  <2>1. toHost'[d] = Append(toHost[d], v)
    BY <1>0, <1>2 DEF SendVerb, TypeOK, ChannelTypeOK
  <2>. QED
    BY <1>0, <1>2, <2>1, SameAppend
<1>3. CASE Connect(d)
  <2>1. /\ program[d] = "out" /\ program'[d] = "in" /\ thread'[d] = "running"
        /\ UNCHANGED <<toHost, asking>>
    BY <1>0, <1>3 DEF Connect, TypeOK, ClientTypeOK
  <2>2. Asked(d)
    BY <1>0, <2>1 DEF QuestionInv
  <2>3. Asked(d)'
    BY <1>0, <1>1, <2>1, <2>2, SameSelf, AskedFrame
  <2>. QED
    BY <2>1, <2>3 DEF QuestionInv
<1>4. ASSUME NEW v \in {"read"} \cup UsedSettings, Request(d, v, HostClosed(d)), UNCHANGED asking
      PROVE  QuestionInv(d)'
  <2>1. v \in Verbs /\ v \notin Kinds
    BY <1>0, <1>4, SettingsAssumption DEF Verbs
  <2>2. SendVerb(d, v) /\ UNCHANGED <<program, thread>>
    BY <1>4 DEF Request
  <2>. QED
    BY <1>0, <1>1, <1>2, <1>4, <2>1, <2>2, QuestionFrame
<1>5. ASSUME NEW k \in Kinds, Ask(d, k, HostClosed(d))
      PROVE  QuestionInv(d)'
  <2>1. /\ asking[d] = None /\ asking'[d] = k /\ program[d] = "in"
        /\ UNCHANGED <<program, thread>> /\ toHost'[d] = Append(toHost[d], k) /\ k \in Verbs
    BY <1>0, <1>5 DEF Ask, Request, SendVerb, TypeOK, ClientTypeOK, ChannelTypeOK, Verbs
  <2>2. ASSUME Asked(d) PROVE Asked(d)'
    <3>1. NoQuestion(d)
      BY <2>1, <2>2 DEF Asked
    <3>2. Single(toHost'[d], Kinds, k)
      BY <1>0, <2>1, <3>1, SingleAppend DEF NoQuestion
    <3>. QED
      BY <1>0, <1>1, <2>1, <3>1, <3>2 DEF NoQuestion, OneQuestion, Asked
  <2>. QED
    BY <1>0, <1>1, <2>1, <2>2 DEF QuestionInv
<1>6. CASE Close(d)
  <2>1. /\ SendVerb(d, "close") /\ UNCHANGED <<thread, asking>>
        /\ program[d] = "in" /\ program'[d] = "closing"
    BY <1>0, <1>6 DEF Close, TypeOK, ClientTypeOK
  <2>2. Same(toHost[d], toHost'[d], Kinds)
    BY <1>0, <1>2, <2>1, VerbTypes
  <2>3. Asked(d) => Asked(d)'
    BY <1>0, <1>1, <2>1, <2>2, AskedFrame
  <2>. QED
    BY <1>0, <1>1, <2>1, <2>3 DEF QuestionInv
<1>7. CASE Die(d)
  BY <1>0, <1>7 DEF Die, QuestionInv, TypeOK, ClientTypeOK
<1>. QED
  BY <1>3, <1>4, <1>5, <1>6, <1>7 DEF Calls, ReadEvent, Set

LEMMA QuestionAnswer ==
    ASSUME IInv, NEW d \in Clients, Answered(d), UNCHANGED hostVars
    PROVE  QuestionInv(d)'
<1>0. /\ TypeOK /\ QuestionInv(d) /\ asking[d] \in Kinds /\ None \notin Kinds /\ "eof" \notin Kinds
      /\ answers \in [Clients -> Seq(Kinds \cup {"eof"})] /\ asking \in [Clients -> Kinds \cup {None}]
  BY KindsAssumption DEF IInv, TypeOK, ClientTypeOK, Answered
<1>1. /\ UNCHANGED <<toHost, toClient, tasks, thread, program>> /\ asking'[d] = None
      /\ answers'[d] = IF Head(answers[d]) = asking[d] THEN Tail(answers[d]) ELSE answers[d]
  BY <1>0 DEF Answered, channelVars, hostVars
<1>2. answers[d] # <<>>
  <2>1. answerable[d] \in Nat /\ answerable[d] > 0 /\ answerable[d] <= Len(answers[d])
    BY DEF IInv, TypeOK, ClientTypeOK, CounterInv, Answered
  <2>2. Len(<<>>) = 0
    OBVIOUS
  <2>. QED
    BY <2>1, <2>2
<1>3. CASE thread[d] # "ended"
  <2>1. OneQuestion(d, asking[d])
    BY <1>0, <1>3 DEF QuestionInv, Asked
  <2>2. /\ Free(toHost[d], Kinds) /\ Free(tasks, Questions(d)) /\ Free(toClient[d], Replies)
        /\ answers[d] = <<asking[d]>>
    BY <1>2, <2>1 DEF OneQuestion
  <2>3. answers'[d] = <<>>
    BY <1>0, <1>1, <2>2
  <2>. QED
    BY <1>0, <1>1, <1>3, <2>2, <2>3 DEF QuestionInv, Asked, NoQuestion
<1>4. CASE thread[d] = "ended"
  <2>1. answers[d] = <<"eof">> \/ answers[d] = <<asking[d], "eof">>
    BY <1>0, <1>4 DEF QuestionInv
  <2>2. answers'[d] = <<"eof">>
    <3>1. CASE answers[d] = <<"eof">>
      BY <1>0, <1>1, <3>1, ShortSequences
    <3>2. CASE answers[d] = <<asking[d], "eof">>
      BY <1>1, <3>2, ShortSequences
    <3>. QED
      BY <2>1, <3>1, <3>2
  <2>. QED
    BY <1>0, <1>1, <1>4, <2>2 DEF QuestionInv
<1>. QED
  BY <1>3, <1>4

LEMMA QuestionSort ==
    ASSUME IInv, NEW d \in Clients, Sort(d), UNCHANGED hostVars
    PROVE  QuestionInv(d)'
<1>. DEFINE m == Head(toClient[d])
<1>0. /\ TypeOK /\ QuestionInv(d) /\ asking[d] \in Kinds \cup {None} /\ None \notin Kinds
      /\ answers \in [Clients -> Seq(Kinds \cup {"eof"})]
  BY KindsAssumption DEF IInv, TypeOK, ClientTypeOK
<1>1. /\ UNCHANGED <<toHost, tasks, thread, program, asking>> /\ thread[d] = "running"
      /\ toClient[d] \in Seq(Responses) /\ toClient[d] # <<>> /\ toClient'[d] = Tail(toClient[d])
      /\ m.type # "close"
  BY <1>0 DEF Sort, hostVars, TypeOK, ChannelTypeOK
<1>2. m \in Responses
  BY <1>1, TailFacts
<1>3. Asked(d) /\ program[d] # "out"
  BY <1>0, <1>1 DEF QuestionInv
<1>4. CASE m.type \in {"key", "resize"}
  <2>1. m \notin Replies /\ UNCHANGED answers
    BY <1>4, KindsAssumption DEF Replies, Plain, Sort
  <2>2. Same(toClient[d], toClient'[d], Replies)
    BY <1>1, <2>1, SameTail
  <2>. QED
    BY <1>0, <1>1, <2>1, <2>2, SameSelf, QuestionFrame
<1>5. CASE m.type \notin {"key", "resize"}
  <2>1. m \in Replies /\ answers'[d] = Append(answers[d], m.type)
    <3>1. m \in Replies
      BY <1>1, <1>2, <1>5 DEF Responses, Replies, Plain
    <3>. QED
      BY <1>0, <1>5, <3>1 DEF Sort
  <2>2. ~Free(toClient[d], Replies)
    BY <1>1, <2>1, SameTail
  <2>3. asking[d] \in Kinds /\ OneQuestion(d, asking[d])
    BY <1>0, <1>3, <2>2 DEF Asked, NoQuestion
  <2>4. /\ Free(toHost[d], Kinds) /\ Free(tasks, Questions(d))
        /\ Single(toClient[d], Replies, Plain(asking[d])) /\ answers[d] = <<>>
    BY <2>2, <2>3 DEF OneQuestion
  <2>5. Plain(asking[d]) \in Replies
    BY <2>3 DEF Replies
  <2>6. m = Plain(asking[d]) /\ Free(toClient'[d], Replies)
    BY <1>1, <2>1, <2>4, <2>5, SameTail
  <2>7. answers'[d] = <<asking[d]>>
    <3>1. m.type = asking[d]
      BY <2>6 DEF Plain
    <3>. QED
      BY <2>1, <2>4, <3>1, ShortSequences
  <2>. QED
    BY <1>0, <1>1, <1>3, <2>3, <2>4, <2>6, <2>7 DEF QuestionInv, Asked, OneQuestion
<1>. QED
  BY <1>4, <1>5

LEMMA QuestionEnd ==
    ASSUME IInv, NEW d \in Clients, EndOfInput(d, HostClosed(d)), UNCHANGED hostVars
    PROVE  QuestionInv(d)'
<1>0. /\ TypeOK /\ QuestionInv(d) /\ asking[d] \in Kinds \cup {None} /\ None \notin Kinds
      /\ answers \in [Clients -> Seq(Kinds \cup {"eof"})] /\ thread \in [Clients -> {"none", "running", "ended"}]
  BY KindsAssumption DEF IInv, TypeOK, ClientTypeOK
<1>1. /\ thread[d] = "running" /\ thread'[d] = "ended" /\ UNCHANGED <<program, asking>>
      /\ answers'[d] = Append(answers[d], "eof")
  BY <1>0 DEF EndOfInput
<1>2. program[d] # "out" /\ Asked(d)
  BY <1>0, <1>1 DEF QuestionInv
<1>3. answers[d] = <<>> \/ (asking[d] # None /\ answers[d] = <<asking[d]>>)
  BY <1>2 DEF Asked, NoQuestion, OneQuestion
<1>4. answers'[d] = <<"eof">> \/ (asking[d] # None /\ answers'[d] = <<asking[d], "eof">>)
  BY <1>1, <1>3, ShortSequences
<1>. QED
  BY <1>1, <1>2, <1>4 DEF QuestionInv

LEMMA QuestionProgram ==
    ASSUME IInv, NEW c \in Clients, Program(c), NEW d \in Clients
    PROVE  QuestionInv(d)'
<1>0. TypeOK /\ QuestionInv(d) /\ UNCHANGED hostVars /\ tasks' = tasks
  BY DEF IInv, Program, hostVars
<1>1. CASE d # c
  <2>1. /\ toHost'[d] = toHost[d] /\ toClient'[d] = toClient[d] /\ answers'[d] = answers[d]
        /\ asking'[d] = asking[d] /\ thread'[d] = thread[d] /\ program'[d] = program[d]
    BY <1>0, <1>1 DEF Program, Calls, Connect, ReadEvent, Ask, Set, Request, SendVerb, Close, Die,
         Returns, EventRead, Answered, Closed, InputThread, Sort, EndOfInput, channelVars,
         TypeOK, ClientTypeOK, ChannelTypeOK
  <2>. QED
    BY <1>0, <2>1, SameSelf, QuestionFrame
<1>2. CASE d = c
  <2>1. CASE EventRead(d)
    <3>1. UNCHANGED <<toHost, toClient, answers, asking, thread, program>>
      BY <2>1 DEF EventRead, channelVars
    <3>. QED
      BY <1>0, <3>1, SameSelf, QuestionFrame
  <2>2. CASE Closed(d)
    <3>1. /\ UNCHANGED <<toHost, toClient, answers, asking, thread>>
          /\ program[d] = "closing" /\ program'[d] = "gone" /\ thread[d] = "ended"
      BY <1>0, <2>2 DEF Closed, channelVars, TypeOK, ClientTypeOK
    <3>. QED
      BY <1>0, <3>1 DEF QuestionInv
  <2>. QED
    BY <1>0, <1>2, <2>1, <2>2, QuestionCalls, QuestionAnswer, QuestionSort, QuestionEnd
       DEF Program, Returns, InputThread
<1>. QED
  BY <1>1, <1>2

LEMMA QuestionStep ==
    ASSUME IInv, [Next]_vars, NEW d \in Clients
    PROVE  QuestionInv(d)'
<1>1. CASE UNCHANGED vars
  <2>1. QuestionInv(d) /\ TypeOK
    BY DEF IInv
  <2>. QED
    BY <1>1, <2>1, SameSelf, QuestionFrame DEF vars, channelVars, hostVars, clientVars
<1>. QED
  BY <1>1, QuestionHost, QuestionProgram DEF Next

(***************************************************************************)
(* The theorems.                                                           *)
(***************************************************************************)

LEMMA InitInvariant ==
    ASSUME Init
    PROVE  IInv
<1>1. TypeOK
  BY TypeInit
<1>2. Len(<<>>) = 0 /\ DOMAIN <<>> = {}
  OBVIOUS
<1>3. CounterInv
  BY <1>2 DEF Init, ClientInit, CounterInv
<1>4. UiInv
  BY DEF Init, HostInit, UiInv, Idle
<1>5. AttachInv
  BY <1>2 DEF Init, HostInit, ClientInit, ChannelInit, AttachInv, Attached, ToSet
<1>6. NobodyWaitsInVain
  BY DEF Init, HostInit, NobodyWaitsInVain
<1>7. OrderInv
  BY <1>2 DEF Init, HostInit, OrderInv
<1>8. ASSUME NEW c \in Clients PROVE PipelineInv(c)
  BY <1>2 DEF Init, HostInit, ClientInit, ChannelInit, Idle, PipelineInv, Had, KeysOf, Leaving,
              Before, Increasing, KeysIncreasing
<1>9. KnownInv
  BY <1>2 DEF Init, HostInit, Idle, KnownInv
<1>10. ASSUME NEW c \in Clients PROVE AllKept(c)
  BY DEF Init, ClientInit, AllKept
<1>11. ASSUME NEW c \in Clients PROVE QuestionInv(c)
  BY <1>2 DEF Init, HostInit, ClientInit, ChannelInit, QuestionInv, Asked, NoQuestion, Free
<1>. QED
  BY <1>1, <1>3, <1>4, <1>5, <1>6, <1>7, <1>8, <1>9, <1>10, <1>11 DEF IInv

\* The invariant of ConsoleInvariant holds in every reachable state, for any
\* number of programs, questions, settings and calls (all of xc_io.cxx's and
\* xc_api.cxx's handlers preserve it).
THEOREM Invariance == Spec => []IInv
<1>1. IInv /\ [Next]_vars => IInv'
  BY TypeStep, CounterStep, UiStep, AttachStep, WaitStep, OrderStep, PipelineStep,
     KnownStep, KeptStep, QuestionStep DEF IInv
<1>. QED
  BY <1>1, InitInvariant, PTL DEF Spec

\* Type correctness of window, programs and channels.
THEOREM TypeCorrect == Spec => []TypeOK
<1>1. IInv => TypeOK
  BY DEF IInv
<1>. QED
  BY <1>1, Invariance, PTL

\* No key is kept by the window while an attached program is on record as
\* waiting for one, however _emit_event and verb 21 interleave with programs
\* that attach, leave and die.
THEOREM NoVainWait == Spec => []NobodyWaitsInVain
<1>1. IInv => NobodyWaitsInVain
  BY DEF IInv
<1>. QED
  BY <1>1, Invariance, PTL

\* Every program reads keys in the order in which they were pressed, and no two
\* read the same one.
THEOREM KeysInOrder == Spec => []ReadInOrder
<1>1. ASSUME IInv PROVE ReadInOrder
  <2>1. \A c \in Clients : \A i, j \in DOMAIN received[c] : i < j => received[c][i] < received[c][j]
    BY <1>1 DEF IInv, PipelineInv, Increasing
  <2>2. \A c \in Clients : \A i \in DOMAIN received[c] :
          \E k \in DOMAIN given[c] : received[c][i] = given[c][k]
    <3>1. ASSUME NEW c \in Clients PROVE Had(c) \subseteq Assigned(c)
      BY <1>1 DEF IInv, PipelineInv
    <3>2. ASSUME NEW c \in Clients, NEW i \in DOMAIN received[c] PROVE received[c][i] \in Assigned(c)
      <4>1. received[c][i] \in Had(c)
        BY DEF Had
      <4>. QED
        BY <3>1, <4>1
    <3>. QED
      BY <3>2 DEF Assigned
  <2>3. \A c, d \in Clients : c # d =>
          \A i \in DOMAIN received[c], j \in DOMAIN received[d] : received[c][i] # received[d][j]
    BY <1>1, <2>2 DEF IInv, OrderInv
  <2>. QED
    BY <2>1, <2>3 DEF ReadInOrder
<1>. QED
  BY <1>1, Invariance, PTL

\* What a program has read, what waits in its list, what is in its channel and
\* the key just being sent are the keys the window has assigned to it, in this
\* order: the queue, the channel and the list, each with a lock of its own, double
\* no key and, while both ends are there, lose none.
THEOREM NoKeyLost == Spec => []NothingLost
<1>1. IInv => NothingLost
  BY DEF IInv, NothingLost
<1>. QED
  BY <1>1, Invariance, PTL

\* The answer that a thread of a program finds is the answer to its question, or
\* the end of file: a question and its answer pass two channels, the window's
\* tasks and a list, with inputs and resizes between them.
THEOREM AnswersFound == Spec => []AnswersMatch
<1>1. ASSUME IInv PROVE AnswersMatch
  <2>1. ASSUME NEW c \in Clients, asking[c] # None, answerable[c] > 0
        PROVE  Head(answers[c]) \in {asking[c], "eof"}
    <3>1. answers[c] # <<>>
      <4>1. answerable[c] \in Nat /\ answerable[c] <= Len(answers[c]) /\ Len(<<>>) = 0
        BY <1>1 DEF IInv, TypeOK, ClientTypeOK, CounterInv
      <4>. QED
        BY <2>1, <4>1
    <3>2. QuestionInv(c)
      BY <1>1 DEF IInv
    <3>3. \/ answers[c] = <<asking[c]>> \/ answers[c] = <<"eof">>
          \/ answers[c] = <<asking[c], "eof">>
      BY <2>1, <3>1, <3>2 DEF QuestionInv, Asked, OneQuestion
    <3>. QED
      BY <3>3, ShortSequences
  <2>. QED
    BY <2>1 DEF AnswersMatch
<1>. QED
  BY <1>1, Invariance, PTL

\* The console implements InputStream: what a key press, a request to read and
\* everything else do to the keys is one of its steps, or nothing.
THEOREM Implementation == Spec => ImplementsInputStream
<1>1. ASSUME Init PROVE Stream!Init
  BY <1>1 DEF Init, HostInit, Stream!Init
<1>2. ASSUME IInv, [Next]_vars PROVE [Stream!Next]_(Stream!vars)
  <2>0. TypeOK
    BY <1>2 DEF IInv
  <2>1. ASSUME UNCHANGED <<events, emitted, given>> PROVE [Stream!Next]_(Stream!vars)
    BY <2>1 DEF Stream!vars
  <2>2. ASSUME EmitPick PROVE Stream!Next
    BY <1>2, <2>2, EmitPickCases DEF Stream!Next, Stream!Keep, Stream!Hand
  <2>3. ASSUME RunTask PROVE [Stream!Next]_(Stream!vars)
    <3>1. ASSUME NEW c \in Clients, RunRead(c), UNCHANGED emitted, events # <<>>
          PROVE  Stream!Next
      BY <3>1 DEF RunRead, Stream!Next, Stream!Take
    <3>2. ASSUME NEW c \in Clients, RunRead(c), UNCHANGED emitted, events = <<>>
          PROVE  UNCHANGED <<events, emitted, given>>
      BY <3>2 DEF RunRead
    <3>. QED
      BY <2>0, <2>1, <2>3, <3>1, <3>2, RunTaskFrame
  <2>4. ASSUME EmitSend \/ User \/ Exit \/ Accept \/ \E c \in Clients : HostThread(c)
        PROVE  UNCHANGED <<events, emitted, given>>
    BY <2>4, UserFrame DEF EmitSend, Accept, HostThread, ReadRequest, Leave
  <2>5. CASE UNCHANGED hostVars
    BY <2>1, <2>5 DEF hostVars
  <2>. QED
    BY <1>2, <2>1, <2>2, <2>3, <2>4, <2>5 DEF Next, Host, WindowThread, Program, vars
<1>. QED
  BY <1>1, <1>2, Invariance, PTL DEF Spec, ImplementsInputStream, Stream!Spec
=============================================================================

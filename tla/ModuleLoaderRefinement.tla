------------------------ MODULE ModuleLoaderRefinement ------------------------
(***************************************************************************)
(* The proof that the loader implements ModuleRegistry's safety part under *)
(* the mapping of ModuleLoaderInvariant, for every catalogue and any       *)
(* number of threads.                                                      *)
(***************************************************************************)
EXTENDS ModuleLoaderProofs

(* The oldest activation of a call decides what would answer it, and it    *)
(* decides so by its name, or by its image if it has none.                 *)
LEMMA WantedSame ==
    ASSUME NEW f, NEW g, g.name = f.name, f.name = None => g.image = f.image
    PROVE  WantedBy(g) = WantedBy(f)
  BY DEF WantedBy

LEMMA WantedElsewhere ==
    ASSUME NEW t \in Threads, Elsewhere(t), TypeOK,
           NEW w, w = (IF depth'[t] = 0 THEN {} ELSE WantedBy(stack'[t][1]))
    PROVE  wantedNames' = [wantedNames EXCEPT ![t] = w]
<1>1. wantedNames' = [u \in Threads |-> IF depth'[u] = 0 THEN {} ELSE WantedBy(stack'[u][1])]
  BY DEF wantedNames, WantedBy
<1>2. ASSUME NEW u \in Threads
      PROVE  (IF depth'[u] = 0 THEN {} ELSE WantedBy(stack'[u][1]))
                = IF u = t THEN w ELSE wantedNames[u]
  BY <1>2 DEF wantedNames, Elsewhere
<1>3. wantedNames' = [u \in Threads |-> IF u = t THEN w ELSE wantedNames[u]]
  BY <1>1, <1>2
<1>4. DOMAIN wantedNames = Threads
  BY DEF wantedNames
<1>. QED
  BY <1>3, <1>4

LEMMA SetTopWanted ==
    ASSUME IInv, NEW t \in Threads, depth[t] > 0, NEW f, SetTop(t, f),
           f.name = Top(t).name, Top(t).name = None => f.image = Top(t).image
    PROVE  wantedNames' = wantedNames /\ answer' = answer
<1>0. TypeOK /\ depth[t] \in 1 .. MaxDepth
  BY Running DEF IInv
<1>1. Elsewhere(t) /\ depth' = depth /\ answer' = answer
  BY <1>0 DEF Elsewhere, SetTop, TypeOK
<1>2. stack'[t][1] = IF depth[t] = 1 THEN f ELSE stack[t][1]
  BY <1>0, BoundAssumption DEF SetTop, TypeOK
<1>3. WantedBy(stack'[t][1]) = WantedBy(stack[t][1])
  BY <1>2, WantedSame DEF Top
<1>4. depth'[t] # 0
  BY <1>0, <1>1
<1>5. wantedNames[t] = WantedBy(stack'[t][1])
  BY <1>1, <1>3, <1>4 DEF wantedNames
<1>6. wantedNames' = [wantedNames EXCEPT ![t] = wantedNames[t]]
  BY <1>0, <1>1, <1>4, <1>5, WantedElsewhere
<1>. QED
  BY <1>1, <1>6 DEF wantedNames

LEMMA PushWanted ==
    ASSUME IInv, NEW t \in Threads, depth[t] > 0, NEW f, Push(t, f)
    PROVE  wantedNames' = wantedNames
<1>0. TypeOK /\ depth[t] \in 1 .. MaxDepth
  BY Running DEF IInv
<1>1. Elsewhere(t) /\ depth'[t] = depth[t] + 1
  BY <1>0 DEF Elsewhere, Push, TypeOK
<1>2. stack'[t][1] = stack[t][1]
  BY <1>0, BoundAssumption DEF Push, TypeOK
<1>3. depth[t] # 0 /\ depth'[t] # 0
  BY <1>0, <1>1
<1>4. wantedNames[t] = WantedBy(stack'[t][1])
  BY <1>2, <1>3 DEF wantedNames
<1>5. wantedNames' = [wantedNames EXCEPT ![t] = wantedNames[t]]
  BY <1>0, <1>1, <1>3, <1>4, WantedElsewhere
<1>. QED
  BY <1>5 DEF wantedNames

(* A return that leaves older activations is invisible; the last one       *)
(* answers the call.                                                       *)
LEMMA ReturnWanted ==
    ASSUME IInv, NEW t \in Threads, depth[t] > 0, NEW v, Return(t, v)
    PROVE  \/ wantedNames' = wantedNames /\ answer' = answer
           \/ /\ depth[t] = 1
              /\ wantedNames' = [wantedNames EXCEPT ![t] = {}]
              /\ answer' = [answer EXCEPT ![t] = v]
<1>0. TypeOK /\ depth[t] \in 1 .. MaxDepth
  BY Running DEF IInv
<1>1. Elsewhere(t) /\ depth'[t] = depth[t] - 1
  BY <1>0 DEF Elsewhere, Return, TypeOK
<1>2. CASE depth[t] = 1
  <2>1. wantedNames' = [wantedNames EXCEPT ![t] = {}]
    <3>1. depth'[t] = 0
      BY <1>1, <1>2
    <3>2. PICK w : w = {}
      OBVIOUS
    <3>3. w = (IF depth'[t] = 0 THEN {} ELSE WantedBy(stack'[t][1]))
      BY <3>1, <3>2
    <3>4. wantedNames' = [wantedNames EXCEPT ![t] = w]
      BY <1>0, <1>1, <3>3, WantedElsewhere
    <3>. QED
      BY <3>2, <3>4
  <2>. QED
    BY <1>2, <2>1 DEF Return
<1>3. CASE depth[t] # 1
  <2>1. answer' = answer
    BY <1>3 DEF Return
  <2>2. 1 \in 1 .. depth[t] - 1 /\ 1 \in 1 .. MaxDepth /\ depth'[t] # 0 /\ depth[t] # 0
    BY <1>0, <1>1, <1>3, BoundAssumption
  <2>3. stack'[t][1] = IF 1 = depth[t] - 1 THEN Resumed(stack[t][1], v) ELSE stack[t][1]
    BY <1>0, <2>2, ReturnShape
  <2>4. PICK f : f = stack[t][1]
    OBVIOUS
  <2>5. f \in Frame
    BY <1>0, <2>2, <2>4, StackFrame
  <2>6. Resumed(f, v).name = f.name /\ Resumed(f, v).image = f.image
    BY <2>5 DEF Resumed, Frame
  <2>7. WantedBy(stack'[t][1]) = WantedBy(stack[t][1])
    BY <2>3, <2>4, <2>6, WantedSame
  <2>8. wantedNames[t] = WantedBy(stack'[t][1])
    BY <2>2, <2>7 DEF wantedNames
  <2>9. wantedNames' = [wantedNames EXCEPT ![t] = wantedNames[t]]
    BY <1>0, <1>1, <2>2, <2>8, WantedElsewhere
  <2>. QED
    BY <2>1, <2>9 DEF wantedNames
<1>. QED
  BY <1>2, <1>3

-----------------------------------------------------------------------------
(* How the steps of the loader look through the mapping.                   *)

LEMMA TablesMapped ==
    ASSUME UNCHANGED tables
    PROVE  /\ loadedNames' = loadedNames
           /\ answerNames' = [t \in Threads |->
                 IF answer'[t] \in Objects THEN ImportName[image[answer'[t]]] ELSE None]
  BY DEF tables, loadedNames, answerNames

LEMMA HiddenStep ==
    ASSUME UNCHANGED tables, wantedNames' = wantedNames, answer' = answer
    PROVE  UNCHANGED <<loadedNames, wantedNames, answerNames>>
  BY TablesMapped DEF answerNames

LEMMA WantedByOne ==
    ASSUME NEW t \in Threads, depth[t] = 1
    PROVE  wantedNames[t] = WantedBy(Top(t))
  BY DEF wantedNames, Top

LEMMA WantedSome == \A f : WantedBy(f) # {}
  BY DEF WantedBy

(* What is returned for a name is a module of that name, or of the image   *)
(* found under it.                                                         *)
LEMMA ReplyStep ==
    ASSUME IInv, NEW t \in Threads, depth[t] > 0, UNCHANGED tables,
           NEW v \in Objects \cup {Null}, Return(t, v),
           v # Null => /\ v <= created
                       /\ Loaded(image[v])
                       /\ ImportName[image[v]] \in WantedBy(Top(t))
    PROVE  [Registry!Reply(t)]_<<loadedNames, wantedNames, answerNames>>
<1>0. TypeOK /\ ObjectsInv
  BY DEF IInv
<1>1. CASE wantedNames' = wantedNames /\ answer' = answer
  BY <1>1, HiddenStep
<1>2. CASE /\ depth[t] = 1
           /\ wantedNames' = [wantedNames EXCEPT ![t] = {}]
           /\ answer' = [answer EXCEPT ![t] = v]
  <2>1. wantedNames[t] = WantedBy(Top(t)) /\ wantedNames[t] # {}
    BY <1>2, WantedByOne, WantedSome
  <2>2. /\ answer'[t] = v
        /\ \A u \in Threads : u # t => answer'[u] = answer[u]
    BY <1>0, <1>2 DEF TypeOK
  <2>3. CASE v = Null
    <3>1. v \notin Objects
      BY <2>3 DEF Objects, Null
    <3>2. answerNames' = [answerNames EXCEPT ![t] = None]
      BY <2>2, <3>1, TablesMapped DEF answerNames
    <3>. QED
      BY <1>2, <2>1, <3>2, TablesMapped DEF Registry!Reply, Registry!Refuse
  <2>4. CASE v # Null
    <3>1. v \in Objects /\ image[v] \in Images
      BY <1>0, <2>4 DEF ObjectsInv, TypeOK
    <3>2. PICK n \in Names : n = ImportName[image[v]]
      BY <3>1, DependencyNames
    <3>3. n \in wantedNames[t] \cap loadedNames
      BY <2>1, <2>4, <3>2 DEF Loaded, loadedNames
    <3>4. answerNames' = [answerNames EXCEPT ![t] = n]
      BY <2>2, <3>1, <3>2, TablesMapped DEF answerNames
    <3>. QED
      BY <1>2, <3>3, <3>4, TablesMapped DEF Registry!Reply, Registry!Grant
  <2>. QED
    BY <2>3, <2>4
<1>. QED
  BY <1>1, <1>2, ReturnWanted

LEMMA FailMapped ==
    ASSUME IInv, NEW t \in Threads, depth[t] > 0, UNCHANGED tables,
           NEW e, Fail(t, e)
    PROVE  [Registry!Reply(t)]_<<loadedNames, wantedNames, answerNames>>
<1>1. PICK v \in Objects \cup {Null} : v = Null
  OBVIOUS
<1>2. Return(t, v)
  BY <1>1 DEF Fail
<1>. QED
  BY <1>1, <1>2, ReplyStep

(* An activation that moves to another stage, index or object is the same  *)
(* call to the registry.                                                   *)
LEMMA AdvanceMapped ==
    ASSUME IInv, NEW t \in Threads, depth[t] > 0, UNCHANGED tables, NEW f, SetTop(t, f),
           f.name = Top(t).name, f.image = Top(t).image
    PROVE  UNCHANGED <<loadedNames, wantedNames, answerNames>>
  BY SetTopWanted, HiddenStep

LEMMA MovedSame ==
    ASSUME NEW f \in Frame, NEW s, NEW k, NEW o
    PROVE  /\ [f EXCEPT !.stage = s].name = f.name
           /\ [f EXCEPT !.stage = s].image = f.image
           /\ [f EXCEPT !.stage = s, !.i = k].name = f.name
           /\ [f EXCEPT !.stage = s, !.i = k].image = f.image
           /\ [f EXCEPT !.stage = s, !.object = o, !.i = 1, !.todo = k].name = f.name
           /\ [f EXCEPT !.stage = s, !.object = o, !.i = 1, !.todo = k].image = f.image
           /\ [f EXCEPT !.todo = k].name = f.name
           /\ [f EXCEPT !.todo = k].image = f.image
  BY DEF Frame

LEMMA LookupMapped ==
    ASSUME IInv, NEW t \in Threads, Lookup(t)
    PROVE  [Registry!Reply(t)]_<<loadedNames, wantedNames, answerNames>>
<1>. DEFINE n == Top(t).name
<1>0. depth[t] > 0 /\ Top(t).stage = "lookup" /\ UNCHANGED tables
  BY DEF Lookup, At
<1>1. n \in Names /\ n # None /\ TypeOK /\ EntriesInv
  BY <1>0, Running, CatalogueAssumption DEF FrameInv, IInv
<1>2. CASE modules[n] # Null /\ Return(t, modules[n])
  <2>1. PICK v : v = modules[n]
    OBVIOUS
  <2>2. /\ v \in Objects \cup {Null} /\ v # Null /\ Return(t, v)
        /\ v <= created /\ ImportName[image[v]] = n
    BY <1>1, <1>2, <2>1 DEF TypeOK, EntriesInv
  <2>3. Loaded(image[v])
    BY <2>1, <2>2 DEF Loaded
  <2>4. n \in WantedBy(Top(t))
    BY <1>1 DEF WantedBy
  <2>. QED
    BY <1>0, <2>2, <2>3, <2>4, ReplyStep
<1>3. CASE Fail(t, "NoSuchModule")
  BY <1>0, <1>3, FailMapped
<1>4. CASE SetTop(t, ByStream(n, Shelf[n]))
  <2>1. PICK f : f = ByStream(n, Shelf[n])
    OBVIOUS
  <2>2. f.name = n
    BY <2>1 DEF ByStream, FreeFrame
  <2>. QED
    BY <1>0, <1>1, <1>4, <2>1, <2>2, SetTopWanted, HiddenStep
<1>. QED
  BY <1>2, <1>3, <1>4 DEF Lookup

LEMMA OpenMapped ==
    ASSUME IInv, NEW t \in Threads, Open(t)
    PROVE  [Registry!Reply(t)]_<<loadedNames, wantedNames, answerNames>>
<1>. DEFINE m == Top(t).image
            known == modules[ImportName[m]]
<1>0. depth[t] > 0 /\ Top(t).stage = "open" /\ UNCHANGED tables
  BY DEF Open, At
<1>1. /\ Top(t) \in Frame /\ m \in Images /\ ImportName[m] \in Names
      /\ Top(t).name # None => Shelf[Top(t).name] = m
      /\ TypeOK /\ EntriesInv
  BY <1>0, Running, DependencyNames DEF FrameInv, IInv
<1>2. CASE Fail(t, "Distrusted") \/ Fail(t, "InvalidImageFormat")
  BY <1>0, <1>2, FailMapped
<1>3. CASE known # Null /\ Return(t, known)
  <2>1. PICK v : v = known
    OBVIOUS
  <2>2. /\ v \in Objects \cup {Null} /\ v # Null /\ Return(t, v)
        /\ v <= created /\ ImportName[image[v]] = ImportName[m]
    BY <1>1, <1>3, <2>1 DEF TypeOK, EntriesInv
  <2>3. Loaded(image[v])
    BY <2>1, <2>2 DEF Loaded
  <2>4. ImportName[m] \in WantedBy(Top(t))
    BY <1>1, CatalogueAssumption DEF WantedBy
  <2>. QED
    BY <1>0, <2>2, <2>3, <2>4, ReplyStep
<1>4. CASE SetTop(t, [Top(t) EXCEPT !.stage = "embed"])
  BY <1>0, <1>1, <1>4, MovedSame, AdvanceMapped
<1>. QED
  BY <1>2, <1>3, <1>4 DEF Open

LEMMA CompleteMapped ==
    ASSUME IInv, NEW t \in Threads, Complete(t)
    PROVE  [Registry!Reply(t)]_<<loadedNames, wantedNames, answerNames>>
<1>. DEFINE g == Top(t)
<1>0. /\ depth[t] > 0 /\ g.stage = "initialize" /\ UNCHANGED tables
      /\ Return(t, g.object)
  BY DEF Complete, At
<1>1. /\ g.object \in 1 .. created /\ g.object \in Objects \cup {Null}
      /\ image[g.object] = g.image /\ Loaded(g.image) /\ g.image \in Images
      /\ g.name # None => Shelf[g.name] = g.image
  BY <1>0, Running DEF FrameInv, Frame
<1>2. ImportName[g.image] \in WantedBy(g)
  BY <1>1, CatalogueAssumption DEF WantedBy
<1>3. PICK v \in Objects \cup {Null} : v = g.object
  BY <1>1
<1>4. v <= created /\ Loaded(image[v]) /\ ImportName[image[v]] \in WantedBy(g)
  BY <1>1, <1>2, <1>3 DEF IInv, TypeOK
<1>. QED
  BY <1>0, <1>3, <1>4, ReplyStep

(* Linking a module that nobody loaded meanwhile is the one visible        *)
(* change of the registry's set.                                           *)
LEMMA LinkMapped ==
    ASSUME IInv, NEW t \in Threads, Link(t)
    PROVE  [Registry!Next]_<<loadedNames, wantedNames, answerNames>>
<1>. DEFINE g == Top(t)
            m == g.image
<1>0. /\ depth[t] > 0 /\ g.stage = "link"
      /\ TypeOK /\ ObjectsInv /\ EntriesInv /\ AnswersInv
  BY DEF Link, At, IInv
<1>1. /\ g \in Frame /\ m \in Images /\ ImportName[m] \in Names /\ Served(m)
      /\ \A d \in Dependencies(m) : d \in Names
      /\ Len(DependsOn[m]) \in Nat
      /\ \A k \in 1 .. Len(DependsOn[m]) : DependsOn[m][k] \in Dependencies(m)
  BY <1>0, Running, DependencyNames DEF FrameInv, Dependencies
<1>2. CASE (Fail(t, "DefectiveSymbol") \/ Fail(t, "LinkageFailure")) /\ UNCHANGED tables
  BY <1>0, <1>2, FailMapped DEF Registry!Next
<1>3. ASSUME created < MaxObjects, Register(m, created + 1),
             SetTop(t, [g EXCEPT !.stage = "initialize", !.object = created + 1, !.i = 1,
                                 !.todo = Local(m) \cap Initializers[m]])
      PROVE  [Registry!Next]_<<loadedNames, wantedNames, answerNames>>
  <2>1. PICK o \in Objects : o = created + 1
    BY <1>0, <1>3, BoundAssumption DEF TypeOK, Objects
  <2>2. /\ \A n \in Names : modules'[n] =
              IF modules[n] = Null /\ n = ImportName[m] THEN o ELSE modules[n]
        /\ \A p \in Objects : image'[p] = IF p = o THEN m ELSE image[p]
    BY <1>1, <1>3, <2>1, RegisterTables
  <2>3. wantedNames' = wantedNames /\ answer' = answer
    <3>1. PICK f : f = [g EXCEPT !.stage = "initialize", !.object = o, !.i = 1,
                                 !.todo = Local(m) \cap Initializers[m]]
      OBVIOUS
    <3>2. f.name = g.name /\ f.image = g.image
      BY <1>1, <3>1, MovedSame
    <3>3. SetTop(t, f)
      BY <1>3, <2>1, <3>1
    <3>. QED
      BY <1>0, <3>2, <3>3, SetTopWanted
  <2>4. answerNames' = answerNames
    <3>1. \A u \in Threads : answer[u] \in Objects => answer[u] # o
      BY <1>0, <2>1 DEF AnswersInv, TypeOK
    <3>. QED
      BY <2>2, <2>3, <3>1 DEF answerNames
  <2>5. loadedNames' = loadedNames \cup {ImportName[m]}
    <3>1. o # Null
      BY DEF Objects, Null
    <3>2. \A n \in Names : modules'[n] # Null <=> modules[n] # Null \/ n = ImportName[m]
      BY <2>2, <3>1
    <3>. QED
      BY <1>1, <3>2 DEF loadedNames
  <2>6. CASE ImportName[m] \in loadedNames
    BY <2>3, <2>4, <2>5, <2>6
  <2>7. CASE ImportName[m] \notin loadedNames
    <3>1. wantedNames[t] # {}
      <4>1. depth[t] # 0
        BY <1>0
      <4>2. wantedNames[t] = WantedBy(stack[t][1])
        BY <4>1 DEF wantedNames
      <4>. QED
        BY <4>2, WantedSome
    <3>2. ASSUME NEW k \in 1 .. Len(DependsOn[m])
          PROVE  Registry!Answers(DependsOn[m][k]) \cap loadedNames # {}
      <4>1. PICK d \in Names : d = DependsOn[m][k] /\ Provider(d) # Null
        BY <1>1 DEF Served
      <4>2. Shelf[d] # None => ImportName[Shelf[d]] \in Names
        BY CatalogueAssumption
      <4>3. Registry!Answers(d) \cap loadedNames # {}
        BY <4>1, <4>2 DEF Registry!Answers, loadedNames, Provider
      <4>. QED
        BY <4>1, <4>3
    <3>3. Registry!Load(m)
      BY <2>3, <2>4, <2>5, <2>7, <3>1, <3>2 DEF Registry!Load
    <3>. QED
      BY <1>1, <3>3 DEF Registry!Next
  <2>. QED
    BY <2>6, <2>7
<1>. QED
  BY <1>2, <1>3 DEF Link

LEMMA QuietMapped ==
    ASSUME IInv, NEW t \in Threads,
           Embed(t) \/ LoadEmbedded(t) \/ LoadDependency(t) \/ LoadFromInitializer(t)
    PROVE  UNCHANGED <<loadedNames, wantedNames, answerNames>>
<1>. DEFINE g == Top(t)
<1>0. depth[t] > 0 /\ UNCHANGED tables
  BY DEF Embed, LoadEmbedded, LoadDependency, LoadFromInitializer, At
<1>1. g \in Frame
  BY <1>0, Running
<1>2. ASSUME NEW f, Push(t, f), answer' = answer
      PROVE  UNCHANGED <<loadedNames, wantedNames, answerNames>>
  BY <1>0, <1>2, PushWanted, HiddenStep
<1>3. ASSUME NEW s, SetTop(t, [g EXCEPT !.stage = s])
      PROVE  UNCHANGED <<loadedNames, wantedNames, answerNames>>
  BY <1>0, <1>1, <1>3, MovedSame, AdvanceMapped
<1>4. ASSUME SetTop(t, [g EXCEPT !.stage = "depend", !.i = 1])
      PROVE  UNCHANGED <<loadedNames, wantedNames, answerNames>>
  <2>1. PICK f : f = [g EXCEPT !.stage = "depend", !.i = 1]
    OBVIOUS
  <2>2. f.name = g.name /\ f.image = g.image
    BY <1>1, <2>1, MovedSame
  <2>. QED
    BY <1>0, <1>4, <2>1, <2>2, AdvanceMapped
<1>. QED
  BY <1>2, <1>3, <1>4 DEF Embed, LoadEmbedded, LoadDependency, LoadFromInitializer

LEMMA CheckVersionsMapped ==
    ASSUME IInv, NEW t \in Threads, CheckVersions(t)
    PROVE  [Registry!Reply(t)]_<<loadedNames, wantedNames, answerNames>>
<1>0. depth[t] > 0 /\ UNCHANGED tables
  BY DEF CheckVersions, At
<1>1. Top(t) \in Frame
  BY <1>0, Running
<1>2. ASSUME NEW e, Fail(t, e)
      PROVE  [Registry!Reply(t)]_<<loadedNames, wantedNames, answerNames>>
  BY <1>0, <1>2, FailMapped
<1>3. CASE SetTop(t, [Top(t) EXCEPT !.stage = "link"])
  BY <1>0, <1>1, <1>3, MovedSame, AdvanceMapped
<1>. QED
  BY <1>2, <1>3 DEF CheckVersions

LEMMA InitializeMapped ==
    ASSUME IInv, NEW t \in Threads, Initialize(t)
    PROVE  [Registry!Reply(t)]_<<loadedNames, wantedNames, answerNames>>
<1>0. depth[t] > 0 /\ UNCHANGED tables
  BY DEF Initialize, At
<1>1. Top(t) \in Frame
  BY <1>0, Running
<1>2. CASE Fail(t, "InitializationFailure")
  BY <1>0, <1>2, FailMapped
<1>3. ASSUME NEW s, SetTop(t, [Top(t) EXCEPT !.todo = @ \ {s}])
      PROVE  UNCHANGED <<loadedNames, wantedNames, answerNames>>
  <2>1. PICK k : k = Top(t).todo \ {s}
    OBVIOUS
  <2>2. SetTop(t, [Top(t) EXCEPT !.todo = k])
    BY <1>3, <2>1
  <2>. QED
    BY <1>0, <1>1, <2>2, MovedSame, AdvanceMapped
<1>. QED
  BY <1>2, <1>3 DEF Initialize

LEMMA UnwindMapped ==
    ASSUME IInv, NEW t \in Threads, Unwind(t)
    PROVE  [Registry!Reply(t)]_<<loadedNames, wantedNames, answerNames>>
<1>1. PICK v \in Objects \cup {Null} : v = Null
  OBVIOUS
<1>2. depth[t] > 0 /\ UNCHANGED tables /\ Return(t, v)
  BY <1>1 DEF Unwind, At
<1>. QED
  BY <1>1, <1>2, ReplyStep

(* A call of the program asks the registry.                                *)
LEMMA BeginMapped ==
    ASSUME IInv, NEW t \in Threads, NEW f, Begin(t, f), NEW w, w = WantedBy(f)
    PROVE  Registry!Ask(t, w)
<1>0. /\ TypeOK /\ depth[t] = 0 /\ Push(t, f) /\ UNCHANGED tables
      /\ answer' = [answer EXCEPT ![t] = None]
  BY DEF Begin, IInv
<1>1. Elsewhere(t) /\ depth'[t] = 1 /\ stack'[t][1] = f
  BY <1>0, BoundAssumption DEF Elsewhere, Push, TypeOK
<1>2. w = (IF depth'[t] = 0 THEN {} ELSE WantedBy(stack'[t][1]))
  BY <1>1
<1>3. wantedNames' = [wantedNames EXCEPT ![t] = w]
  BY <1>0, <1>1, <1>2, WantedElsewhere
<1>4. None \notin Objects
  BY CatalogueAssumption DEF Objects
<1>5. answerNames' = [answerNames EXCEPT ![t] = None]
  BY <1>0, <1>4, TablesMapped DEF answerNames, TypeOK
<1>6. wantedNames[t] = {}
  BY <1>0 DEF wantedNames
<1>. QED
  BY <1>0, <1>3, <1>5, <1>6, TablesMapped DEF Registry!Ask

LEMMA ProgramMapped ==
    ASSUME IInv, Program
    PROVE  [Registry!Next]_<<loadedNames, wantedNames, answerNames>>
<1>1. ASSUME NEW t \in Threads, NEW n \in Names, LoadModuleByName(t, n)
      PROVE  Registry!AskByName(t, n)
  <2>1. n # None
    BY CatalogueAssumption
  <2>2. ByName(n).name = n
    BY DEF ByName, FreeFrame
  <2>3. WantedBy(ByName(n)) = Registry!Answers(n)
    BY <2>1, <2>2 DEF WantedBy, Registry!Answers
  <2>. QED
    BY <1>1, <2>3, BeginMapped DEF LoadModuleByName, Registry!AskByName
<1>2. ASSUME NEW t \in Threads, NEW m \in Images, LoadModuleByStream(t, m)
      PROVE  Registry!AskByImage(t, m)
  <2>1. ByStream(None, m).name = None /\ ByStream(None, m).image = m
    BY DEF ByStream, FreeFrame
  <2>2. WantedBy(ByStream(None, m)) = {ImportName[m]}
    BY <2>1 DEF WantedBy
  <2>. QED
    BY <1>2, <2>2, BeginMapped DEF LoadModuleByStream, Registry!AskByImage
<1>3. ASSUME UNCHANGED <<tables, thread>>
      PROVE  UNCHANGED <<loadedNames, wantedNames, answerNames>>
  BY <1>3, HiddenStep DEF thread, wantedNames
<1>. QED
  BY <1>1, <1>2, <1>3 DEF Program, AllowEmbeddedModules, Destroy, Registry!Next

(* The loader's steps are steps of the registry or invisible to it.        *)
LEMMA StepSimulation ==
    ASSUME IInv, [Next]_vars
    PROVE  [Registry!Next]_<<loadedNames, wantedNames, answerNames>>
<1>1. CASE Program
  BY <1>1, ProgramMapped
<1>2. ASSUME NEW t \in Threads, Step(t)
      PROVE  [Registry!Next]_<<loadedNames, wantedNames, answerNames>>
  <2>1. Registry!Reply(t) => Registry!Next
    BY DEF Registry!Next
  <2>. QED
    BY <1>2, <2>1, LookupMapped, OpenMapped, QuietMapped, CheckVersionsMapped,
       LinkMapped, InitializeMapped, CompleteMapped, UnwindMapped DEF Step
<1>3. ASSUME NEW s \in Symbols, Shutdown(s)
      PROVE  UNCHANGED <<loadedNames, wantedNames, answerNames>>
  BY <1>3, HiddenStep DEF Shutdown, thread, wantedNames
<1>4. CASE UNCHANGED vars
  BY <1>4, HiddenStep DEF vars, tables, wantedNames
<1>. QED
  BY <1>1, <1>2, <1>3, <1>4 DEF Next

LEMMA InitSimulation == Init => Registry!Init
<1>. SUFFICES ASSUME Init PROVE Registry!Init
  OBVIOUS
<1>1. None \notin Objects
  BY CatalogueAssumption DEF Objects
<1>2. loadedNames = {}
  BY DEF Init, loadedNames
<1>3. wantedNames = [t \in Threads |-> {}]
  BY DEF Init, wantedNames
<1>4. answerNames = [t \in Threads |-> None]
  BY <1>1 DEF Init, answerNames
<1>. QED
  BY <1>2, <1>3, <1>4 DEF Registry!Init

(* LoadModule, with its recursion, its many critical sections and its      *)
(* failures, is to any number of threads a registry in which modules       *)
(* appear one at a time after what they depend on, and in which a call is  *)
(* answered by a loaded module it asked for or by null.                    *)
THEOREM Implementation == Spec => ImplementsRegistrySafety
<1>1. IInv /\ [Next]_vars => [Registry!Next]_<<loadedNames, wantedNames, answerNames>>
  BY StepSimulation
<1>2. [Registry!Next]_<<loadedNames, wantedNames, answerNames>>
      => [Registry!Next]_(Registry!vars)
  BY DEF Registry!vars
<1>3. Spec => Registry!Init /\ [][Registry!Next]_(Registry!vars)
  BY <1>1, <1>2, InitSimulation, Invariance, PTL DEF Spec
<1>. QED
  BY <1>3 DEF ImplementsRegistrySafety, Registry!Safety
=============================================================================

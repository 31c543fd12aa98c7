------------------------- MODULE ModuleLoaderProofs -------------------------
(***************************************************************************)
(* Proofs about the loader, for every catalogue of images and names and    *)
(* any number of threads.                                                  *)
(***************************************************************************)
EXTENDS ModuleLoaderInvariant, TLAPS

(* The stack of a thread keeps its type when an activation is replaced,    *)
(* entered or left.                                                        *)
LEMMA SetTopType ==
    ASSUME TypeOK, NEW t \in Threads, depth[t] > 0, NEW f \in Frame, SetTop(t, f)
    PROVE  /\ stack' \in [Threads -> [1 .. MaxDepth -> Frame]]
           /\ depth' \in [Threads -> 0 .. MaxDepth]
           /\ answer' \in [Threads -> Objects \cup {Null, None}]
<1>1. depth[t] \in 1 .. MaxDepth
  BY BoundAssumption DEF TypeOK
<1>. QED
  BY <1>1 DEF TypeOK, SetTop

LEMMA PushType ==
    ASSUME TypeOK, NEW t \in Threads, NEW f \in Frame, Push(t, f)
    PROVE  /\ stack' \in [Threads -> [1 .. MaxDepth -> Frame]]
           /\ depth' \in [Threads -> 0 .. MaxDepth]
<1>1. depth[t] + 1 \in 1 .. MaxDepth
  BY BoundAssumption DEF TypeOK, Push
<1>. QED
  BY <1>1, BoundAssumption DEF TypeOK, Push

LEMMA FreeFrameType == FreeFrame \in Frame
  BY DEF FreeFrame, Frame, Stages

LEMMA ByNameType == ASSUME NEW n \in Names PROVE ByName(n) \in Frame
  BY FreeFrameType DEF ByName, Frame, Stages

LEMMA ByStreamType ==
    ASSUME NEW n \in Names \cup {None}, NEW m \in Images PROVE ByStream(n, m) \in Frame
  BY FreeFrameType DEF ByStream, Frame, Stages

LEMMA ResumedType ==
    ASSUME NEW f \in Frame, NEW v PROVE Resumed(f, v) \in Frame
<1>1. f.i \in Nat \ {0}
  BY DEF Frame
<1>2. f.i + 1 \in Nat \ {0}
  BY <1>1
<1>3. [f EXCEPT !.i = @ + 1] \in Frame
  BY <1>2 DEF Frame
<1>4. [f EXCEPT !.stage = "unwind"] \in Frame
  BY DEF Frame, Stages
<1>. QED
  BY <1>3, <1>4 DEF Resumed

LEMMA ReturnType ==
    ASSUME TypeOK, NEW t \in Threads, depth[t] > 0,
           NEW v \in Objects \cup {Null}, Return(t, v)
    PROVE  /\ stack' \in [Threads -> [1 .. MaxDepth -> Frame]]
           /\ depth' \in [Threads -> 0 .. MaxDepth]
           /\ answer' \in [Threads -> Objects \cup {Null, None}]
<1>1. depth[t] - 1 \in 0 .. MaxDepth
  BY BoundAssumption DEF TypeOK
<1>2. \A d \in 1 .. MaxDepth : Resumed(stack[t][d], v) \in Frame
  BY ResumedType DEF TypeOK
<1>3. [d \in 1 .. MaxDepth |->
          IF d = depth[t] THEN FreeFrame
          ELSE IF d = depth[t] - 1 THEN Resumed(stack[t][d], v)
          ELSE stack[t][d]] \in [1 .. MaxDepth -> Frame]
  <2>1. \A d \in 1 .. MaxDepth : stack[t][d] \in Frame
    BY DEF TypeOK
  <2>. QED
    BY <1>2, <2>1, FreeFrameType
<1>4. stack' \in [Threads -> [1 .. MaxDepth -> Frame]]
  BY <1>3 DEF TypeOK, Return
<1>. QED
  BY <1>1, <1>4 DEF TypeOK, Return

-----------------------------------------------------------------------------
(* Type correctness.                                                       *)

LEMMA TopType ==
    ASSUME TypeOK, NEW t \in Threads, depth[t] > 0
    PROVE  depth[t] \in 1 .. MaxDepth /\ Top(t) \in Frame
  BY BoundAssumption DEF TypeOK, Top

LEMMA ReportType ==
    ASSUME TypeOK, NEW t \in Threads, NEW e \in Errors, Report(t, e)
    PROVE  error' \in Errors /\ reported' \in [Threads -> BOOLEAN]
  BY DEF TypeOK, Report

LEMMA InitType == Init => TypeOK
<1>. SUFFICES ASSUME Init PROVE TypeOK
  OBVIOUS
<1>1. stack \in [Threads -> [1 .. MaxDepth -> Frame]]
  BY FreeFrameType DEF Init
<1>2. depth \in [Threads -> 0 .. MaxDepth]
  BY BoundAssumption DEF Init
<1>3. created \in 0 .. MaxObjects /\ calls \in 0 .. MaxCalls
  BY BoundAssumption DEF Init
<1>. QED
  BY <1>1, <1>2, <1>3 DEF Init, TypeOK, Errors, States

LEMMA ProgramType == TypeOK /\ Program => TypeOK'
<1>. SUFFICES ASSUME TypeOK, Program PROVE TypeOK'
  OBVIOUS
<1>1. ASSUME NEW allow \in BOOLEAN, AllowEmbeddedModules(allow) PROVE TypeOK'
  BY <1>1 DEF TypeOK, AllowEmbeddedModules, tables, thread
<1>2. ASSUME NEW t \in Threads, NEW f \in Frame, Begin(t, f) PROVE TypeOK'
  <2>1. /\ stack' \in [Threads -> [1 .. MaxDepth -> Frame]]
        /\ depth' \in [Threads -> 0 .. MaxDepth]
    BY <1>2, PushType DEF Begin
  <2>2. calls' \in 0 .. MaxCalls
    BY <1>2, BoundAssumption DEF Begin, TypeOK
  <2>. QED
    BY <1>2, <2>1, <2>2 DEF TypeOK, Begin, tables
<1>3. ASSUME NEW t \in Threads, NEW n \in Names, LoadModuleByName(t, n) PROVE TypeOK'
  BY <1>2, <1>3, ByNameType DEF LoadModuleByName
<1>4. ASSUME NEW t \in Threads, NEW m \in Images, LoadModuleByStream(t, m) PROVE TypeOK'
  BY <1>2, <1>4, ByStreamType DEF LoadModuleByStream
<1>5. ASSUME Destroy PROVE TypeOK'
  BY <1>5 DEF TypeOK, Destroy, tables, thread
<1>. QED
  BY <1>1, <1>3, <1>4, <1>5 DEF Program

(* A step that changes one thread's stack and reports at most one error,   *)
(* and nothing else, keeps the types.                                      *)
LEMMA ControlType ==
    ASSUME TypeOK,
           UNCHANGED <<tables, shutdowns, embedding, state, calls, alive, ended>>,
           stack' \in [Threads -> [1 .. MaxDepth -> Frame]],
           depth' \in [Threads -> 0 .. MaxDepth],
           answer' \in [Threads -> Objects \cup {Null, None}],
           error' \in Errors, reported' \in [Threads -> BOOLEAN]
    PROVE  TypeOK'
  BY DEF TypeOK, tables

(* A frame that only moves to another stage or index is still a frame.     *)
LEMMA MovedType ==
    ASSUME NEW f \in Frame, NEW s \in Stages, NEW k \in Nat \ {0}
    PROVE  /\ [f EXCEPT !.stage = s] \in Frame
           /\ [f EXCEPT !.stage = s, !.i = k] \in Frame
  BY DEF Frame

LEMMA FailType ==
    ASSUME TypeOK, NEW t \in Threads, depth[t] > 0, NEW e \in Errors, Fail(t, e)
    PROVE  /\ stack' \in [Threads -> [1 .. MaxDepth -> Frame]]
           /\ depth' \in [Threads -> 0 .. MaxDepth]
           /\ answer' \in [Threads -> Objects \cup {Null, None}]
           /\ error' \in Errors
           /\ reported' \in [Threads -> BOOLEAN]
  BY ReturnType, ReportType DEF Fail

LEMMA QuietType ==
    ASSUME TypeOK, UNCHANGED <<error, reported>>
    PROVE  error' \in Errors /\ reported' \in [Threads -> BOOLEAN]
  BY DEF TypeOK

-----------------------------------------------------------------------------
(* The tables only grow, and what activations know about them stays true.  *)

Growth ==
    /\ \A n \in Names : modules[n] # Null => modules'[n] = modules[n]
    /\ \A o \in 1 .. created : image'[o] = image[o]
    /\ created <= created'
    /\ \A u \in Threads : reported[u] => reported'[u]

LEMMA ProviderGrowth ==
    ASSUME TypeOK, Growth, NEW d \in Names, Provider(d) # Null
    PROVE  Provider(d)' # Null
  BY CatalogueAssumption DEF Growth, Provider

LEMMA AcceptsGrowth ==
    ASSUME TypeOK, EntriesInv, Growth, NEW m, NEW n \in Names, Accepts(m, n)
    PROVE  Accepts(m, n)'
<1>1. modules[n] \in 1 .. created /\ modules'[n] = modules[n]
  BY DEF Accepts, Growth, EntriesInv, TypeOK, Objects, Null
<1>2. image'[modules'[n]] = image[modules[n]]
  BY <1>1 DEF Growth
<1>. QED
  BY <1>1, <1>2 DEF Accepts

LEMMA DependencyNames ==
    ASSUME NEW m \in Images
    PROVE  /\ Len(DependsOn[m]) \in Nat
           /\ \A k \in 1 .. Len(DependsOn[m]) : DependsOn[m][k] \in Names
           /\ Dependencies(m) \subseteq Names
           /\ Needs[m] \subseteq Names
           /\ ImportName[m] \in Names
<1>1. DependsOn[m] \in Seq(Names)
  BY CatalogueAssumption
<1>2. \A k \in 1 .. Len(DependsOn[m]) : DependsOn[m][k] \in Names
  BY <1>1
<1>. QED
  BY <1>1, <1>2, CatalogueAssumption DEF Dependencies

LEMMA FrameGrowth ==
    ASSUME TypeOK, EntriesInv, Growth, created' \in Nat, NEW t \in Threads,
           NEW f \in Frame, FrameInv(t, f)
    PROVE  FrameInv(t, f)'
<1>1. CASE f.stage = "lookup"
  BY <1>1 DEF FrameInv
<1>2. CASE f.stage # "lookup"
  <2>1. f.image \in Images
    BY <1>2 DEF FrameInv
  <2>2. f.stage = "depend" =>
          \A k \in 1 .. Len(DependsOn[f.image]) :
              k < f.i => Provider(DependsOn[f.image][k])' # Null
    BY <2>1, ProviderGrowth, DependencyNames DEF FrameInv
  <2>3. f.stage \in {"version", "link"} => Served(f.image)'
    BY <2>1, ProviderGrowth, DependencyNames DEF FrameInv, Served, Dependencies
  <2>4. f.stage = "link" => \A r \in Needs[f.image] : Accepts(f.image, r)'
    BY <2>1, AcceptsGrowth, DependencyNames DEF FrameInv
  <2>5. ASSUME f.stage = "initialize"
        PROVE  /\ f.object \in 1 .. created'
               /\ image'[f.object] = f.image
               /\ Loaded(f.image)'
    <3>1. /\ f.object \in 1 .. created
          /\ image[f.object] = f.image
          /\ Loaded(f.image)
      BY <2>5 DEF FrameInv
    <3>2. modules'[ImportName[f.image]] # Null
      BY <2>1, <3>1, DependencyNames DEF Growth, Loaded
    <3>3. created \in Nat /\ created <= created'
      BY DEF TypeOK, Growth
    <3>. QED
      BY <3>1, <3>2, <3>3 DEF Growth, Loaded
  <2>6. f.stage = "unwind" => reported'[t]
    BY DEF FrameInv, Growth
  <2>. QED
    BY <1>2, <2>2, <2>3, <2>4, <2>5, <2>6 DEF FrameInv
<1>. QED
  BY <1>1, <1>2

(* Only the stack of t changes.                                            *)
Elsewhere(t) ==
    \A u \in Threads : u # t => stack'[u] = stack[u] /\ depth'[u] = depth[u]

LEMMA StackFrame ==
    ASSUME TypeOK, NEW t \in Threads, NEW d \in 1 .. MaxDepth
    PROVE  stack[t][d] \in Frame
  BY DEF TypeOK

LEMMA ReturnShape ==
    ASSUME TypeOK, NEW t \in Threads, depth[t] > 0, NEW v, Return(t, v)
    PROVE  /\ depth'[t] = depth[t] - 1
           /\ \A d \in 1 .. depth[t] - 1 :
                 stack'[t][d] = IF d = depth[t] - 1 THEN Resumed(stack[t][d], v)
                                ELSE stack[t][d]
<1>1. depth[t] \in 1 .. MaxDepth
  BY TopType
<1>2. stack'[t] = [d \in 1 .. MaxDepth |->
                     IF d = depth[t] THEN FreeFrame
                     ELSE IF d = depth[t] - 1 THEN Resumed(stack[t][d], v)
                     ELSE stack[t][d]]
  BY DEF Return, TypeOK
<1>3. depth'[t] = depth[t] - 1
  BY DEF Return, TypeOK
<1>4. \A d \in 1 .. depth[t] - 1 : d \in 1 .. MaxDepth /\ d # depth[t]
  BY <1>1, BoundAssumption
<1>. QED
  BY <1>2, <1>3, <1>4

(* A waiting activation keeps what it knows. The frame is named, so that   *)
(* priming speaks of the tables alone.                                     *)
LEMMA WaitingFrame ==
    ASSUME TypeOK, TypeOK', EntriesInv, Growth, StacksInv,
           NEW t \in Threads, NEW d \in 1 .. depth[t], NEW f, f = stack[t][d]
    PROVE  f \in Frame /\ FrameInv(t, f) /\ FrameInv(t, f)'
<1>0. depth[t] \in 0 .. MaxDepth /\ created' \in Nat
  BY DEF TypeOK
<1>1. d \in 1 .. MaxDepth
  BY <1>0, BoundAssumption
<1>2. stack[t][d] \in Frame
  BY <1>1, StackFrame
<1>3. FrameInv(t, f)
  BY DEF StacksInv
<1>. QED
  BY <1>0, <1>2, <1>3, FrameGrowth

(* When tables grow, the stacks stay right if the frames of the one thread *)
(* that moved do.                                                          *)
LEMMA StacksByThread ==
    ASSUME TypeOK, TypeOK', EntriesInv, Growth, StacksInv,
           NEW t \in Threads, Elsewhere(t),
           (\A d \in 1 .. depth[t] : FrameInv(t, stack[t][d]))',
           (\A d \in 1 .. depth[t] :
               d < depth[t] => LinkInv(stack[t][d], stack[t][d + 1]))'
    PROVE  StacksInv'
<1>1. ASSUME NEW u \in Threads, u # t
      PROVE  /\ (\A d \in 1 .. depth[u] : FrameInv(u, stack[u][d]))'
             /\ (\A d \in 1 .. depth[u] :
                    d < depth[u] => LinkInv(stack[u][d], stack[u][d + 1]))'
  <2>1. stack'[u] = stack[u] /\ depth'[u] = depth[u]
    BY <1>1 DEF Elsewhere
  <2>2. ASSUME NEW d \in 1 .. depth'[u] PROVE FrameInv(u, stack[u][d])'
    <3>1. PICK f : f = stack[u][d]
      OBVIOUS
    <3>2. FrameInv(u, f)'
      BY <2>1, <3>1, WaitingFrame
    <3>. QED
      BY <2>1, <3>1, <3>2
  <2>. QED
    BY <2>1, <2>2 DEF StacksInv, LinkInv
<1>. QED
  BY <1>1 DEF StacksInv

LEMMA SetTopStacks ==
    ASSUME TypeOK, TypeOK', EntriesInv, Growth, StacksInv,
           NEW t \in Threads, depth[t] > 0, NEW f \in Frame, SetTop(t, f),
           f.name = Top(t).name, FrameInv(t, f)'
    PROVE  StacksInv'
<1>1. depth[t] \in 1 .. MaxDepth /\ depth' = depth
  BY TopType DEF SetTop
<1>2. Elsewhere(t)
  BY DEF Elsewhere, SetTop, TypeOK
<1>3. /\ stack'[t][depth[t]] = f
      /\ \A d \in 1 .. depth[t] : d < depth[t] => stack'[t][d] = stack[t][d]
  BY <1>1 DEF SetTop, TypeOK
<1>4. ASSUME NEW d \in 1 .. depth[t] PROVE FrameInv(t, stack[t][d])'
  <2>1. CASE d = depth[t]
    BY <1>1, <1>3, <2>1
  <2>2. CASE d < depth[t]
    <3>1. PICK g : g = stack[t][d]
      OBVIOUS
    <3>2. FrameInv(t, g)'
      BY <3>1, WaitingFrame
    <3>. QED
      BY <1>3, <2>2, <3>1, <3>2
  <2>. QED
    BY <1>1, <2>1, <2>2
<1>5. ASSUME NEW d \in 1 .. depth[t], d < depth[t]
      PROVE  LinkInv(stack[t][d], stack[t][d + 1])'
  <2>1. LinkInv(stack[t][d], stack[t][d + 1])
    BY <1>5 DEF StacksInv
  <2>2. stack'[t][d + 1].name = stack[t][d + 1].name
    BY <1>1, <1>3, <1>5 DEF Top
  <2>. QED
    BY <1>3, <1>5, <2>1, <2>2 DEF LinkInv
<1>. QED
  BY <1>1, <1>2, <1>4, <1>5, StacksByThread

LEMMA PushStacks ==
    ASSUME TypeOK, TypeOK', EntriesInv, Growth, StacksInv,
           NEW t \in Threads, NEW f \in Frame, Push(t, f), FrameInv(t, f)',
           depth[t] > 0 => LinkInv(Top(t), f)
    PROVE  StacksInv'
<1>0. depth[t] \in Nat /\ depth[t] + 1 \in 1 .. MaxDepth
  BY BoundAssumption DEF Push, TypeOK
<1>1. depth'[t] = depth[t] + 1
  BY DEF Push, TypeOK
<1>2. Elsewhere(t)
  BY DEF Elsewhere, Push, TypeOK
<1>3. /\ stack'[t][depth[t] + 1] = f
      /\ \A d \in 1 .. depth[t] : stack'[t][d] = stack[t][d]
  BY <1>0 DEF Push, TypeOK
<1>4. ASSUME NEW d \in 1 .. depth'[t] PROVE FrameInv(t, stack[t][d])'
  <2>1. CASE d = depth[t] + 1
    BY <1>3, <2>1
  <2>2. CASE d \in 1 .. depth[t]
    <3>1. PICK g : g = stack[t][d]
      OBVIOUS
    <3>2. FrameInv(t, g)'
      BY <2>2, <3>1, WaitingFrame
    <3>. QED
      BY <1>3, <2>2, <3>1, <3>2
  <2>. QED
    BY <1>0, <1>1, <2>1, <2>2
<1>5. ASSUME NEW d \in 1 .. depth'[t], d < depth'[t]
      PROVE  LinkInv(stack[t][d], stack[t][d + 1])'
  <2>0. d \in 1 .. depth[t] /\ stack'[t][d] = stack[t][d]
    BY <1>0, <1>1, <1>3, <1>5
  <2>1. CASE d = depth[t]
    <3>1. LinkInv(stack[t][d], f)
      BY <1>0, <2>0, <2>1 DEF Top
    <3>. QED
      BY <1>3, <2>0, <2>1, <3>1 DEF LinkInv
  <2>2. CASE d < depth[t]
    <3>1. LinkInv(stack[t][d], stack[t][d + 1])
      BY <2>0, <2>2 DEF StacksInv
    <3>2. stack'[t][d + 1] = stack[t][d + 1]
      BY <1>0, <1>3, <2>0, <2>2
    <3>. QED
      BY <2>0, <3>1, <3>2 DEF LinkInv
  <2>. QED
    BY <1>0, <2>0, <2>1, <2>2
<1>. QED
  BY <1>2, <1>4, <1>5, StacksByThread

(* A value is only returned for the name it was asked for.                 *)
LEMMA ReturnStacks ==
    ASSUME TypeOK, TypeOK', EntriesInv, Growth, StacksInv,
           NEW t \in Threads, depth[t] > 0,
           NEW v \in Objects \cup {Null}, Return(t, v),
           v = Null => reported'[t],
           NEW n, n = Top(t).name, v # Null /\ n # None => Provider(n)' # Null
    PROVE  StacksInv'
<1>0. depth[t] \in 1 .. MaxDepth
  BY TopType
<1>1. depth'[t] = depth[t] - 1
  BY ReturnShape
<1>2. Elsewhere(t)
  BY DEF Elsewhere, Return, TypeOK
<1>3. \A d \in 1 .. depth'[t] :
          stack'[t][d] = IF d = depth'[t] THEN Resumed(stack[t][d], v) ELSE stack[t][d]
  BY <1>1, ReturnShape
<1>4. ASSUME NEW d \in 1 .. depth'[t] PROVE FrameInv(t, stack[t][d])'
  <2>0. d \in 1 .. depth[t] /\ d < depth[t]
    BY <1>0, <1>1, <1>4
  <2>1. PICK f : f = stack[t][d]
    OBVIOUS
  <2>2. f \in Frame /\ FrameInv(t, f) /\ FrameInv(t, f)'
    BY <2>0, <2>1, WaitingFrame
  <2>3. CASE d # depth'[t]
    BY <1>3, <2>1, <2>2, <2>3
  <2>4. CASE d = depth'[t]
    <3>1. /\ f.stage \in {"embedding", "depend", "initialize"}
          /\ f.stage = "depend" => /\ f.i \in 1 .. Len(DependsOn[f.image])
                                   /\ n = DependsOn[f.image][f.i]
      <4>1. LinkInv(f, Top(t))
        <5>1. LinkInv(stack[t][d], stack[t][d + 1])
          BY <2>0 DEF StacksInv
        <5>2. d + 1 = depth[t]
          BY <1>0, <1>1, <2>4
        <5>. QED
          BY <2>1, <5>1, <5>2 DEF Top
      <4>. QED
        BY <4>1 DEF LinkInv
    <3>2. /\ f.image \in Images
          /\ f.name # None => Shelf[f.name] = f.image
      BY <2>2, <3>1 DEF FrameInv
    <3>3. PICK g : g = Resumed(f, v)
      OBVIOUS
    <3>4. CASE v = Null /\ f.stage # "initialize"
      <4>1. g = [f EXCEPT !.stage = "unwind"]
        BY <3>3, <3>4 DEF Resumed
      <4>2. g.stage = "unwind" /\ g.image = f.image /\ g.name = f.name
        BY <2>2, <4>1 DEF Frame
      <4>3. FrameInv(t, g)'
        BY <3>2, <3>4, <4>2 DEF FrameInv
      <4>. QED
        BY <1>3, <2>1, <2>4, <3>3, <4>3
    <3>5. CASE v # Null \/ f.stage = "initialize"
      <4>1. g = [f EXCEPT !.i = f.i + 1]
        BY <3>3, <3>5 DEF Resumed
      <4>2. /\ g.stage = f.stage /\ g.image = f.image /\ g.name = f.name
            /\ g.i = f.i + 1 /\ f.i \in Nat
        BY <2>2, <4>1 DEF Frame
      <4>3. ASSUME f.stage = "depend", NEW k \in 1 .. Len(DependsOn[f.image]), k < f.i + 1
            PROVE  Provider(DependsOn[f.image][k])' # Null
        <5>1. CASE k < f.i
          BY <2>2, <4>3, <5>1 DEF FrameInv
        <5>2. CASE k = f.i
          <6>1. n = DependsOn[f.image][k] /\ n \in Names
            BY <3>1, <3>2, <4>3, <5>2, DependencyNames
          <6>2. n # None
            BY <6>1, CatalogueAssumption
          <6>. QED
            BY <3>5, <4>3, <6>1, <6>2
        <5>. QED
          BY <3>2, <4>2, <4>3, <5>1, <5>2, DependencyNames
      <4>4. FrameInv(t, g)'
        <5>1. CASE f.stage = "initialize"
          <6>1. /\ f.object \in 1 .. created' /\ image'[f.object] = f.image
                /\ Loaded(f.image)' /\ g.object = f.object
            BY <2>2, <4>1, <5>1 DEF FrameInv, Frame
          <6>2. PICK h : h = g.image
            OBVIOUS
          <6>3. Loaded(h)' /\ image'[g.object] = h /\ g.object \in 1 .. created'
            BY <4>2, <6>1, <6>2
          <6>. QED
            BY <3>2, <4>2, <5>1, <6>2, <6>3 DEF FrameInv
        <5>2. CASE f.stage # "initialize"
          BY <3>1, <3>2, <4>2, <4>3, <5>2 DEF FrameInv
        <5>. QED
          BY <5>1, <5>2
      <4>. QED
        BY <1>3, <2>1, <2>4, <3>3, <4>4
    <3>. QED
      BY <3>4, <3>5
  <2>. QED
    BY <2>3, <2>4
<1>5. ASSUME NEW d \in 1 .. depth'[t], d < depth'[t]
      PROVE  LinkInv(stack[t][d], stack[t][d + 1])'
  <2>0. d \in 1 .. depth[t] /\ d + 1 \in 1 .. depth'[t] /\ d + 1 \in 1 .. MaxDepth
    BY <1>0, <1>1, <1>5, BoundAssumption
  <2>1. stack'[t][d] = stack[t][d] /\ LinkInv(stack[t][d], stack[t][d + 1])
    <3>1. d \in Nat /\ depth[t] \in Nat
      BY <1>0, <2>0, BoundAssumption
    <3>2. d < depth[t] /\ d # depth[t] - 1 /\ d \in 1 .. depth[t] - 1
      BY <1>1, <1>5, <2>0, <3>1
    <3>. QED
      BY <1>0, <1>1, <1>3, <2>0, <3>2 DEF StacksInv
  <2>2. stack[t][d + 1] \in Frame
    BY <2>0, StackFrame
  <2>3. \A f \in Frame : Resumed(f, v).name = f.name
    BY DEF Resumed, Frame
  <2>4. stack'[t][d + 1].name = stack[t][d + 1].name
    BY <1>3, <2>0, <2>2, <2>3
  <2>. QED
    BY <2>1, <2>4 DEF LinkInv
<1>. QED
  BY <1>2, <1>4, <1>5, StacksByThread

-----------------------------------------------------------------------------
(* The other parts of the invariant, when one thread moves.                *)

LEMMA AnswersByThread ==
    ASSUME TypeOK, TypeOK', ObjectsInv, Growth, AnswersInv, NEW t \in Threads,
           Elsewhere(t),
           \A u \in Threads : u # t => answer'[u] = answer[u] /\ reported'[u] = reported[u],
           error # "Success" => error' # "Success",
           answer'[t] # None => depth'[t] = 0,
           answer'[t] \in Objects =>
               answer'[t] <= created' /\ modules'[ImportName[image'[answer'[t]]]] # Null,
           answer'[t] = Null => reported'[t],
           reported'[t] => error' # "Success"
    PROVE  AnswersInv'
<1>1. created \in Nat /\ created' \in Nat
  BY DEF TypeOK
<1>2. ASSUME NEW u \in Threads, u # t, answer[u] \in Objects
      PROVE  answer[u] <= created' /\ modules'[ImportName[image'[answer[u]]]] # Null
  <2>1. /\ answer[u] \in 1 .. created
        /\ modules[ImportName[image[answer[u]]]] # Null
    BY <1>1, <1>2 DEF AnswersInv, Loaded, Objects
  <2>2. image[answer[u]] \in Images
    BY <1>1, <1>2, <2>1 DEF ObjectsInv, TypeOK
  <2>. QED
    BY <1>1, <2>1, <2>2, DependencyNames DEF Growth, Objects
<1>3. ASSUME NEW u \in Threads, u # t
      PROVE  /\ answer'[u] # None => depth'[u] = 0
             /\ answer'[u] \in Objects =>
                    answer'[u] <= created' /\ modules'[ImportName[image'[answer'[u]]]] # Null
             /\ answer'[u] = Null => reported'[u]
             /\ reported'[u] => error' # "Success"
  BY <1>2, <1>3 DEF AnswersInv, Elsewhere
<1>. QED
  BY <1>3 DEF AnswersInv, Loaded

(* No activation that runs initializers goes away or changes its object.   *)
InitializersStay ==
    \A u \in Threads : \A d \in 1 .. depth[u] :
        stack[u][d].stage = "initialize" =>
            /\ d \in 1 .. depth'[u]
            /\ stack'[u][d].stage = "initialize"
            /\ stack'[u][d].object = stack[u][d].object

LEMMA ShutdownStays ==
    ASSUME ShutdownInv, InitializersStay, alive,
           UNCHANGED <<tables, shutdowns, state, alive, ended>>
    PROVE  ShutdownInv'
  BY DEF tables, ShutdownInv, InitializersStay

(* An activation that waits for an initializer to load a module goes on    *)
(* initializing when it comes back.                                        *)
LEMMA ResumedInitializer ==
    ASSUME NEW f \in Frame, NEW v, f.stage = "initialize"
    PROVE  Resumed(f, v).stage = "initialize" /\ Resumed(f, v).object = f.object
  BY DEF Resumed, Frame

(* The waiting activations of t stay where they are.                       *)
WaitingStay(t) ==
    \A d \in 1 .. depth[t] : d < depth[t] /\ stack[t][d].stage = "initialize" =>
        /\ d \in 1 .. depth'[t]
        /\ stack'[t][d].stage = "initialize"
        /\ stack'[t][d].object = stack[t][d].object

LEMMA SetTopWaiting ==
    ASSUME TypeOK, NEW t \in Threads, depth[t] > 0, NEW f, SetTop(t, f)
    PROVE  WaitingStay(t)
<1>1. depth[t] \in 1 .. MaxDepth /\ depth' = depth
  BY TopType DEF SetTop
<1>2. \A d \in 1 .. depth[t] : d < depth[t] => stack'[t][d] = stack[t][d]
  BY <1>1 DEF SetTop, TypeOK
<1>. QED
  BY <1>1, <1>2 DEF WaitingStay

LEMMA ReturnWaiting ==
    ASSUME TypeOK, NEW t \in Threads, depth[t] > 0, NEW v, Return(t, v)
    PROVE  WaitingStay(t)
<1>1. depth[t] \in 1 .. MaxDepth
  BY TopType
<1>2. SUFFICES ASSUME NEW d \in 1 .. depth[t], d < depth[t], stack[t][d].stage = "initialize"
               PROVE  /\ d \in 1 .. depth'[t]
                      /\ stack'[t][d].stage = "initialize"
                      /\ stack'[t][d].object = stack[t][d].object
  BY DEF WaitingStay
<1>3. d \in 1 .. depth[t] - 1 /\ d \in 1 .. MaxDepth
  BY <1>1, <1>2, BoundAssumption
<1>4. PICK f : f = stack[t][d]
  OBVIOUS
<1>5. f \in Frame /\ f.stage = "initialize"
  BY <1>2, <1>3, <1>4, StackFrame
<1>6. depth'[t] = depth[t] - 1 /\ stack'[t][d] \in {f, Resumed(f, v)}
  BY <1>3, <1>4, ReturnShape
<1>. QED
  BY <1>3, <1>4, <1>5, <1>6, ResumedInitializer

LEMMA InitializersElsewhere ==
    ASSUME TypeOK, NEW t \in Threads, Elsewhere(t), WaitingStay(t),
           depth[t] > 0 /\ Top(t).stage = "initialize" =>
               /\ depth[t] \in 1 .. depth'[t]
               /\ stack'[t][depth[t]].stage = "initialize"
               /\ stack'[t][depth[t]].object = Top(t).object
    PROVE  InitializersStay
<1>1. ASSUME NEW u \in Threads, NEW d \in 1 .. depth[u], stack[u][d].stage = "initialize"
      PROVE  /\ d \in 1 .. depth'[u]
             /\ stack'[u][d].stage = "initialize"
             /\ stack'[u][d].object = stack[u][d].object
  <2>1. CASE u # t
    BY <1>1, <2>1 DEF Elsewhere
  <2>2. CASE u = t
    <3>1. depth[t] \in Nat
      BY DEF TypeOK
    <3>2. CASE d = depth[t]
      BY <1>1, <2>2, <3>1, <3>2 DEF Top
    <3>3. CASE d # depth[t]
      <4>1. d \in 1 .. depth[t] /\ d < depth[t]
        BY <2>2, <3>1, <3>3
      <4>. QED
        BY <1>1, <2>2, <4>1 DEF WaitingStay
    <3>. QED
      BY <3>2, <3>3
  <2>. QED
    BY <2>1, <2>2
<1>. QED
  BY <1>1 DEF InitializersStay

LEMMA TablesStay ==
    ASSUME IInv, UNCHANGED <<tables, state>>
    PROVE  ObjectsInv' /\ EntriesInv' /\ DependencyClosed' /\ VersionsMet'
<1>. USE DEF tables
<1>1. ObjectsInv' /\ EntriesInv'
  BY DEF IInv, ObjectsInv, EntriesInv
<1>2. DependencyClosed'
  BY DEF IInv, DependencyClosed, Provider
<1>3. VersionsMet'
  BY DEF IInv, VersionsMet, Accepts
<1>. QED
  BY <1>1, <1>2, <1>3

-----------------------------------------------------------------------------
(* The three ways in which an activation moves while the tables stay.      *)

LEMMA TablesGrowth ==
    ASSUME TypeOK, UNCHANGED tables, \A u \in Threads : reported[u] => reported'[u]
    PROVE  Growth
  BY DEF TypeOK, Growth, tables

LEMMA Running ==
    ASSUME IInv, NEW t \in Threads, depth[t] > 0
    PROVE  alive /\ answer[t] = None /\ depth[t] \in 1 .. MaxDepth /\ Top(t) \in Frame
           /\ FrameInv(t, Top(t))
<1>1. depth[t] \in 1 .. MaxDepth /\ Top(t) \in Frame
  BY TopType DEF IInv
<1>2. alive
  BY DEF IInv, ShutdownInv
<1>3. answer[t] = None
  BY DEF IInv, AnswersInv
<1>4. FrameInv(t, Top(t))
  <2>1. depth[t] \in 1 .. depth[t]
    BY <1>1, BoundAssumption
  <2>. QED
    BY <2>1 DEF IInv, StacksInv, Top
<1>. QED
  BY <1>1, <1>2, <1>3, <1>4

LEMMA MoveStep ==
    ASSUME IInv, NEW t \in Threads, depth[t] > 0, NEW f \in Frame, SetTop(t, f),
           f.name = Top(t).name, FrameInv(t, f)',
           Top(t).stage = "initialize" =>
               f.stage = "initialize" /\ f.object = Top(t).object,
           UNCHANGED <<tables, shutdowns, embedding, error, state, reported, calls,
                       alive, ended>>
    PROVE  IInv'
<1>0. TypeOK /\ EntriesInv /\ StacksInv /\ AnswersInv /\ ShutdownInv /\ ObjectsInv
  BY DEF IInv
<1>1. TypeOK'
  BY <1>0, SetTopType, QuietType, ControlType
<1>2. Growth
  BY <1>0, TablesGrowth
<1>3. StacksInv'
  BY <1>0, <1>1, <1>2, SetTopStacks
<1>4. AnswersInv'
  BY <1>0 DEF AnswersInv, SetTop, Loaded, tables
<1>5. ShutdownInv'
  <2>1. Elsewhere(t)
    BY <1>0 DEF Elsewhere, SetTop, TypeOK
  <2>2. depth[t] \in 1 .. MaxDepth
    BY Running
  <2>3. depth'[t] = depth[t] /\ stack'[t][depth[t]] = f
    BY <1>0, <2>2 DEF SetTop, TypeOK
  <2>4. depth[t] \in 1 .. depth'[t]
    BY <2>2, <2>3, BoundAssumption
  <2>5. InitializersStay
    BY <1>0, <2>1, <2>3, <2>4, SetTopWaiting, InitializersElsewhere
  <2>. QED
    BY <1>0, <2>5, Running, ShutdownStays
<1>6. ObjectsInv' /\ EntriesInv' /\ DependencyClosed' /\ VersionsMet'
  BY TablesStay
<1>. QED
  BY <1>1, <1>3, <1>4, <1>5, <1>6 DEF IInv

LEMMA EnterStep ==
    ASSUME IInv, NEW t \in Threads, depth[t] > 0, NEW f \in Frame, Push(t, f),
           FrameInv(t, f)', LinkInv(Top(t), f),
           UNCHANGED <<tables, shutdowns, embedding, error, state, answer, reported,
                       calls, alive, ended>>
    PROVE  IInv'
<1>0. TypeOK /\ EntriesInv /\ StacksInv /\ AnswersInv /\ ShutdownInv /\ ObjectsInv
  BY DEF IInv
<1>1. TypeOK'
  <2>1. answer' \in [Threads -> Objects \cup {Null, None}]
    BY <1>0 DEF TypeOK
  <2>. QED
    BY <1>0, <2>1, PushType, QuietType, ControlType
<1>2. Growth
  BY <1>0, TablesGrowth
<1>3. StacksInv'
  BY <1>0, <1>1, <1>2, PushStacks
<1>4. Elsewhere(t)
  BY <1>0 DEF Elsewhere, Push, TypeOK
<1>5. AnswersInv'
  <2>1. \A u \in Threads : answer[u] # None => depth'[u] = 0
    BY <1>0, <1>4, Running DEF AnswersInv, Elsewhere
  <2>. QED
    BY <1>0, <2>1 DEF AnswersInv, Loaded, tables
<1>6. ShutdownInv'
  <2>1. depth[t] \in 1 .. MaxDepth /\ depth[t] + 1 \in 1 .. MaxDepth
    <3>1. depth[t] \in 1 .. MaxDepth /\ depth[t] < MaxDepth
      BY Running DEF Push
    <3>. QED
      BY <3>1, BoundAssumption
  <2>2. /\ depth'[t] = depth[t] + 1
        /\ \A d \in 1 .. depth[t] : stack'[t][d] = stack[t][d]
    BY <1>0, <2>1 DEF Push, TypeOK
  <2>3. depth[t] \in 1 .. depth'[t] /\ \A d \in 1 .. depth[t] : d \in 1 .. depth'[t]
    BY <2>1, <2>2, BoundAssumption
  <2>4. WaitingStay(t)
    BY <2>2, <2>3 DEF WaitingStay
  <2>5. stack'[t][depth[t]] = Top(t)
    BY <2>1, <2>2, BoundAssumption DEF Top
  <2>6. InitializersStay
    BY <1>0, <1>4, <2>3, <2>4, <2>5, InitializersElsewhere
  <2>. QED
    BY <1>0, <2>6, Running, ShutdownStays
<1>7. ObjectsInv' /\ EntriesInv' /\ DependencyClosed' /\ VersionsMet'
  BY TablesStay
<1>. QED
  BY <1>1, <1>3, <1>5, <1>6, <1>7 DEF IInv

LEMMA ReturnAnswer ==
    ASSUME TypeOK, NEW t \in Threads, depth[t] > 0, answer[t] = None, NEW v, Return(t, v)
    PROVE  /\ answer'[t] = IF depth[t] = 1 THEN v ELSE None
           /\ \A u \in Threads : u # t => answer'[u] = answer[u]
           /\ answer'[t] # None => depth'[t] = 0
           /\ Elsewhere(t)
  BY DEF TypeOK, Return, Elsewhere

LEMMA ReportOthers ==
    ASSUME TypeOK, NEW t \in Threads,
           UNCHANGED <<error, reported>> \/ \E e \in Errors \ {"Success"} : Report(t, e)
    PROVE  /\ \A u \in Threads : reported[u] => reported'[u]
           /\ \A u \in Threads : u # t => reported'[u] = reported[u]
           /\ error # "Success" => error' # "Success"
           /\ (reported[t] => error # "Success") => (reported'[t] => error' # "Success")
           /\ error' \in Errors
           /\ reported' \in [Threads -> BOOLEAN]
<1>1. CASE UNCHANGED <<error, reported>>
  BY <1>1 DEF TypeOK
<1>2. ASSUME NEW e \in Errors \ {"Success"}, Report(t, e)
      PROVE  /\ \A u \in Threads : reported[u] => reported'[u]
             /\ \A u \in Threads : u # t => reported'[u] = reported[u]
             /\ error' # "Success"
             /\ error' \in Errors
             /\ reported' \in [Threads -> BOOLEAN]
  BY <1>2 DEF TypeOK, Report
<1>. QED
  BY <1>1, <1>2

LEMMA LeaveStep ==
    ASSUME IInv, NEW t \in Threads, depth[t] > 0,
           NEW v \in Objects \cup {Null}, Return(t, v),
           UNCHANGED <<error, reported>> \/ \E e \in Errors \ {"Success"} : Report(t, e),
           Top(t).stage # "initialize",
           v = Null => reported'[t],
           v # Null => v <= created /\ Loaded(image[v]),
           v # Null /\ Top(t).name # None => Provider(Top(t).name) # Null,
           UNCHANGED <<tables, shutdowns, embedding, state, calls, alive, ended>>
    PROVE  IInv'
<1>0. TypeOK /\ EntriesInv /\ StacksInv /\ AnswersInv /\ ShutdownInv /\ ObjectsInv
  BY DEF IInv
<1>1. TypeOK'
  BY <1>0, ReturnType, ReportOthers, ControlType
<1>2. Growth
  BY <1>0, TablesGrowth, ReportOthers
<1>3. StacksInv'
  <2>1. PICK n : n = Top(t).name
    OBVIOUS
  <2>2. v # Null /\ n # None => Provider(n)' # Null
    BY <2>1 DEF Provider, tables
  <2>. QED
    BY <1>0, <1>1, <1>2, <2>1, <2>2, ReturnStacks
<1>4. /\ answer'[t] = IF depth[t] = 1 THEN v ELSE None
      /\ \A u \in Threads : u # t => answer'[u] = answer[u]
      /\ answer'[t] # None => depth'[t] = 0
      /\ Elsewhere(t)
  BY <1>0, ReturnAnswer, Running
<1>5. AnswersInv'
  <2>1. answer'[t] \in Objects =>
            answer'[t] <= created' /\ modules'[ImportName[image'[answer'[t]]]] # Null
    BY <1>4, CatalogueAssumption DEF Objects, Null, Loaded, tables
  <2>2. answer'[t] = Null => reported'[t]
    BY <1>4, CatalogueAssumption DEF Null
  <2>3. /\ \A u \in Threads : u # t => reported'[u] = reported[u]
        /\ error # "Success" => error' # "Success"
        /\ reported'[t] => error' # "Success"
    BY <1>0, ReportOthers DEF AnswersInv
  <2>. QED
    BY <1>0, <1>1, <1>2, <1>4, <2>1, <2>2, <2>3, AnswersByThread
<1>6. ShutdownInv'
  <2>1. InitializersStay
    BY <1>0, <1>4, ReturnWaiting, InitializersElsewhere
  <2>. QED
    BY <1>0, <2>1, Running, ShutdownStays
<1>7. ObjectsInv' /\ EntriesInv' /\ DependencyClosed' /\ VersionsMet'
  BY TablesStay
<1>. QED
  BY <1>1, <1>3, <1>5, <1>6, <1>7 DEF IInv

(* A failure reports an error and returns null.                            *)
LEMMA FailStep ==
    ASSUME IInv, NEW t \in Threads, depth[t] > 0,
           NEW e \in Errors \ {"Success"}, Fail(t, e),
           Top(t).stage # "initialize",
           UNCHANGED <<tables, shutdowns, embedding, state, calls, alive, ended>>
    PROVE  IInv'
<1>1. Return(t, Null) /\ Report(t, e)
  BY DEF Fail
<1>2. reported'[t]
  BY <1>1 DEF Report, IInv, TypeOK
<1>. QED
  BY <1>1, <1>2, LeaveStep

-----------------------------------------------------------------------------
(* The steps of LoadModule that leave the tables alone, one by one.        *)

LEMMA LookupStep == ASSUME IInv, NEW t \in Threads, Lookup(t) PROVE IInv'
<1>. DEFINE n == Top(t).name
<1>0. /\ depth[t] > 0
      /\ Top(t).stage = "lookup"
      /\ UNCHANGED <<tables, shutdowns, embedding, state, calls, alive, ended>>
  BY DEF Lookup, At
<1>1. n \in Names /\ TypeOK /\ EntriesInv
  BY <1>0, Running DEF FrameInv, IInv
<1>2. CASE modules[n] # Null /\ Return(t, modules[n]) /\ UNCHANGED <<error, reported>>
  <2>1. PICK v : v = modules[n]
    OBVIOUS
  <2>2. v \in Objects /\ v # Null /\ Return(t, v)
    BY <1>1, <1>2, <2>1 DEF TypeOK
  <2>3. v <= created /\ Loaded(image[v])
    BY <1>1, <2>1, <2>2 DEF EntriesInv, Loaded
  <2>4. Provider(Top(t).name) # Null
    BY <1>2 DEF Provider
  <2>. QED
    BY <1>0, <1>2, <2>2, <2>3, <2>4, LeaveStep
<1>3. CASE Fail(t, "NoSuchModule")
  BY <1>0, <1>3, FailStep DEF Errors
<1>4. CASE /\ modules[n] = Null /\ Shelf[n] # None
           /\ SetTop(t, ByStream(n, Shelf[n]))
           /\ UNCHANGED <<error, reported>>
  <2>1. Shelf[n] \in Images
    BY <1>1, <1>4, CatalogueAssumption
  <2>2. PICK f : f = ByStream(n, Shelf[n])
    OBVIOUS
  <2>3. f \in Frame
    BY <1>1, <2>1, <2>2, ByStreamType
  <2>4. f.stage = "open" /\ f.name = n /\ f.image = Shelf[n] /\ f.i = 1
    BY <2>2 DEF ByStream, FreeFrame
  <2>5. FrameInv(t, f)'
    BY <2>1, <2>4 DEF FrameInv
  <2>. QED
    BY <1>0, <1>4, <2>2, <2>3, <2>4, <2>5, MoveStep
<1>. QED
  BY <1>2, <1>3, <1>4 DEF Lookup

(* The top activation only moves to another stage or index.                *)
LEMMA AdvanceStep ==
    ASSUME IInv, NEW t \in Threads, depth[t] > 0, Top(t).stage # "lookup",
           NEW s \in {"embed", "embedding", "depend", "version", "link"},
           NEW k \in Nat \ {0},
           SetTop(t, [Top(t) EXCEPT !.stage = s, !.i = k]),
           s \in {"open", "embed", "depend"} => k = 1,
           s \in {"version", "link"} => Served(Top(t).image),
           s = "link" => \A r \in Needs[Top(t).image] : Accepts(Top(t).image, r),
           Top(t).stage # "initialize",
           UNCHANGED <<tables, shutdowns, embedding, error, state, reported, calls,
                       alive, ended>>
    PROVE  IInv'
<1>1. PICK f : f = [Top(t) EXCEPT !.stage = s, !.i = k]
  OBVIOUS
<1>2. PICK g : g = Top(t)
  OBVIOUS
<1>3. g \in Frame /\ FrameInv(t, g)
  BY <1>2, Running
<1>4. f \in Frame
  BY <1>1, <1>2, <1>3, MovedType DEF Stages
<1>5. f.stage = s /\ f.name = g.name /\ f.image = g.image /\ f.i = k
  BY <1>1, <1>2, <1>3 DEF Frame
<1>6. g.image \in Images /\ (g.name # None => Shelf[g.name] = g.image)
  BY <1>2, <1>3 DEF FrameInv
<1>7. s \in {"version", "link"} => Served(g.image)'
  BY <1>2 DEF Served, Provider, tables
<1>8. s = "link" => \A r \in Needs[g.image] : Accepts(g.image, r)'
  BY <1>2 DEF Accepts, tables
<1>9. s = "depend" =>
        \A j \in 1 .. Len(DependsOn[g.image]) : ~(j < k)
  BY <1>6, DependencyNames
<1>10. FrameInv(t, f)'
  BY <1>5, <1>6, <1>7, <1>8, <1>9 DEF FrameInv
<1>. QED
  BY <1>1, <1>2, <1>4, <1>5, <1>10, MoveStep

LEMMA OpenStep == ASSUME IInv, NEW t \in Threads, Open(t) PROVE IInv'
<1>. DEFINE m == Top(t).image
            known == modules[ImportName[m]]
<1>0. /\ depth[t] > 0
      /\ Top(t).stage = "open"
      /\ UNCHANGED <<tables, shutdowns, embedding, state, calls, alive, ended>>
  BY DEF Open, At
<1>1. TypeOK /\ EntriesInv
  BY DEF IInv
<1>2. /\ Top(t) \in Frame /\ m \in Images /\ Top(t).i = 1
      /\ Top(t).name # None => Shelf[Top(t).name] = m
  BY <1>0, Running DEF FrameInv
<1>3. CASE Fail(t, "Distrusted")
  BY <1>0, <1>3, FailStep DEF Errors
<1>4. CASE Fail(t, "InvalidImageFormat")
  BY <1>0, <1>4, FailStep DEF Errors
<1>5. CASE known # Null /\ Return(t, known) /\ UNCHANGED <<error, reported>>
  <2>0. ImportName[m] \in Names
    BY <1>2, DependencyNames
  <2>1. PICK v : v = known
    OBVIOUS
  <2>2. v \in Objects /\ v # Null /\ Return(t, v)
    BY <1>1, <1>5, <2>0, <2>1 DEF TypeOK
  <2>3. v <= created /\ Loaded(image[v])
    BY <1>1, <2>0, <2>1, <2>2 DEF EntriesInv, Loaded
  <2>4. Top(t).name # None => Provider(Top(t).name) # Null
    BY <1>2, <1>5, CatalogueAssumption DEF Provider
  <2>. QED
    BY <1>0, <1>5, <2>2, <2>3, <2>4, LeaveStep
<1>6. CASE SetTop(t, [Top(t) EXCEPT !.stage = "embed"]) /\ UNCHANGED <<error, reported>>
  <2>1. PICK k \in Nat \ {0} : k = 1
    OBVIOUS
  <2>2. [Top(t) EXCEPT !.stage = "embed"] = [Top(t) EXCEPT !.stage = "embed", !.i = k]
    BY <1>2, <2>1 DEF Frame
  <2>3. SetTop(t, [Top(t) EXCEPT !.stage = "embed", !.i = k])
    BY <1>6, <2>2
  <2>. QED
    BY <1>0, <1>6, <2>1, <2>3, AdvanceStep
<1>. QED
  BY <1>3, <1>4, <1>5, <1>6 DEF Open

LEMMA EmbedStep == ASSUME IInv, NEW t \in Threads, Embed(t) PROVE IInv'
<1>0. /\ depth[t] > 0
      /\ Top(t).stage = "embed"
      /\ UNCHANGED <<tables, shutdowns, embedding, error, state, reported, calls,
                     alive, ended>>
  BY DEF Embed, At
<1>1. Top(t) \in Frame /\ Top(t).i = 1
  BY <1>0, Running DEF FrameInv
<1>2. ASSUME NEW s \in {"embedding", "depend"}, SetTop(t, [Top(t) EXCEPT !.stage = s])
      PROVE  IInv'
  <2>1. PICK k \in Nat \ {0} : k = 1
    OBVIOUS
  <2>2. [Top(t) EXCEPT !.stage = s] = [Top(t) EXCEPT !.stage = s, !.i = k]
    BY <1>1, <2>1 DEF Frame
  <2>3. SetTop(t, [Top(t) EXCEPT !.stage = s, !.i = k])
    BY <1>2, <2>2
  <2>. QED
    BY <1>0, <2>1, <2>3, AdvanceStep
<1>. QED
  BY <1>2 DEF Embed

LEMMA LoadEmbeddedStep == ASSUME IInv, NEW t \in Threads, LoadEmbedded(t) PROVE IInv'
<1>. DEFINE g == Top(t)
<1>0. /\ depth[t] > 0
      /\ g.stage = "embedding"
      /\ UNCHANGED <<tables, shutdowns, embedding, error, state, reported, calls,
                     alive, ended>>
  BY DEF LoadEmbedded, At
<1>1. g \in Frame /\ g.image \in Images
  BY <1>0, Running DEF FrameInv
<1>2. CASE /\ g.i <= Len(Embedded[g.image])
           /\ Push(t, ByStream(None, Embedded[g.image][g.i]))
           /\ UNCHANGED answer
  <2>1. Embedded[g.image] \in Seq(Images)
    BY <1>1, CatalogueAssumption
  <2>2. PICK m : m = Embedded[g.image][g.i]
    OBVIOUS
  <2>3. m \in Images
    BY <1>1, <1>2, <2>1, <2>2 DEF Frame
  <2>4. PICK f : f = ByStream(None, m)
    OBVIOUS
  <2>5. f \in Frame /\ f.stage = "open" /\ f.name = None /\ f.image = m /\ f.i = 1
    BY <2>3, <2>4, ByStreamType DEF ByStream, FreeFrame
  <2>6. FrameInv(t, f)'
    BY <2>3, <2>5 DEF FrameInv
  <2>7. LinkInv(g, f)
    BY <1>0 DEF LinkInv
  <2>. QED
    BY <1>0, <1>2, <2>2, <2>4, <2>5, <2>6, <2>7, EnterStep
<1>3. CASE g.i > Len(Embedded[g.image]) /\ SetTop(t, [g EXCEPT !.stage = "depend", !.i = 1])
  <2>1. PICK k \in Nat \ {0} : k = 1
    OBVIOUS
  <2>2. SetTop(t, [g EXCEPT !.stage = "depend", !.i = k])
    BY <1>3, <2>1
  <2>. QED
    BY <1>0, <2>1, <2>2, AdvanceStep
<1>. QED
  BY <1>2, <1>3 DEF LoadEmbedded

LEMMA LoadDependencyStep == ASSUME IInv, NEW t \in Threads, LoadDependency(t) PROVE IInv'
<1>. DEFINE g == Top(t)
<1>0. /\ depth[t] > 0
      /\ g.stage = "depend"
      /\ UNCHANGED <<tables, shutdowns, embedding, error, state, reported, calls,
                     alive, ended>>
  BY DEF LoadDependency, At
<1>1. /\ g \in Frame /\ g.image \in Images /\ g.i \in Nat \ {0}
      /\ \A k \in 1 .. Len(DependsOn[g.image]) :
            k < g.i => Provider(DependsOn[g.image][k]) # Null
  BY <1>0, Running DEF FrameInv, Frame
<1>2. CASE /\ g.i <= Len(DependsOn[g.image])
           /\ Push(t, ByName(DependsOn[g.image][g.i]))
           /\ UNCHANGED answer
  <2>1. g.i \in 1 .. Len(DependsOn[g.image])
    BY <1>1, <1>2, DependencyNames
  <2>2. PICK n : n = DependsOn[g.image][g.i]
    OBVIOUS
  <2>3. n \in Names
    BY <1>1, <2>1, <2>2, DependencyNames
  <2>4. PICK f : f = ByName(n)
    OBVIOUS
  <2>5. f \in Frame /\ f.stage = "lookup" /\ f.name = n /\ f.image = None
    BY <2>3, <2>4, ByNameType DEF ByName, FreeFrame
  <2>6. FrameInv(t, f)'
    BY <2>3, <2>5 DEF FrameInv
  <2>7. LinkInv(g, f)
    BY <1>0, <2>1, <2>2, <2>5 DEF LinkInv
  <2>. QED
    BY <1>0, <1>2, <2>2, <2>4, <2>5, <2>6, <2>7, EnterStep
<1>3. CASE g.i > Len(DependsOn[g.image]) /\ SetTop(t, [g EXCEPT !.stage = "version"])
  <2>1. Served(g.image)
    BY <1>1, <1>3, DependencyNames DEF Served, Dependencies
  <2>2. [g EXCEPT !.stage = "version"] = [g EXCEPT !.stage = "version", !.i = g.i]
    BY <1>1 DEF Frame
  <2>3. SetTop(t, [g EXCEPT !.stage = "version", !.i = g.i])
    BY <1>3, <2>2
  <2>. QED
    BY <1>0, <1>1, <2>1, <2>3, AdvanceStep
<1>. QED
  BY <1>2, <1>3 DEF LoadDependency

LEMMA CheckVersionsStep == ASSUME IInv, NEW t \in Threads, CheckVersions(t) PROVE IInv'
<1>. DEFINE g == Top(t)
            refused == {n \in Needs[g.image] : ~Accepts(g.image, n)}
<1>0. /\ depth[t] > 0
      /\ g.stage = "version"
      /\ UNCHANGED <<tables, shutdowns, embedding, state, calls, alive, ended>>
  BY DEF CheckVersions, At
<1>1. g \in Frame /\ g.image \in Images /\ g.i \in Nat \ {0} /\ Served(g.image)
  BY <1>0, Running DEF FrameInv, Frame
<1>2. CASE Fail(t, "InvalidImageFormat") \/ Fail(t, "ModuleVersionMismatch")
  BY <1>0, <1>2, FailStep DEF Errors
<1>3. CASE /\ refused = {}
           /\ SetTop(t, [g EXCEPT !.stage = "link"])
           /\ UNCHANGED <<error, reported>>
  <2>1. \A r \in Needs[g.image] : Accepts(g.image, r)
    BY <1>3
  <2>2. [g EXCEPT !.stage = "link"] = [g EXCEPT !.stage = "link", !.i = g.i]
    BY <1>1 DEF Frame
  <2>3. SetTop(t, [g EXCEPT !.stage = "link", !.i = g.i])
    BY <1>3, <2>2
  <2>. QED
    BY <1>0, <1>1, <1>3, <2>1, <2>3, AdvanceStep
<1>. QED
  BY <1>2, <1>3 DEF CheckVersions

LEMMA UnwindStep == ASSUME IInv, NEW t \in Threads, Unwind(t) PROVE IInv'
<1>0. /\ depth[t] > 0
      /\ Top(t).stage = "unwind"
      /\ Return(t, Null)
      /\ UNCHANGED <<tables, shutdowns, embedding, error, state, reported, calls,
                     alive, ended>>
  BY DEF Unwind, At
<1>1. reported[t]
  BY <1>0, Running DEF FrameInv
<1>. QED
  BY <1>0, <1>1, LeaveStep

-----------------------------------------------------------------------------
(* The steps that change the tables or the states of objects.              *)

(* What registering object o under image m does to the tables.             *)
LEMMA RegisterTables ==
    ASSUME IInv, NEW m \in Images, NEW o \in Objects, o = created + 1, Register(m, o)
    PROVE  /\ modules' \in [Names -> Objects \cup {Null}]
           /\ system' \in [Symbols -> Objects \cup {Null}]
           /\ image' \in [Objects -> Images \cup {None}]
           /\ created' \in 0 .. MaxObjects
           /\ state' \in [Objects -> States]
           /\ shutdowns' \subseteq Symbols
           /\ \A s \in Symbols : system'[s] = IF s \in Local(m) THEN o ELSE system[s]
           /\ \A n \in Names : modules'[n] =
                 IF modules[n] = Null /\ n = ImportName[m] THEN o ELSE modules[n]
           /\ \A p \in Objects : image'[p] = IF p = o THEN m ELSE image[p]
           /\ \A p \in Objects : state'[p] = IF p = o THEN "initializing" ELSE state[p]
<1>1. TypeOK /\ ImportName[m] \in Names
  BY DependencyNames DEF IInv
<1>2. created' \in 0 .. MaxObjects
  BY BoundAssumption DEF Register, Objects
<1>3. /\ modules' \in [Names -> Objects \cup {Null}]
      /\ \A n \in Names : modules'[n] =
                 IF modules[n] = Null /\ n = ImportName[m] THEN o ELSE modules[n]
  BY <1>1 DEF TypeOK, Register, Append1
<1>4. /\ system' \in [Symbols -> Objects \cup {Null}]
      /\ \A s \in Symbols : system'[s] = IF s \in Local(m) THEN o ELSE system[s]
  BY <1>1 DEF TypeOK, Register
<1>5. /\ image' \in [Objects -> Images \cup {None}]
      /\ state' \in [Objects -> States]
      /\ shutdowns' \subseteq Symbols
      /\ \A p \in Objects : image'[p] = IF p = o THEN m ELSE image[p]
      /\ \A p \in Objects : state'[p] = IF p = o THEN "initializing" ELSE state[p]
  BY <1>1, CatalogueAssumption DEF TypeOK, Register, States
<1>. QED
  BY <1>2, <1>3, <1>4, <1>5

(* A registration keeps the table's own invariants: the new module's       *)
(* dependencies and required versions were established before, and what    *)
(* was established stays.                                                  *)
LEMMA RegisterInv ==
    ASSUME IInv, NEW m \in Images, NEW o \in Objects, o = created + 1, Register(m, o),
           Served(m), \A r \in Needs[m] : Accepts(m, r), reported' = reported
    PROVE  Growth /\ ObjectsInv' /\ EntriesInv' /\ DependencyClosed' /\ VersionsMet'
<1>0. TypeOK /\ ObjectsInv /\ EntriesInv /\ DependencyClosed /\ VersionsMet
  BY DEF IInv
<1>1. created \in Nat /\ created' = created + 1
  BY <1>0 DEF TypeOK, Register
<1>2. /\ \A n \in Names : modules'[n] =
                 IF modules[n] = Null /\ n = ImportName[m] THEN o ELSE modules[n]
      /\ \A p \in Objects : image'[p] = IF p = o THEN m ELSE image[p]
      /\ \A p \in Objects : state'[p] = IF p = o THEN "initializing" ELSE state[p]
      /\ \A s \in Symbols : system'[s] = IF s \in Local(m) THEN o ELSE system[s]
  BY RegisterTables
<1>3. Growth
  <2>1. \A p \in 1 .. created : p \in Objects /\ p # o
    BY <1>0, <1>1, BoundAssumption DEF TypeOK, Objects
  <2>. QED
    BY <1>1, <1>2, <2>1 DEF Growth
<1>4. ObjectsInv'
  <2>1. ASSUME NEW p \in Objects
        PROVE  /\ image'[p] # None <=> p <= created'
               /\ state'[p] = "absent" <=> p > created'
    <3>1. p \in Nat /\ m # None
      BY CatalogueAssumption DEF Objects
    <3>. QED
      BY <1>0, <1>1, <1>2, <3>1 DEF ObjectsInv
  <2>. QED
    BY <2>1 DEF ObjectsInv
<1>5. EntriesInv'
  <2>1. ASSUME NEW n \in Names, modules'[n] # Null
        PROVE  modules'[n] <= created' /\ ImportName[image'[modules'[n]]] = n
    <3>1. CASE modules[n] = Null /\ n = ImportName[m]
      BY <1>1, <1>2, <3>1
    <3>2. CASE modules[n] # Null
      <4>1. modules[n] \in 1 .. created /\ ImportName[image[modules[n]]] = n
        BY <1>0, <3>2 DEF EntriesInv, TypeOK, Objects
      <4>. QED
        BY <1>1, <1>3, <3>2, <4>1 DEF Growth
    <3>. QED
      BY <1>2, <2>1, <3>1, <3>2
  <2>2. ASSUME NEW s \in Symbols, system'[s] # Null
        PROVE  system'[s] <= created'
    <3>1. system[s] # Null => system[s] \in Nat /\ system[s] <= created
      BY <1>0 DEF EntriesInv, TypeOK, Objects
    <3>. QED
      BY <1>1, <1>2, <2>2, <3>1
  <2>. QED
    BY <2>1, <2>2 DEF EntriesInv
<1>6. ASSUME NEW n \in Names, modules'[n] # Null, modules[n] # Null
      PROVE  /\ image'[modules'[n]] = image[modules[n]]
             /\ image[modules[n]] \in Images
  <2>1. modules[n] \in 1 .. created /\ modules[n] \in Objects
    BY <1>0, <1>6 DEF EntriesInv, TypeOK, Objects
  <2>. QED
    BY <1>0, <1>1, <1>3, <1>6, <2>1 DEF Growth, ObjectsInv, TypeOK
<1>7. ASSUME NEW n \in Names, modules'[n] # Null, modules[n] = Null
      PROVE  image'[modules'[n]] = m
  BY <1>2, <1>7
<1>8. DependencyClosed'
  <2>1. ASSUME NEW n \in Names, modules'[n] # Null,
               NEW i, i = image'[modules'[n]], NEW d \in Dependencies(i)
        PROVE  Provider(d)' # Null
    <3>1. i \in Images /\ Provider(d) # Null
      BY <1>0, <1>6, <1>7, <2>1 DEF DependencyClosed, Served
    <3>. QED
      BY <1>0, <1>3, <3>1, ProviderGrowth, DependencyNames
  <2>. QED
    BY <2>1 DEF DependencyClosed, Dependencies
<1>9. VersionsMet'
  <2>1. ASSUME NEW n \in Names, modules'[n] # Null,
               NEW i, i = image'[modules'[n]], NEW r \in Needs[i]
        PROVE  Accepts(i, r)'
    <3>1. i \in Images /\ Accepts(i, r)
      BY <1>0, <1>6, <1>7, <2>1 DEF VersionsMet
    <3>. QED
      BY <1>0, <1>3, <3>1, AcceptsGrowth, DependencyNames
  <2>. QED
    BY <2>1 DEF VersionsMet, Accepts
<1>. QED
  BY <1>3, <1>4, <1>5, <1>8, <1>9

LEMMA LinkStep == ASSUME IInv, NEW t \in Threads, Link(t) PROVE IInv'
<1>. DEFINE g == Top(t)
            m == g.image
<1>0. /\ depth[t] > 0
      /\ g.stage = "link"
      /\ UNCHANGED <<embedding, calls, alive, ended>>
      /\ TypeOK /\ EntriesInv /\ StacksInv /\ AnswersInv /\ ShutdownInv /\ ObjectsInv
  BY DEF Link, At, IInv
<1>1. /\ g \in Frame /\ m \in Images
      /\ g.name # None => Shelf[g.name] = m
      /\ Served(m)
      /\ \A r \in Needs[m] : Accepts(m, r)
      /\ depth[t] \in 1 .. MaxDepth
      /\ alive /\ answer[t] = None
  BY <1>0, Running DEF FrameInv
<1>2. CASE /\ Fail(t, "DefectiveSymbol") \/ Fail(t, "LinkageFailure")
           /\ UNCHANGED <<tables, shutdowns, state>>
  BY <1>0, <1>2, FailStep DEF Errors
<1>3. ASSUME created < MaxObjects, Register(m, created + 1),
             SetTop(t, [g EXCEPT !.stage = "initialize", !.object = created + 1, !.i = 1,
                                 !.todo = Local(m) \cap Initializers[m]]),
             UNCHANGED <<error, reported>>
      PROVE  IInv'
  <2>1. PICK o \in Objects : o = created + 1
    BY <1>0, <1>3, BoundAssumption DEF TypeOK, Objects
  <2>2. PICK f : f = [g EXCEPT !.stage = "initialize", !.object = o, !.i = 1,
                               !.todo = Local(m) \cap Initializers[m]]
    OBVIOUS
  <2>3. /\ f \in Frame /\ f.stage = "initialize" /\ f.object = o
        /\ f.name = g.name /\ f.image = m
    <3>1. "initialize" \in Stages /\ Local(m) \cap Initializers[m] \in SUBSET Symbols
      BY <1>1, CatalogueAssumption DEF Stages
    <3>2. PICK todo \in SUBSET Symbols : todo = Local(m) \cap Initializers[m]
      BY <3>1
    <3>3. f = [g EXCEPT !.stage = "initialize", !.object = o, !.i = 1, !.todo = todo]
      BY <2>2, <3>2
    <3>4. 1 \in Nat \ {0}
      OBVIOUS
    <3>. QED
      BY <1>1, <3>1, <3>3, <3>4 DEF Frame
  <2>4. Register(m, o) /\ SetTop(t, f) /\ reported' = reported
    BY <1>3, <2>1, <2>2
  <2>5. /\ modules' \in [Names -> Objects \cup {Null}]
        /\ system' \in [Symbols -> Objects \cup {Null}]
        /\ image' \in [Objects -> Images \cup {None}]
        /\ created' \in 0 .. MaxObjects
        /\ state' \in [Objects -> States]
        /\ shutdowns' \subseteq Symbols
        /\ \A s \in Symbols : system'[s] = IF s \in Local(m) THEN o ELSE system[s]
        /\ \A n \in Names : modules'[n] =
              IF modules[n] = Null /\ n = ImportName[m] THEN o ELSE modules[n]
        /\ \A p \in Objects : image'[p] = IF p = o THEN m ELSE image[p]
        /\ \A p \in Objects : state'[p] = IF p = o THEN "initializing" ELSE state[p]
    BY <1>1, <2>1, <2>4, RegisterTables
  <2>6. Growth /\ ObjectsInv' /\ EntriesInv' /\ DependencyClosed' /\ VersionsMet'
    BY <1>1, <2>1, <2>4, RegisterInv
  <2>7. TypeOK'
    <3>1. /\ stack' \in [Threads -> [1 .. MaxDepth -> Frame]]
          /\ depth' \in [Threads -> 0 .. MaxDepth]
          /\ answer' \in [Threads -> Objects \cup {Null, None}]
      BY <1>0, <2>3, <2>4, SetTopType
    <3>2. error' \in Errors /\ reported' \in [Threads -> BOOLEAN]
      BY <1>0, <1>3, QuietType
    <3>. QED
      BY <1>0, <2>5, <3>1, <3>2 DEF TypeOK
  <2>8. StacksInv'
    <3>1. o \in 1 .. created'
      BY <2>1, <2>4 DEF Register, Objects
    <3>2. modules'[ImportName[m]] # Null
      <4>1. ImportName[m] \in Names /\ o # Null
        BY <1>1, DependencyNames DEF Objects, Null
      <4>. QED
        BY <2>5, <4>1
    <3>3. image'[o] = m
      BY <2>5
    <3>4. FrameInv(t, f)'
      <4>1. PICK h : h = m
        OBVIOUS
      <4>2. Loaded(h)'
        BY <3>2, <4>1 DEF Loaded
      <4>3. f.image = h /\ image'[o] = h /\ h \in Images
        BY <1>1, <2>3, <3>3, <4>1
      <4>4. f.name # None => Shelf[f.name] = h
        BY <1>1, <2>3, <4>1
      <4>. QED
        BY <2>3, <3>1, <4>2, <4>3, <4>4 DEF FrameInv
    <3>. QED
      BY <1>0, <2>3, <2>4, <2>6, <2>7, <3>4, SetTopStacks
  <2>9. Elsewhere(t) /\ depth' = depth /\ answer' = answer /\ stack'[t][depth[t]] = f
    BY <1>0, <1>1, <2>4 DEF Elsewhere, SetTop, TypeOK
  <2>10. AnswersInv'
    <3>1. answer'[t] = None /\ None \notin Objects /\ None # Null
      BY <1>1, <2>9, CatalogueAssumption DEF Objects, Null
    <3>2. reported[t] => error # "Success"
      BY <1>0 DEF AnswersInv
    <3>. QED
      BY <1>0, <1>3, <2>6, <2>7, <2>9, <3>1, <3>2, AnswersByThread
  <2>11. ShutdownInv'
    <3>1. InitializersStay
      BY <1>0, <2>4, <2>9, SetTopWaiting, InitializersElsewhere
    <3>2. ASSUME NEW s \in shutdowns'
          PROVE  system'[s] # Null /\ state'[system'[s]] \in {"initializing", "ready"}
      <4>1. shutdowns' = shutdowns \cup (Local(m) \cap Finalizers[m])
        BY <2>4 DEF Register
      <4>2. s \in Symbols /\ o # Null
        BY <2>5, <3>2 DEF Objects, Null
      <4>3. CASE s \in Local(m)
        BY <2>5, <4>2, <4>3
      <4>4. CASE s \notin Local(m)
        <5>1. s \in shutdowns /\ system'[s] = system[s]
          BY <2>5, <3>2, <4>1, <4>2, <4>4
        <5>2. system[s] # Null /\ state[system[s]] \in {"initializing", "ready"}
          BY <1>0, <5>1 DEF ShutdownInv
        <5>3. system[s] \in Objects /\ system[s] # o
          BY <1>0, <2>1, <4>2, <5>2 DEF EntriesInv, TypeOK
        <5>. QED
          BY <2>5, <5>1, <5>2, <5>3
      <4>. QED
        BY <4>3, <4>4
    <3>3. ASSUME NEW p \in Objects, state'[p] = "initializing"
          PROVE  \E u \in Threads : \E d \in 1 .. depth'[u] :
                     stack'[u][d].stage = "initialize" /\ stack'[u][d].object = p
      <4>1. CASE p = o
        <5>1. depth[t] \in 1 .. depth'[t]
          BY <1>1, <2>9, BoundAssumption
        <5>. QED
          BY <2>3, <2>9, <4>1, <5>1
      <4>2. CASE p # o
        <5>1. state[p] = "initializing"
          BY <2>5, <3>3, <4>2
        <5>. QED
          BY <1>0, <3>1, <5>1 DEF ShutdownInv, InitializersStay
      <4>. QED
        BY <4>1, <4>2
    <3>4. ended' = {} /\ alive'
      BY <1>0, <1>1 DEF ShutdownInv
    <3>. QED
      BY <3>2, <3>3, <3>4 DEF ShutdownInv
  <2>. QED
    BY <2>6, <2>7, <2>8, <2>10, <2>11 DEF IInv
<1>. QED
  BY <1>2, <1>3 DEF Link

(* An object whose initialization ends leaves the stack at the same time;  *)
(* the other objects being initialized are on other stacks or below it.    *)
LEMMA FinishStep ==
    ASSUME IInv, NEW t \in Threads, depth[t] > 0, Top(t).stage = "initialize",
           NEW o, o = Top(t).object, NEW v \in {Null, o}, Return(t, v),
           UNCHANGED <<error, reported>> \/ \E e \in Errors \ {"Success"} : Report(t, e),
           v = Null => reported'[t],
           NEW s \in {"ready", "failed"}, state' = [state EXCEPT ![o] = s],
           shutdowns' \subseteq shutdowns,
           \A r \in shutdowns' : system[r] = o => s = "ready",
           UNCHANGED <<tables, embedding, calls, alive, ended>>
    PROVE  IInv'
<1>0. TypeOK /\ EntriesInv /\ StacksInv /\ AnswersInv /\ ShutdownInv /\ ObjectsInv
  BY DEF IInv
<1>1. /\ o \in 1 .. created /\ o \in Objects
      /\ image[o] = Top(t).image /\ Top(t).image \in Images /\ Loaded(Top(t).image)
      /\ Top(t).name # None => Shelf[Top(t).name] = Top(t).image
      /\ alive /\ answer[t] = None
  BY <1>0, Running, BoundAssumption DEF FrameInv, TypeOK, Objects
<1>2. /\ state' \in [Objects -> States]
      /\ \A p \in Objects : state'[p] = IF p = o THEN s ELSE state[p]
  BY <1>0, <1>1 DEF TypeOK, States
<1>3. v \in Objects \cup {Null}
  BY <1>1
<1>4. TypeOK'
  <2>1. /\ stack' \in [Threads -> [1 .. MaxDepth -> Frame]]
        /\ depth' \in [Threads -> 0 .. MaxDepth]
        /\ answer' \in [Threads -> Objects \cup {Null, None}]
    BY <1>0, <1>3, ReturnType
  <2>2. error' \in Errors /\ reported' \in [Threads -> BOOLEAN]
    BY <1>0, ReportOthers
  <2>. QED
    BY <1>0, <1>2, <2>1, <2>2 DEF TypeOK, tables
<1>5. Growth
  BY <1>0, TablesGrowth, ReportOthers
<1>6. StacksInv'
  <2>1. PICK n : n = Top(t).name
    OBVIOUS
  <2>2. PICK m : m = Top(t).image
    OBVIOUS
  <2>3. /\ modules[ImportName[m]] # Null /\ m # None
        /\ n # None => Shelf[n] = m
    BY <1>1, <2>1, <2>2, CatalogueAssumption DEF Loaded
  <2>4. n # None => Provider(n)' # Null
    BY <2>3 DEF Provider, tables
  <2>. QED
    BY <1>0, <1>3, <1>4, <1>5, <2>1, <2>4, ReturnStacks
<1>7. /\ answer'[t] = IF depth[t] = 1 THEN v ELSE None
      /\ \A u \in Threads : u # t => answer'[u] = answer[u]
      /\ answer'[t] # None => depth'[t] = 0
      /\ Elsewhere(t)
  BY <1>0, <1>1, ReturnAnswer
<1>8. AnswersInv'
  <2>1. answer'[t] \in Objects =>
            answer'[t] <= created' /\ modules'[ImportName[image'[answer'[t]]]] # Null
    BY <1>1, <1>7, CatalogueAssumption DEF Objects, Null, Loaded, tables
  <2>2. answer'[t] = Null => reported'[t]
    BY <1>7, CatalogueAssumption DEF Null
  <2>3. /\ \A u \in Threads : u # t => reported'[u] = reported[u]
        /\ error # "Success" => error' # "Success"
        /\ reported'[t] => error' # "Success"
    BY <1>0, ReportOthers DEF AnswersInv
  <2>. QED
    BY <1>0, <1>4, <1>5, <1>7, <2>1, <2>2, <2>3, AnswersByThread
<1>9. ShutdownInv'
  <2>1. ASSUME NEW r \in shutdowns'
        PROVE  system'[r] # Null /\ state'[system'[r]] \in {"initializing", "ready"}
    <3>1. r \in shutdowns /\ r \in Symbols /\ system'[r] = system[r]
      BY <1>0, <2>1 DEF TypeOK, tables
    <3>2. system[r] # Null /\ state[system[r]] \in {"initializing", "ready"}
      BY <1>0, <3>1 DEF ShutdownInv
    <3>3. system[r] \in Objects
      BY <1>0, <3>1, <3>2 DEF TypeOK
    <3>. QED
      BY <1>2, <2>1, <3>1, <3>2, <3>3
  <2>2. ASSUME NEW p \in Objects, state'[p] = "initializing"
        PROVE  \E u \in Threads : \E d \in 1 .. depth'[u] :
                   stack'[u][d].stage = "initialize" /\ stack'[u][d].object = p
    <3>1. p # o /\ state[p] = "initializing"
      BY <1>2, <2>2
    <3>2. PICK u \in Threads : \E d \in 1 .. depth[u] :
               stack[u][d].stage = "initialize" /\ stack[u][d].object = p
      BY <1>0, <3>1 DEF ShutdownInv
    <3>3. CASE u # t
      BY <1>7, <3>2, <3>3 DEF Elsewhere
    <3>4. CASE u = t
      <4>0. PICK d \in 1 .. depth[u] : stack[u][d].stage = "initialize" /\ stack[u][d].object = p
        BY <3>2
      <4>1. depth[t] \in Nat /\ d # depth[t]
        BY <1>0, <3>1, <3>4, <4>0 DEF Top, TypeOK
      <4>2. d \in 1 .. depth[t] /\ d < depth[t]
        BY <3>4, <4>1
      <4>3. WaitingStay(t)
        BY <1>0, ReturnWaiting
      <4>. QED
        BY <3>4, <4>0, <4>2, <4>3 DEF WaitingStay
    <3>. QED
      BY <3>3, <3>4
  <2>3. ended' = {} /\ alive'
    BY <1>0, <1>1 DEF ShutdownInv
  <2>. QED
    BY <2>1, <2>2, <2>3 DEF ShutdownInv
<1>10. ObjectsInv'
  <2>1. \A p \in Objects : state'[p] = "absent" <=> state[p] = "absent"
    BY <1>0, <1>1, <1>2 DEF ObjectsInv, TypeOK, Objects
  <2>. QED
    BY <1>0, <2>1 DEF ObjectsInv, tables
<1>11. EntriesInv' /\ DependencyClosed' /\ VersionsMet'
  BY DEF IInv, EntriesInv, DependencyClosed, VersionsMet, Provider, Accepts, tables
<1>. QED
  BY <1>4, <1>6, <1>8, <1>9, <1>10, <1>11 DEF IInv

LEMMA InitializeStep == ASSUME IInv, NEW t \in Threads, Initialize(t) PROVE IInv'
<1>. DEFINE g == Top(t)
<1>0. /\ depth[t] > 0
      /\ g.stage = "initialize"
      /\ UNCHANGED <<tables, embedding, calls, alive, ended>>
  BY DEF Initialize, At
<1>1. ASSUME NEW r \in g.todo, SetTop(t, [g EXCEPT !.todo = @ \ {r}]),
             UNCHANGED <<shutdowns, state, error, reported>>
      PROVE  IInv'
  <2>1. PICK h : h = g
    OBVIOUS
  <2>2. h \in Frame /\ FrameInv(t, h) /\ h.stage = "initialize"
    BY <1>0, <2>1, Running
  <2>3. PICK f : f = [h EXCEPT !.todo = @ \ {r}]
    OBVIOUS
  <2>4. f \in Frame
    <3>1. h.todo \ {r} \in SUBSET Symbols
      BY <2>2 DEF Frame
    <3>. QED
      BY <2>2, <2>3, <3>1 DEF Frame
  <2>5. /\ f.stage = "initialize" /\ f.object = h.object
        /\ f.name = h.name /\ f.image = h.image
    BY <2>2, <2>3 DEF Frame
  <2>6. FrameInv(t, f)'
    <3>1. /\ h.object \in 1 .. created /\ image[h.object] = h.image
          /\ modules[ImportName[h.image]] # Null /\ h.image \in Images
          /\ h.name # None => Shelf[h.name] = h.image
      BY <2>2 DEF FrameInv, Loaded
    <3>. QED
      BY <1>0, <2>5, <3>1 DEF FrameInv, Loaded, tables
  <2>7. SetTop(t, f) /\ f.name = g.name /\ f.object = g.object
    BY <1>1, <2>1, <2>3, <2>5
  <2>. QED
    BY <1>0, <1>1, <2>4, <2>5, <2>6, <2>7, MoveStep
<1>2. CASE /\ shutdowns' = shutdowns \ Registered(g.object)
           /\ state' = [state EXCEPT ![g.object] = "failed"]
           /\ Fail(t, "InitializationFailure")
  <2>1. PICK o : o = g.object
    OBVIOUS
  <2>2. PICK v : v = Null
    OBVIOUS
  <2>3. /\ Return(t, v) /\ reported'[t]
        /\ \E e \in Errors \ {"Success"} : Report(t, e)
    BY <1>2, <2>2 DEF Fail, Report, Errors, IInv, TypeOK
  <2>4. PICK s \in {"ready", "failed"} : s = "failed"
    OBVIOUS
  <2>5. /\ state' = [state EXCEPT ![o] = s]
        /\ shutdowns' \subseteq shutdowns
        /\ \A r \in shutdowns' : system[r] # o
    BY <1>2, <2>1, <2>4 DEF Registered, IInv, TypeOK
  <2>. QED
    BY <1>0, <2>1, <2>2, <2>3, <2>5, FinishStep
<1>. QED
  BY <1>1, <1>2 DEF Initialize

LEMMA LoadFromInitializerStep ==
    ASSUME IInv, NEW t \in Threads, LoadFromInitializer(t) PROVE IInv'
<1>. DEFINE g == Top(t)
<1>0. /\ depth[t] > 0
      /\ g.stage = "initialize"
      /\ g.i <= Len(Asks[g.image])
      /\ Push(t, ByStream(None, Asks[g.image][g.i]))
      /\ UNCHANGED <<tables, shutdowns, embedding, error, state, answer, reported, calls,
                     alive, ended>>
  BY DEF LoadFromInitializer, At
<1>1. g \in Frame /\ g.image \in Images
  BY <1>0, Running DEF FrameInv
<1>2. Asks[g.image] \in Seq(Images)
  BY <1>1, CatalogueAssumption
<1>3. PICK m : m = Asks[g.image][g.i]
  OBVIOUS
<1>4. m \in Images
  BY <1>0, <1>1, <1>2, <1>3 DEF Frame
<1>5. PICK f : f = ByStream(None, m)
  OBVIOUS
<1>6. f \in Frame /\ f.stage = "open" /\ f.name = None /\ f.image = m /\ f.i = 1
  BY <1>4, <1>5, ByStreamType DEF ByStream, FreeFrame
<1>7. FrameInv(t, f)'
  BY <1>4, <1>6 DEF FrameInv
<1>8. LinkInv(g, f)
  BY <1>0 DEF LinkInv
<1>. QED
  BY <1>0, <1>3, <1>5, <1>6, <1>7, <1>8, EnterStep

LEMMA CompleteStep == ASSUME IInv, NEW t \in Threads, Complete(t) PROVE IInv'
<1>. DEFINE g == Top(t)
<1>0. /\ depth[t] > 0
      /\ g.stage = "initialize"
      /\ state' = [state EXCEPT ![g.object] = "ready"]
      /\ Return(t, g.object)
      /\ UNCHANGED <<tables, shutdowns, embedding, error, reported, calls, alive, ended>>
  BY DEF Complete, At
<1>1. PICK o : o = g.object
  OBVIOUS
<1>2. o # Null
  BY <1>0, <1>1, Running DEF FrameInv, Null
<1>3. PICK s \in {"ready", "failed"} : s = "ready"
  OBVIOUS
<1>4. state' = [state EXCEPT ![o] = s] /\ Return(t, o)
  BY <1>0, <1>1, <1>3
<1>. QED
  BY <1>0, <1>1, <1>2, <1>3, <1>4, FinishStep

-----------------------------------------------------------------------------
(* What the program does.                                                  *)

LEMMA FrameStays ==
    ASSUME UNCHANGED tables, NEW u \in Threads, NEW f, FrameInv(u, f),
           reported'[u] = reported[u]
    PROVE  FrameInv(u, f)'
<1>1. \A m : Served(m)' <=> Served(m)
  BY DEF Served, Provider, tables
<1>2. \A m, r : Accepts(m, r)' <=> Accepts(m, r)
  BY DEF Accepts, tables
<1>3. \A m : Loaded(m)' <=> Loaded(m)
  BY DEF Loaded, tables
<1>4. \A d : Provider(d)' = Provider(d)
  BY DEF Provider, tables
<1>5. UNCHANGED <<image, created>>
  BY DEF tables
<1>. QED
  BY <1>1, <1>2, <1>3, <1>4, <1>5 DEF FrameInv

LEMMA ThreadStays ==
    ASSUME StacksInv, UNCHANGED tables, NEW u \in Threads,
           stack'[u] = stack[u], depth'[u] = depth[u], reported'[u] = reported[u]
    PROVE  /\ (\A d \in 1 .. depth[u] : FrameInv(u, stack[u][d]))'
           /\ (\A d \in 1 .. depth[u] :
                  d < depth[u] => LinkInv(stack[u][d], stack[u][d + 1]))'
<1>1. ASSUME NEW d \in 1 .. depth'[u] PROVE FrameInv(u, stack[u][d])'
  <2>1. PICK f : f = stack[u][d]
    OBVIOUS
  <2>2. FrameInv(u, f)
    BY <2>1 DEF StacksInv
  <2>3. FrameInv(u, f)'
    BY <2>2, FrameStays
  <2>. QED
    BY <2>1, <2>3
<1>. QED
  BY <1>1 DEF StacksInv, LinkInv

LEMMA StacksStay ==
    ASSUME StacksInv, UNCHANGED <<tables, stack, depth, reported>>
    PROVE  StacksInv'
<1>1. ASSUME NEW u \in Threads
      PROVE  /\ (\A d \in 1 .. depth[u] : FrameInv(u, stack[u][d]))'
             /\ (\A d \in 1 .. depth[u] :
                    d < depth[u] => LinkInv(stack[u][d], stack[u][d + 1]))'
  BY ThreadStays
<1>. QED
  BY <1>1 DEF StacksInv

LEMMA BeginStep ==
    ASSUME IInv, NEW t \in Threads, NEW f \in Frame, Begin(t, f), FrameInv(t, f)',
           TypeOK'
    PROVE  IInv'
<1>0. /\ TypeOK /\ EntriesInv /\ StacksInv /\ AnswersInv /\ ShutdownInv /\ ObjectsInv
      /\ alive /\ depth[t] = 0 /\ Push(t, f)
      /\ answer' = [answer EXCEPT ![t] = None]
      /\ reported' = [reported EXCEPT ![t] = FALSE]
      /\ UNCHANGED <<tables, shutdowns, embedding, error, state, alive, ended>>
  BY DEF IInv, Begin
<1>1. /\ \A u \in Threads : u # t => answer'[u] = answer[u] /\ reported'[u] = reported[u]
      /\ answer'[t] = None /\ ~reported'[t]
  BY <1>0 DEF TypeOK
<1>2. Elsewhere(t)
  BY <1>0 DEF Elsewhere, Push, TypeOK
<1>3. AnswersInv'
  <2>1. None \notin Objects /\ None # Null
    BY CatalogueAssumption DEF Objects, Null
  <2>2. ASSUME NEW u \in Threads
        PROVE  /\ answer'[u] # None => depth'[u] = 0
               /\ answer'[u] \in Objects => answer'[u] <= created /\ Loaded(image[answer'[u]])
               /\ answer'[u] = Null => reported'[u]
               /\ reported'[u] => error # "Success"
    BY <1>0, <1>1, <1>2, <2>1 DEF AnswersInv, Elsewhere
  <2>. QED
    BY <1>0, <2>2 DEF AnswersInv, Loaded, tables
<1>4. ShutdownInv'
  <2>0. WaitingStay(t)
    BY <1>0 DEF WaitingStay
  <2>1. InitializersStay
    BY <1>0, <1>2, <2>0, InitializersElsewhere
  <2>. QED
    BY <1>0, <2>1, ShutdownStays
<1>5. ObjectsInv' /\ EntriesInv' /\ DependencyClosed' /\ VersionsMet'
  BY <1>0, TablesStay
<1>6. StacksInv'
  <2>0. depth[t] + 1 = 1 /\ 1 \in 1 .. MaxDepth
    BY <1>0, BoundAssumption DEF Push
  <2>1. depth'[t] = 1 /\ stack'[t][1] = f
    BY <1>0, <2>0 DEF Push, TypeOK
  <2>2. ASSUME NEW u \in Threads, u # t
        PROVE  /\ (\A d \in 1 .. depth[u] : FrameInv(u, stack[u][d]))'
               /\ (\A d \in 1 .. depth[u] :
                      d < depth[u] => LinkInv(stack[u][d], stack[u][d + 1]))'
    <3>1. stack'[u] = stack[u] /\ depth'[u] = depth[u] /\ reported'[u] = reported[u]
      BY <1>1, <1>2, <2>2 DEF Elsewhere
    <3>. QED
      BY <1>0, <3>1, ThreadStays
  <2>3. \A d \in 1 .. depth'[t] : d = 1
    BY <2>1
  <2>. QED
    BY <2>1, <2>2, <2>3 DEF StacksInv
<1>. QED
  BY <1>0, <1>3, <1>4, <1>5, <1>6 DEF IInv

LEMMA ProgramStep == ASSUME IInv, Program PROVE IInv'
<1>0. TypeOK'
  BY ProgramType DEF IInv
<1>1. ASSUME NEW allow \in BOOLEAN, AllowEmbeddedModules(allow) PROVE IInv'
  <2>1. UNCHANGED <<tables, thread, shutdowns, state, error, reported, alive, ended>>
    BY <1>1 DEF AllowEmbeddedModules
  <2>2. ObjectsInv' /\ EntriesInv' /\ DependencyClosed' /\ VersionsMet'
    BY <2>1, TablesStay
  <2>3. StacksInv'
    BY <2>1, StacksStay DEF IInv, thread
  <2>4. AnswersInv' /\ ShutdownInv'
    BY <2>1 DEF IInv, AnswersInv, ShutdownInv, Loaded, tables, thread
  <2>. QED
    BY <1>0, <2>2, <2>3, <2>4 DEF IInv
<1>2. ASSUME NEW t \in Threads, NEW n \in Names, LoadModuleByName(t, n) PROVE IInv'
  <2>1. PICK f : f = ByName(n)
    OBVIOUS
  <2>2. f \in Frame /\ f.stage = "lookup" /\ f.name = n /\ f.image = None
    BY <2>1, ByNameType DEF ByName, FreeFrame
  <2>3. FrameInv(t, f)'
    BY <2>2 DEF FrameInv
  <2>. QED
    BY <1>0, <1>2, <2>1, <2>2, <2>3, BeginStep DEF LoadModuleByName
<1>3. ASSUME NEW t \in Threads, NEW m \in Images, LoadModuleByStream(t, m) PROVE IInv'
  <2>1. PICK f : f = ByStream(None, m)
    OBVIOUS
  <2>2. f \in Frame /\ f.stage = "open" /\ f.name = None /\ f.image = m /\ f.i = 1
    BY <2>1, ByStreamType DEF ByStream, FreeFrame
  <2>3. FrameInv(t, f)'
    BY <2>2 DEF FrameInv
  <2>. QED
    BY <1>0, <1>3, <2>1, <2>2, <2>3, BeginStep DEF LoadModuleByStream
<1>4. ASSUME Destroy PROVE IInv'
  <2>1. /\ UNCHANGED <<tables, thread, shutdowns, state, error, reported, ended>>
        /\ \A t \in Threads : depth[t] = 0
        /\ alive /\ ~alive'
    BY <1>4 DEF Destroy
  <2>2. ObjectsInv' /\ EntriesInv' /\ DependencyClosed' /\ VersionsMet'
    BY <2>1, TablesStay
  <2>3. StacksInv'
    BY <2>1, StacksStay DEF IInv, thread
  <2>4. AnswersInv' /\ ShutdownInv'
    BY <2>1 DEF IInv, AnswersInv, ShutdownInv, Loaded, tables, thread
  <2>. QED
    BY <1>0, <2>2, <2>3, <2>4 DEF IInv
<1>. QED
  BY <1>1, <1>2, <1>3, <1>4 DEF Program

LEMMA ShutdownStep == ASSUME IInv, NEW s \in Symbols, Shutdown(s) PROVE IInv'
<1>1. /\ UNCHANGED <<tables, thread, shutdowns, embedding, state, error, reported,
                     calls, alive>>
      /\ ~alive /\ s \in shutdowns /\ ended' = ended \cup {s}
  BY DEF Shutdown
<1>2. TypeOK'
  BY <1>1 DEF IInv, TypeOK, tables, thread
<1>3. ObjectsInv' /\ EntriesInv' /\ DependencyClosed' /\ VersionsMet'
  BY <1>1, TablesStay
<1>4. StacksInv'
  BY <1>1, StacksStay DEF IInv, thread
<1>5. AnswersInv' /\ ShutdownInv'
  BY <1>1 DEF IInv, AnswersInv, ShutdownInv, Loaded, tables, thread
<1>. QED
  BY <1>2, <1>3, <1>4, <1>5 DEF IInv

-----------------------------------------------------------------------------
(* The invariant and what follows from it.                                 *)

LEMMA InitInv == Init => IInv
<1>. SUFFICES ASSUME Init PROVE IInv
  OBVIOUS
<1>1. TypeOK
  BY InitType
<1>2. ObjectsInv
  BY DEF Init, ObjectsInv, Objects
<1>3. EntriesInv /\ DependencyClosed /\ VersionsMet
  BY DEF Init, EntriesInv, DependencyClosed, VersionsMet
<1>4. StacksInv
  <2>1. \A t \in Threads : depth[t] = 0
    BY DEF Init
  <2>2. \A d \in 1 .. 0 : FALSE
    OBVIOUS
  <2>. QED
    BY <2>1, <2>2 DEF StacksInv
<1>5. AnswersInv
  <2>1. None \notin Objects /\ None # Null
    BY CatalogueAssumption DEF Objects, Null
  <2>2. \A t \in Threads : answer[t] = None /\ ~reported[t]
    BY DEF Init
  <2>. QED
    BY <2>1, <2>2 DEF AnswersInv
<1>6. ShutdownInv
  BY DEF Init, ShutdownInv
<1>. QED
  BY <1>1, <1>2, <1>3, <1>4, <1>5, <1>6 DEF IInv

LEMMA StutterStep == ASSUME IInv, UNCHANGED vars PROVE IInv'
<1>. USE DEF vars
<1>1. TypeOK'
  BY DEF IInv, TypeOK
<1>2. UNCHANGED tables
  BY DEF tables
<1>3. ObjectsInv' /\ EntriesInv' /\ DependencyClosed' /\ VersionsMet'
  BY <1>2, TablesStay
<1>4. StacksInv'
  BY <1>2, StacksStay DEF IInv
<1>5. AnswersInv' /\ ShutdownInv'
  BY DEF IInv, AnswersInv, ShutdownInv, Loaded
<1>. QED
  BY <1>1, <1>3, <1>4, <1>5 DEF IInv

LEMMA NextInv == IInv /\ [Next]_vars => IInv'
<1>. SUFFICES ASSUME IInv, [Next]_vars PROVE IInv'
  OBVIOUS
<1>1. CASE Program
  BY <1>1, ProgramStep
<1>2. ASSUME NEW t \in Threads, Step(t) PROVE IInv'
  BY <1>2, LookupStep, OpenStep, EmbedStep, LoadEmbeddedStep, LoadDependencyStep,
     CheckVersionsStep, LinkStep, InitializeStep, LoadFromInitializerStep, CompleteStep,
     UnwindStep DEF Step
<1>3. ASSUME NEW s \in Symbols, Shutdown(s) PROVE IInv'
  BY <1>3, ShutdownStep
<1>4. CASE UNCHANGED vars
  BY <1>4, StutterStep
<1>. QED
  BY <1>1, <1>2, <1>3, <1>4 DEF Next

(* Every state the loader reaches, for any catalogue and any number of     *)
(* threads, satisfies the inductive invariant: each activation of          *)
(* LoadModule can rely on what it established in earlier critical          *)
(* sections, whatever the other threads did to the tables in between.      *)
THEOREM Invariance == Spec => []IInv
<1>. QED
  BY InitInv, NextInv, PTL DEF Spec

(* The variables of the loader stay in their types.                        *)
THEOREM TypeCorrect == Spec => []TypeOK
<1>1. IInv => TypeOK
  BY DEF IInv
<1>. QED
  BY <1>1, Invariance, PTL

(* No module gets into the table before the modules it depends on.         *)
THEOREM DependenciesPresent == Spec => []DependencyClosed
<1>1. IInv => DependencyClosed
  BY DEF IInv
<1>. QED
  BY <1>1, Invariance, PTL

(* The version check, made critical sections before the registration, is   *)
(* still good when the module is registered and ever after.                *)
THEOREM VersionsRespected == Spec => []VersionsMet
<1>1. IInv => VersionsMet
  BY DEF IInv
<1>. QED
  BY <1>1, Invariance, PTL

(* A null result is always explained: an error was reported during the     *)
(* call, through all the activations the null passed, and the loader does  *)
(* not claim to be alive.                                                  *)
THEOREM NullExplained == Spec => []FailureReported
<1>1. IInv => FailureReported
  BY DEF IInv, AnswersInv, FailureReported
<1>. QED
  BY <1>1, Invariance, PTL

(* ~ExecutionContext never runs the shutdown routines of a module whose    *)
(* initialization failed or never ended.                                   *)
THEOREM ShutdownSafe == Spec => []ShutdownOnlyReady
<1>1. ASSUME IInv PROVE ShutdownOnlyReady
  <2>1. ASSUME NEW s \in ended PROVE system[s] # Null /\ state[system[s]] = "ready"
    <3>1. /\ system[s] # Null /\ state[system[s]] \in {"initializing", "ready"}
          /\ s \in Symbols /\ ~alive /\ \A t \in Threads : depth[t] = 0
      BY <1>1, <2>1 DEF IInv, ShutdownInv, TypeOK
    <3>2. system[s] \in Objects
      BY <1>1, <3>1 DEF IInv, TypeOK
    <3>3. state[system[s]] # "initializing"
      BY <1>1, <3>1, <3>2 DEF IInv, ShutdownInv
    <3>. QED
      BY <3>1, <3>3
  <2>. QED
    BY <2>1 DEF ShutdownOnlyReady
<1>. QED
  BY <1>1, Invariance, PTL

(* Only the end of a successful link touches the tables.                   *)
LEMMA TablesStep ==
    ASSUME IInv, [Next]_vars
    PROVE  \/ UNCHANGED tables
           \/ \E m \in Images, o \in Objects : o = created + 1 /\ Register(m, o)
<1>1. CASE Program
  BY <1>1 DEF Program, AllowEmbeddedModules, LoadModuleByName, LoadModuleByStream,
              Begin, Destroy
<1>2. ASSUME NEW t \in Threads, Step(t)
      PROVE  \/ UNCHANGED tables
             \/ \E m \in Images, o \in Objects : o = created + 1 /\ Register(m, o)
  <2>1. CASE Link(t)
    <3>1. depth[t] > 0 /\ Top(t).stage = "link"
      BY <2>1 DEF Link, At
    <3>2. Top(t).image \in Images
      BY <3>1, Running DEF FrameInv
    <3>3. CASE created < MaxObjects /\ Register(Top(t).image, created + 1)
      <4>1. created + 1 \in Objects
        BY <3>3, BoundAssumption DEF IInv, TypeOK, Objects
      <4>. QED
        BY <3>2, <3>3, <4>1
    <3>. QED
      BY <2>1, <3>3 DEF Link
  <2>. QED
    BY <1>2, <2>1 DEF Step, Lookup, Open, Embed, LoadEmbedded, LoadDependency,
                      CheckVersions, Initialize, LoadFromInitializer, Complete, Unwind
<1>3. ASSUME NEW s \in Symbols, Shutdown(s) PROVE UNCHANGED tables
  BY <1>3 DEF Shutdown
<1>4. CASE UNCHANGED vars
  BY <1>4 DEF vars, tables
<1>. QED
  BY <1>1, <1>2, <1>3, <1>4 DEF Next

(* A pointer to a module or a symbol, once found in the tables, is found   *)
(* there as long as the context lives.                                     *)
THEOREM TablesGrow == Spec => RegistryGrows
<1>. DEFINE Grows ==
              /\ \A n \in Names : modules[n] # Null => modules'[n] = modules[n]
              /\ \A s \in Symbols : system[s] # Null => system'[s] = system[s]
              /\ \A o \in Objects : image[o] # None => image'[o] = image[o]
<1>1. ASSUME IInv, [Next]_vars PROVE [Grows]_vars
  <2>1. CASE UNCHANGED tables
    BY <2>1 DEF tables
  <2>2. ASSUME NEW m \in Images, NEW o \in Objects, o = created + 1, Register(m, o)
        PROVE  Grows
    <3>1. /\ \A n \in Names : modules'[n] =
                 IF modules[n] = Null /\ n = ImportName[m] THEN o ELSE modules[n]
          /\ \A p \in Objects : image'[p] = IF p = o THEN m ELSE image[p]
      BY <1>1, <2>2, RegisterTables
    <3>2. image[o] = None
      BY <1>1, <2>2 DEF IInv, ObjectsInv, TypeOK
    <3>3. \A s \in Symbols : system[s] # Null => system'[s] = system[s]
      BY <2>2 DEF Register, Local
    <3>. QED
      BY <3>1, <3>2, <3>3
  <2>. QED
    BY <1>1, <2>1, <2>2, TablesStep
<1>2. Spec => [][Grows]_vars
  BY <1>1, Invariance, PTL DEF Spec
<1>. QED
  BY <1>2 DEF RegistryGrows
-----------------------------------------------------------------------------
(* One thread.  First, what holds of the stacks for any number of threads: *)
(* activations descend in rank as the stack grows.                         *)

LEMMA WantedNames ==
    ASSUME NEW t \in Threads, NEW f \in Frame, FrameInv(t, f)
    PROVE  /\ WantedBy(f) \subseteq Names
           /\ f.stage # "lookup" => ImportName[f.image] \in WantedBy(f)
<1>1. CASE f.stage = "lookup"
  BY <1>1, CatalogueAssumption DEF FrameInv, WantedBy
<1>2. CASE f.stage # "lookup"
  <2>1. f.image \in Images /\ (f.name # None => Shelf[f.name] = f.image)
    BY <1>2 DEF FrameInv
  <2>2. ImportName[f.image] \in Names /\ f.image # None
    BY <2>1, CatalogueAssumption
  <2>3. f.name \in Names \cup {None}
    BY DEF Frame
  <2>. QED
    BY <2>1, <2>2, <2>3 DEF WantedBy
<1>. QED
  BY <1>1, <1>2

(* Nothing else moves while t's activation on top is replaced, entered     *)
(* from, or left.                                                          *)
LEMMA TopReplaced ==
    ASSUME TypeOK, NEW t \in Threads, depth[t] > 0, NEW f, SetTop(t, f)
    PROVE  /\ Elsewhere(t) /\ depth'[t] = depth[t]
           /\ \A d \in 1 .. depth[t] : stack'[t][d] = IF d = depth[t] THEN f ELSE stack[t][d]
<1>1. depth[t] \in 1 .. MaxDepth
  BY TopType
<1>2. \A d \in 1 .. depth[t] : d \in 1 .. MaxDepth
  BY <1>1, BoundAssumption
<1>. QED
  BY <1>1, <1>2 DEF SetTop, Elsewhere, TypeOK

LEMMA TopEntered ==
    ASSUME TypeOK, NEW t \in Threads, NEW f, Push(t, f)
    PROVE  /\ Elsewhere(t) /\ depth'[t] = depth[t] + 1
           /\ \A d \in 1 .. depth[t] + 1 :
                 stack'[t][d] = IF d = depth[t] + 1 THEN f ELSE stack[t][d]
<1>1. depth[t] \in Nat /\ depth[t] + 1 \in 1 .. MaxDepth
  BY BoundAssumption DEF Push, TypeOK
<1>2. \A d \in 1 .. depth[t] + 1 : d \in 1 .. MaxDepth
  BY <1>1, BoundAssumption
<1>. QED
  BY <1>1, <1>2 DEF Push, Elsewhere, TypeOK

(* A frame keeps its rank when it keeps its name and its image.            *)
LEMMA SameRank ==
    ASSUME NEW f, NEW g, g.name = f.name, g.image = f.image
    PROVE  WantedBy(g) = WantedBy(f)
  BY DEF WantedBy

LEMMA ResumedRank ==
    ASSUME NEW f \in Frame, NEW v
    PROVE  /\ Resumed(f, v).name = f.name /\ Resumed(f, v).image = f.image
           /\ Resumed(f, v).stage \in {f.stage, "unwind"}
  BY DEF Resumed, Frame

(* What a step does to t's stack: whatever was there keeps its rank, and    *)
(* what is new on top is below what waits for it.                          *)
Keeps(t, d) ==
    /\ d \in 1 .. depth[t]
    /\ WantedBy(stack'[t][d]) = WantedBy(stack[t][d])
    /\ \/ stack'[t][d].stage \notin Unlinked /\ d = depth'[t]
       \/ /\ stack'[t][d].image = stack[t][d].image
          /\ stack'[t][d].stage \in Unlinked =>
                stack[t][d].stage \in Unlinked \/ ~Loaded(stack[t][d].image)

Enters(t, d, rank) ==
    /\ d = depth[t] + 1 /\ d = depth'[t]
    /\ stack'[t][d].stage \notin Unlinked
    /\ WantedBy(stack'[t][d]) \subseteq Names
    /\ depth[t] > 0 => /\ Top(t).stage # "lookup"
                       /\ Below(stack'[t][d], Top(t).image, rank)

Moved(t, rank) ==
    /\ Elsewhere(t)
    /\ \A d \in 1 .. depth'[t] : Keeps(t, d) \/ Enters(t, d, rank)

LEMMA MovedDescends ==
    ASSUME IInv, NEW t \in Threads, NEW rank \in [Names -> Nat],
           Moved(t, rank), StacksDescend(rank), depth'[t] \in Nat
    PROVE  StacksDescend(rank)'
<1>1. SUFFICES ASSUME NEW u \in Threads, NEW d \in 1 .. depth'[u], NEW e \in 1 .. depth'[u], d < e
               PROVE  Below(stack'[u][e], stack'[u][d].image, rank)
  BY DEF StacksDescend, Below, WantedBy
<1>2. CASE u # t
  <2>1. stack'[u] = stack[u] /\ depth'[u] = depth[u]
    BY <1>2 DEF Moved, Elsewhere
  <2>. QED
    BY <1>1, <2>1 DEF StacksDescend
<1>3. CASE u = t
  <2>0. depth[t] \in 0 .. MaxDepth /\ depth[t] \in Nat /\ d \in Nat /\ e \in Nat
    BY <1>3, BoundAssumption DEF IInv, TypeOK
  <2>1. d # depth'[t] /\ d \in 1 .. depth[t] /\ stack'[t][d].image = stack[t][d].image
    BY <1>1, <1>3, <2>0 DEF Moved, Keeps, Enters
  <2>2. CASE Keeps(t, e)
    <3>1. Below(stack[t][e], stack[t][d].image, rank)
      BY <1>1, <2>1, <2>2 DEF StacksDescend, Keeps
    <3>. QED
      BY <1>3, <2>1, <2>2, <3>1 DEF Keeps, Below
  <2>3. CASE Enters(t, e, rank)
    <3>1. depth[t] > 0 /\ depth[t] \in 1 .. depth[t] /\ e = depth[t] + 1
      BY <2>0, <2>1, <2>3 DEF Enters
    <3>2. PICK g : g = Top(t)
      OBVIOUS
    <3>3. PICK h : h = stack'[t][e]
      OBVIOUS
    <3>4. Below(h, g.image, rank) /\ g.stage # "lookup" /\ WantedBy(h) \subseteq Names
      BY <2>3, <3>1, <3>2, <3>3 DEF Enters
    <3>5. CASE d = depth[t]
      BY <1>3, <2>1, <3>2, <3>3, <3>4, <3>5 DEF Top
    <3>6. CASE d < depth[t]
      <4>1. PICK f : f = stack[t][d]
        OBVIOUS
      <4>2. Below(g, f.image, rank)
        BY <2>1, <3>1, <3>2, <3>6, <4>1 DEF StacksDescend, Top
      <4>3. g \in Frame /\ FrameInv(t, g)
        BY <3>1, <3>2, Running
      <4>4. ImportName[g.image] \in WantedBy(g) /\ WantedBy(g) \subseteq Names
        BY <3>4, <4>3, WantedNames
      <4>5. f.image \in Images
        <5>1. LinkInv(stack[t][d], stack[t][d + 1]) /\ FrameInv(t, f)
          BY <2>1, <3>6, <4>1 DEF IInv, StacksInv
        <5>. QED
          BY <4>1, <5>1 DEF LinkInv, FrameInv
      <4>6. ImportName[f.image] \in Names
        BY <4>5, CatalogueAssumption
      <4>7. rank[ImportName[g.image]] < rank[ImportName[f.image]]
        BY <4>2, <4>4 DEF Below
      <4>8. ASSUME NEW n \in WantedBy(h) PROVE rank[n] < rank[ImportName[f.image]]
        <5>1. rank[n] < rank[ImportName[g.image]] /\ n \in Names
          BY <3>4, <4>8 DEF Below
        <5>. QED
          BY <4>4, <4>6, <4>7, <5>1
      <4>9. Below(h, f.image, rank)
        BY <4>8 DEF Below
      <4>. QED
        BY <1>3, <2>1, <3>3, <4>1, <4>9
    <3>. QED
      BY <2>0, <2>1, <3>5, <3>6
  <2>. QED
    BY <1>3, <2>2, <2>3 DEF Moved
<1>. QED
  BY <1>2, <1>3

(* A step that leaves the tables alone keeps what is missing missing.      *)
LEMMA MovedMissing ==
    ASSUME NEW t \in Threads, NEW rank, Moved(t, rank), StillMissing, UNCHANGED tables
    PROVE  StillMissing'
<1>1. \A m : Loaded(m)' <=> Loaded(m)
  BY DEF Loaded, tables
<1>2. SUFFICES ASSUME NEW u \in Threads, NEW d \in 1 .. depth'[u], stack'[u][d].stage \in Unlinked
               PROVE  ~Loaded(stack'[u][d].image)
  <2>1. ASSUME NEW u \in Threads, NEW d \in 1 .. depth'[u], stack'[u][d].stage \in Unlinked
        PROVE  ~Loaded(stack[u][d].image)'
    <3>1. PICK m : m = stack'[u][d].image
      OBVIOUS
    <3>. QED
      BY <1>1, <1>2, <2>1, <3>1 DEF Loaded, tables
  <2>. QED
    BY <2>1 DEF StillMissing
<1>3. CASE u # t
  BY <1>2, <1>3 DEF Moved, Elsewhere, StillMissing
<1>4. CASE u = t
  BY <1>2, <1>4 DEF Moved, Keeps, Enters, StillMissing
<1>. QED
  BY <1>3, <1>4

(* The ways to move.                                                       *)
LEMMA ReturnMoves ==
    ASSUME IInv, NEW t \in Threads, depth[t] > 0, NEW rank, NEW v, Return(t, v)
    PROVE  Moved(t, rank)
<1>0. TypeOK /\ depth[t] \in 1 .. MaxDepth
  BY Running DEF IInv
<1>1. /\ depth'[t] = depth[t] - 1
      /\ \A d \in 1 .. depth[t] - 1 :
            stack'[t][d] = IF d = depth[t] - 1 THEN Resumed(stack[t][d], v) ELSE stack[t][d]
  BY <1>0, ReturnShape
<1>2. Elsewhere(t)
  BY <1>0 DEF Return, Elsewhere, TypeOK
<1>3. ASSUME NEW d \in 1 .. depth'[t] PROVE Keeps(t, d)
  <2>1. d \in 1 .. depth[t] /\ d \in 1 .. MaxDepth
    BY <1>0, <1>1, BoundAssumption
  <2>2. PICK f : f = stack[t][d]
    OBVIOUS
  <2>3. f \in Frame
    BY <1>0, <2>1, <2>2, StackFrame
  <2>4. stack'[t][d] \in {f, Resumed(f, v)}
    BY <1>1, <1>3, <2>2
  <2>5. PICK h : h = stack'[t][d]
    OBVIOUS
  <2>6. h.name = f.name /\ h.image = f.image /\ h.stage \in {f.stage, "unwind"}
    BY <2>3, <2>4, <2>5, ResumedRank
  <2>7. WantedBy(h) = WantedBy(f)
    BY <2>6, SameRank
  <2>. QED
    BY <2>1, <2>2, <2>5, <2>6, <2>7 DEF Keeps, Unlinked
<1>. QED
  BY <1>2, <1>3 DEF Moved

LEMMA SetTopMoves ==
    ASSUME IInv, NEW t \in Threads, depth[t] > 0, NEW rank, NEW f, SetTop(t, f),
           WantedBy(f) = WantedBy(Top(t)),
           \/ f.stage \notin Unlinked
           \/ /\ f.image = Top(t).image
              /\ Top(t).stage \in Unlinked \/ ~Loaded(Top(t).image)
    PROVE  Moved(t, rank)
<1>0. TypeOK /\ depth[t] \in 1 .. MaxDepth
  BY Running DEF IInv
<1>1. /\ Elsewhere(t) /\ depth'[t] = depth[t]
      /\ \A d \in 1 .. depth[t] : stack'[t][d] = IF d = depth[t] THEN f ELSE stack[t][d]
  BY <1>0, TopReplaced
<1>2. ASSUME NEW d \in 1 .. depth'[t] PROVE Keeps(t, d)
  <2>1. CASE d = depth[t]
    BY <1>1, <2>1 DEF Keeps, Top
  <2>2. CASE d # depth[t]
    BY <1>1, <2>2 DEF Keeps
  <2>. QED
    BY <2>1, <2>2
<1>. QED
  BY <1>1, <1>2 DEF Moved

LEMMA PushMoves ==
    ASSUME IInv, NEW t \in Threads, NEW rank, NEW f, Push(t, f),
           f.stage \notin Unlinked, WantedBy(f) \subseteq Names,
           depth[t] > 0 => Top(t).stage # "lookup" /\ Below(f, Top(t).image, rank)
    PROVE  Moved(t, rank)
<1>0. TypeOK /\ depth[t] \in Nat
  BY BoundAssumption DEF IInv, TypeOK
<1>1. /\ Elsewhere(t) /\ depth'[t] = depth[t] + 1
      /\ \A d \in 1 .. depth[t] + 1 :
            stack'[t][d] = IF d = depth[t] + 1 THEN f ELSE stack[t][d]
  BY <1>0, TopEntered
<1>2. ASSUME NEW d \in 1 .. depth'[t] PROVE Keeps(t, d) \/ Enters(t, d, rank)
  <2>1. CASE d = depth[t] + 1
    <3>1. stack'[t][d] = f
      BY <1>1, <2>1
    <3>. QED
      BY <1>1, <2>1, <3>1 DEF Enters
  <2>2. CASE d # depth[t] + 1
    <3>1. stack'[t][d] = stack[t][d] /\ d \in 1 .. depth[t]
      BY <1>0, <1>1, <2>2
    <3>. QED
      BY <3>1 DEF Keeps
  <2>. QED
    BY <2>1, <2>2
<1>. QED
  BY <1>1, <1>2 DEF Moved

(* Every step of LoadModule moves in one of these ways.                    *)
LEMMA FailMoves ==
    ASSUME IInv, NEW t \in Threads, depth[t] > 0, NEW rank, NEW e, Fail(t, e)
    PROVE  Moved(t, rank)
  BY ReturnMoves DEF Fail

LEMMA RestageMoves ==
    ASSUME IInv, NEW t \in Threads, depth[t] > 0, NEW rank,
           NEW s \in Stages, NEW k \in Nat \ {0}, Top(t).stage \in Unlinked \/ ~Loaded(Top(t).image),
           \/ SetTop(t, [Top(t) EXCEPT !.stage = s])
           \/ SetTop(t, [Top(t) EXCEPT !.stage = s, !.i = k])
    PROVE  Moved(t, rank)
<1>1. PICK g : g = Top(t)
  OBVIOUS
<1>2. g \in Frame
  BY <1>1, Running
<1>3. PICK f : SetTop(t, f) /\ f \in {[g EXCEPT !.stage = s], [g EXCEPT !.stage = s, !.i = k]}
  BY <1>1
<1>4. f.name = g.name /\ f.image = g.image
  BY <1>2, <1>3 DEF Frame
<1>. QED
  BY <1>1, <1>3, <1>4, SameRank, SetTopMoves

LEMMA LookupMoves ==
    ASSUME IInv, NEW t \in Threads, NEW rank, Lookup(t) PROVE Moved(t, rank)
<1>0. depth[t] > 0 /\ Top(t).stage = "lookup" /\ Top(t).name \in Names
  <2>1. depth[t] > 0 /\ Top(t).stage = "lookup"
    BY DEF Lookup, At
  <2>. QED
    BY <2>1, Running DEF FrameInv
<1>1. CASE SetTop(t, ByStream(Top(t).name, Shelf[Top(t).name])) /\ Shelf[Top(t).name] # None
  <2>1. PICK f : f = ByStream(Top(t).name, Shelf[Top(t).name])
    OBVIOUS
  <2>2. f.stage = "open" /\ f.name = Top(t).name
    BY <2>1 DEF ByStream, FreeFrame
  <2>3. WantedBy(f) = WantedBy(Top(t))
    BY <1>0, <2>2, CatalogueAssumption DEF WantedBy
  <2>. QED
    BY <1>0, <1>1, <2>1, <2>2, <2>3, SetTopMoves DEF Unlinked
<1>2. CASE \E v : Return(t, v)
  BY <1>0, <1>2, ReturnMoves
<1>. QED
  BY <1>1, <1>2 DEF Lookup, Fail

LEMMA OpenMoves ==
    ASSUME IInv, NEW t \in Threads, NEW rank, Open(t) PROVE Moved(t, rank)
<1>0. depth[t] > 0
  BY DEF Open, At
<1>1. CASE SetTop(t, [Top(t) EXCEPT !.stage = "embed"]) /\ modules[ImportName[Top(t).image]] = Null
  <2>1. "embed" \in Stages /\ 1 \in Nat \ {0} /\ ~Loaded(Top(t).image)
    BY <1>1 DEF Stages, Loaded
  <2>. QED
    BY <1>0, <1>1, <2>1, RestageMoves
<1>2. CASE \E v : Return(t, v)
  BY <1>0, <1>2, ReturnMoves
<1>. QED
  BY <1>1, <1>2 DEF Open, Fail

LEMMA EmbedMoves ==
    ASSUME IInv, NEW t \in Threads, NEW rank, Embed(t) PROVE Moved(t, rank)
<1>1. PICK s \in Stages : SetTop(t, [Top(t) EXCEPT !.stage = s])
  BY DEF Embed, Stages
<1>2. depth[t] > 0 /\ Top(t).stage \in Unlinked /\ 1 \in Nat \ {0}
  BY DEF Embed, At, Unlinked
<1>. QED
  BY <1>1, <1>2, RestageMoves

LEMMA LoadEmbeddedMoves ==
    ASSUME IInv, NEW t \in Threads, NEW rank, Descends(rank), LoadEmbedded(t)
    PROVE  Moved(t, rank)
<1>0. depth[t] > 0 /\ Top(t).stage = "embedding"
  BY DEF LoadEmbedded, At
<1>1. Top(t).stage \in Unlinked /\ Top(t).image \in Images /\ Top(t).i \in Nat \ {0}
  BY <1>0, Running DEF FrameInv, Frame, Unlinked
<1>2. CASE SetTop(t, [Top(t) EXCEPT !.stage = "depend", !.i = 1])
  <2>1. "depend" \in Stages /\ 1 \in Nat \ {0}
    BY DEF Stages
  <2>. QED
    BY <1>0, <1>1, <1>2, <2>1, RestageMoves
<1>3. ASSUME Top(t).i <= Len(Embedded[Top(t).image]),
             Push(t, ByStream(None, Embedded[Top(t).image][Top(t).i]))
      PROVE  Moved(t, rank)
  <2>1. PICK m \in Images : m = Top(t).image
    BY <1>1
  <2>2. PICK k \in 1 .. Len(Embedded[m]) : k = Top(t).i
    BY <1>1, <1>3, <2>1, CatalogueAssumption
  <2>3. PICK f : f = ByStream(None, Embedded[m][k])
    OBVIOUS
  <2>4. Below(f, m, rank)
    BY <2>3 DEF Descends
  <2>5. Embedded[m][k] \in Images
    BY CatalogueAssumption
  <2>6. f.stage = "open" /\ f.name = None /\ f.image = Embedded[m][k]
    BY <2>3 DEF ByStream, FreeFrame
  <2>7. WantedBy(f) \subseteq Names
    BY <2>5, <2>6, CatalogueAssumption DEF WantedBy
  <2>8. Push(t, f)
    BY <1>3, <2>1, <2>2, <2>3
  <2>. QED
    BY <1>0, <2>1, <2>4, <2>6, <2>7, <2>8, PushMoves DEF Unlinked
<1>. QED
  BY <1>2, <1>3 DEF LoadEmbedded

LEMMA LoadDependencyMoves ==
    ASSUME IInv, NEW t \in Threads, NEW rank, Descends(rank), LoadDependency(t)
    PROVE  Moved(t, rank)
<1>0. depth[t] > 0 /\ Top(t).stage = "depend"
  BY DEF LoadDependency, At
<1>1. Top(t).stage \in Unlinked /\ Top(t).image \in Images /\ Top(t).i \in Nat \ {0}
  BY <1>0, Running DEF FrameInv, Frame, Unlinked
<1>2. CASE SetTop(t, [Top(t) EXCEPT !.stage = "version"])
  <2>1. "version" \in Stages /\ 1 \in Nat \ {0}
    BY DEF Stages
  <2>. QED
    BY <1>0, <1>1, <1>2, <2>1, RestageMoves
<1>3. ASSUME Top(t).i <= Len(DependsOn[Top(t).image]),
             Push(t, ByName(DependsOn[Top(t).image][Top(t).i]))
      PROVE  Moved(t, rank)
  <2>1. PICK m \in Images : m = Top(t).image
    BY <1>1
  <2>2. PICK k \in 1 .. Len(DependsOn[m]) : k = Top(t).i
    BY <1>1, <1>3, <2>1, DependencyNames
  <2>3. PICK f : f = ByName(DependsOn[m][k])
    OBVIOUS
  <2>4. DependsOn[m][k] \in Dependencies(m) /\ DependsOn[m][k] \in Names
    BY DependencyNames DEF Dependencies
  <2>5. Below(f, m, rank)
    BY <2>3, <2>4 DEF Descends
  <2>6. f.stage = "lookup" /\ f.name = DependsOn[m][k]
    BY <2>3 DEF ByName, FreeFrame
  <2>7. WantedBy(f) \subseteq Names
    BY <2>4, <2>6, CatalogueAssumption DEF WantedBy
  <2>8. Push(t, f)
    BY <1>3, <2>1, <2>2, <2>3
  <2>. QED
    BY <1>0, <2>1, <2>5, <2>6, <2>7, <2>8, PushMoves DEF Unlinked
<1>. QED
  BY <1>2, <1>3 DEF LoadDependency

LEMMA CheckVersionsMoves ==
    ASSUME IInv, NEW t \in Threads, NEW rank, CheckVersions(t) PROVE Moved(t, rank)
<1>0. depth[t] > 0 /\ Top(t).stage \in Unlinked
  BY DEF CheckVersions, At, Unlinked
<1>1. CASE SetTop(t, [Top(t) EXCEPT !.stage = "link"])
  <2>1. "link" \in Stages /\ 1 \in Nat \ {0}
    BY DEF Stages
  <2>. QED
    BY <1>0, <1>1, <2>1, RestageMoves
<1>2. CASE \E v : Return(t, v)
  BY <1>0, <1>2, ReturnMoves
<1>. QED
  BY <1>1, <1>2 DEF CheckVersions, Fail

LEMMA LinkMoves ==
    ASSUME IInv, NEW t \in Threads, NEW rank, Link(t) PROVE Moved(t, rank)
<1>0. depth[t] > 0
  BY DEF Link, At
<1>1. ASSUME NEW todo, SetTop(t, [Top(t) EXCEPT !.stage = "initialize", !.object = created + 1,
                                                !.i = 1, !.todo = todo])
      PROVE  Moved(t, rank)
  <2>1. PICK g : g = Top(t)
    OBVIOUS
  <2>2. g \in Frame
    BY <1>0, <2>1, Running
  <2>3. PICK f : f = [g EXCEPT !.stage = "initialize", !.object = created + 1, !.i = 1,
                               !.todo = todo]
    OBVIOUS
  <2>4. f.stage = "initialize" /\ f.name = g.name /\ f.image = g.image
    BY <2>2, <2>3 DEF Frame
  <2>. QED
    BY <1>0, <1>1, <2>1, <2>3, <2>4, SameRank, SetTopMoves DEF Unlinked
<1>2. CASE \E v : Return(t, v)
  BY <1>0, <1>2, ReturnMoves
<1>. QED
  BY <1>1, <1>2 DEF Link, Fail

LEMMA InitializeMoves ==
    ASSUME IInv, NEW t \in Threads, NEW rank, Initialize(t) PROVE Moved(t, rank)
<1>0. depth[t] > 0 /\ Top(t).stage = "initialize"
  BY DEF Initialize, At
<1>1. ASSUME NEW r, SetTop(t, [Top(t) EXCEPT !.todo = @ \ {r}]) PROVE Moved(t, rank)
  <2>1. PICK g : g = Top(t)
    OBVIOUS
  <2>2. g \in Frame
    BY <1>0, <2>1, Running
  <2>3. PICK f : f = [g EXCEPT !.todo = @ \ {r}]
    OBVIOUS
  <2>4. f.stage = g.stage /\ f.name = g.name /\ f.image = g.image
    BY <2>2, <2>3 DEF Frame
  <2>. QED
    BY <1>0, <1>1, <2>1, <2>3, <2>4, SameRank, SetTopMoves DEF Unlinked
<1>2. CASE \E v : Return(t, v)
  BY <1>0, <1>2, ReturnMoves
<1>. QED
  BY <1>1, <1>2 DEF Initialize, Fail

LEMMA LoadFromInitializerMoves ==
    ASSUME IInv, NEW t \in Threads, NEW rank, Descends(rank), LoadFromInitializer(t)
    PROVE  Moved(t, rank)
<1>0. /\ depth[t] > 0 /\ Top(t).stage = "initialize"
      /\ Top(t).i <= Len(Asks[Top(t).image])
      /\ Push(t, ByStream(None, Asks[Top(t).image][Top(t).i]))
  BY DEF LoadFromInitializer, At
<1>1. Top(t).image \in Images /\ Top(t).i \in Nat \ {0}
  BY <1>0, Running DEF FrameInv, Frame
<1>2. PICK m \in Images : m = Top(t).image
  BY <1>1
<1>3. PICK k \in 1 .. Len(Asks[m]) : k = Top(t).i
  BY <1>0, <1>1, <1>2, CatalogueAssumption
<1>4. PICK f : f = ByStream(None, Asks[m][k])
  OBVIOUS
<1>5. Below(f, m, rank)
  BY <1>4 DEF Descends
<1>6. Asks[m][k] \in Images
  BY CatalogueAssumption
<1>7. f.stage = "open" /\ f.name = None /\ f.image = Asks[m][k]
  BY <1>4 DEF ByStream, FreeFrame
<1>8. WantedBy(f) \subseteq Names
  BY <1>6, <1>7, CatalogueAssumption DEF WantedBy
<1>9. Push(t, f)
  BY <1>0, <1>2, <1>3, <1>4
<1>. QED
  BY <1>0, <1>2, <1>5, <1>7, <1>8, <1>9, PushMoves DEF Unlinked

LEMMA StepMoves ==
    ASSUME IInv, NEW t \in Threads, NEW rank, Descends(rank), Step(t)
    PROVE  Moved(t, rank)
<1>1. CASE Complete(t) \/ Unwind(t)
  BY <1>1, ReturnMoves DEF Complete, Unwind, At
<1>. QED
  BY <1>1, LookupMoves, OpenMoves, EmbedMoves, LoadEmbeddedMoves, LoadDependencyMoves,
     CheckVersionsMoves, LinkMoves, InitializeMoves, LoadFromInitializerMoves DEF Step

LEMMA BeginMoves ==
    ASSUME IInv, NEW t \in Threads, NEW rank, NEW f, Begin(t, f), f.stage \notin Unlinked,
           WantedBy(f) \subseteq Names
    PROVE  Moved(t, rank)
  BY PushMoves DEF Begin

-----------------------------------------------------------------------------
(* What one thread relies on besides.                                      *)

LEMMA ProviderType ==
    ASSUME TypeOK, EntriesInv, NEW d \in Names, Provider(d) # Null
    PROVE  Provider(d) \in Objects /\ Provider(d) \in 1 .. created
<1>1. \A n \in Names : modules[n] # Null => modules[n] \in Objects /\ modules[n] \in 1 .. created
  BY DEF TypeOK, EntriesInv, Objects
<1>2. Shelf[d] # None => ImportName[Shelf[d]] \in Names
  BY CatalogueAssumption
<1>. QED
  BY <1>1, <1>2 DEF Provider

LEMMA CreatedImage ==
    ASSUME TypeOK, ObjectsInv, NEW o \in 1 .. created
    PROVE  o \in Objects /\ image[o] \in Images /\ state[o] # "absent"
<1>1. o \in Objects /\ o <= created
  BY BoundAssumption DEF TypeOK, Objects
<1>. QED
  BY <1>1 DEF TypeOK, ObjectsInv, Objects

(* A step that links nothing: initializations may end.                     *)
Calms == /\ UNCHANGED tables
         /\ \A o \in Objects : state'[o] = state[o] \/ state'[o] \in {"ready", "failed"}

LEMMA CalmTables ==
    ASSUME Calms, NoOrphans, Bound
    PROVE  NoOrphans' /\ Bound'
  BY DEF Calms, tables, NoOrphans, Bound

LEMMA CalmStep ==
    ASSUME IInv, NEW t \in Threads, NEW rank \in [Names -> Nat], AloneInv(rank),
           Moved(t, rank), depth'[t] \in Nat, Calms
    PROVE  AloneInv(rank)'
<1>1. StacksDescend(rank)'
  BY MovedDescends DEF AloneInv
<1>2. StillMissing'
  BY MovedMissing DEF AloneInv, Calms
<1>. QED
  BY <1>1, <1>2, CalmTables DEF AloneInv

(* A registration.  Its module was missing, and stays missing for nobody   *)
(* below. What is being initialized meanwhile waits below for a module its *)
(* initializer asked for, and so ranks above the one that links.           *)
LEMMA InitializingAbove ==
    ASSUME IInv, OneThread, NEW t \in Threads, depth[t] > 0, Top(t).stage = "link",
           NEW rank \in [Names -> Nat], StacksDescend(rank),
           NEW o \in Objects, state[o] = "initializing"
    PROVE  rank[ImportName[Top(t).image]] < rank[ImportName[image[o]]]
<1>0. PICK u \in Threads : \E d \in 1 .. depth[u] :
           stack[u][d].stage = "initialize" /\ stack[u][d].object = o
  BY DEF IInv, ShutdownInv
<1>1. PICK d \in 1 .. depth[u] : stack[u][d].stage = "initialize" /\ stack[u][d].object = o
  BY <1>0
<1>2. u = t
  BY DEF OneThread
<1>3. /\ depth[t] \in 1 .. MaxDepth /\ Top(t) \in Frame /\ FrameInv(t, Top(t))
      /\ depth[t] \in Nat /\ depth[t] \in 1 .. depth[t]
  BY Running, BoundAssumption
<1>4. d \in 1 .. depth[t] /\ d < depth[t]
  <2>1. d # depth[t]
    BY <1>1, <1>2 DEF Top
  <2>. QED
    BY <1>2, <1>3, <2>1
<1>5. PICK f : f = stack[t][d]
  OBVIOUS
<1>6. PICK g : g = Top(t)
  OBVIOUS
<1>7. f.image = image[o]
  <2>1. FrameInv(t, f)
    BY <1>4, <1>5 DEF IInv, StacksInv
  <2>. QED
    BY <1>1, <1>2, <1>5, <2>1 DEF FrameInv
<1>8. Below(g, f.image, rank)
  BY <1>3, <1>4, <1>5, <1>6 DEF StacksDescend, Top
<1>9. ImportName[g.image] \in WantedBy(g)
  BY <1>3, <1>6, WantedNames
<1>. QED
  BY <1>6, <1>7, <1>8, <1>9 DEF Below

LEMMA RegisterAlone ==
    ASSUME IInv, OneThread, NEW t \in Threads, NEW rank \in [Names -> Nat], Descends(rank),
           AloneInv(rank), depth[t] > 0, Top(t).stage = "link",
           NEW m \in Images, m = Top(t).image, NEW o \in Objects, o = created + 1, Register(m, o),
           \A r \in RefersTo[m] : Resolves(m, r)
    PROVE  NoOrphans' /\ Bound'
<1>0. TypeOK /\ ObjectsInv /\ EntriesInv /\ created \in Nat /\ created' = created + 1
      /\ depth[t] \in 1 .. depth[t]
  BY Running DEF IInv, TypeOK, Register
<1>1. /\ \A s \in Symbols : system'[s] = IF s \in Local(m) THEN o ELSE system[s]
      /\ \A n \in Names : modules'[n] =
            IF modules[n] = Null /\ n = ImportName[m] THEN o ELSE modules[n]
      /\ \A p \in Objects : image'[p] = IF p = o THEN m ELSE image[p]
      /\ \A p \in Objects : state'[p] = IF p = o THEN "initializing" ELSE state[p]
  BY RegisterTables
<1>2. ImportName[m] \in Names /\ modules[ImportName[m]] = Null /\ o # Null
  BY <1>0, DependencyNames DEF AloneInv, StillMissing, Unlinked, Loaded, Top, Objects, Null
<1>3. \A p \in 1 .. created' : p = o \/ p \in 1 .. created
  BY <1>0
<1>4. \A p \in 1 .. created : p \in Objects /\ p # o /\ image[p] \in Images /\ image'[p] = image[p]
  BY <1>0, <1>1, CreatedImage
<1>5. NoOrphans'
  <2>1. ASSUME NEW p \in 1 .. created PROVE modules'[ImportName[image'[p]]] = p
    <3>1. modules[ImportName[image[p]]] = p /\ ImportName[image[p]] \in Names /\ p # Null
      BY <1>4, CatalogueAssumption DEF AloneInv, NoOrphans, Null
    <3>. QED
      BY <1>1, <1>4, <3>1
  <2>2. modules'[ImportName[image'[o]]] = o
    BY <1>1, <1>2
  <2>. QED
    BY <1>3, <2>1, <2>2 DEF NoOrphans
<1>6. Bound'
  <2>1. ASSUME NEW p \in 1 .. created, NEW s \in RefersTo[image'[p]] \cap Symbols
        PROVE  system'[s] # Null
    <3>1. system[s] # Null
      BY <1>4, <2>1 DEF AloneInv, Bound
    <3>. QED
      BY <1>1, <3>1 DEF Local
  <2>2. ASSUME NEW s \in RefersTo[image'[o]] \cap Symbols PROVE system'[s] # Null
    <3>1. s \in Symbols /\ Resolves(m, s) /\ s \notin Names
      BY <1>1, <2>2, CatalogueAssumption
    <3>2. s \in Defines[m] \/ system[s] # Null
      BY <1>2, <3>1 DEF Resolves
    <3>. QED
      BY <1>1, <1>2, <3>1, <3>2 DEF Local
  <2>. QED
    BY <1>3, <2>1, <2>2 DEF Bound
<1>. QED
  BY <1>5, <1>6

LEMMA RegisterMissing ==
    ASSUME IInv, OneThread, NEW t \in Threads, NEW rank \in [Names -> Nat],
           AloneInv(rank), Moved(t, rank), depth' = depth,
           depth[t] > 0, Top(t).stage = "link",
           NEW m \in Images, m = Top(t).image, NEW o \in Objects, o = created + 1, Register(m, o),
           stack'[t][depth[t]].stage = "initialize",
           \A d \in 1 .. depth[t] : d < depth[t] => stack'[t][d] = stack[t][d]
    PROVE  StillMissing'
<1>0. depth[t] \in 1 .. MaxDepth /\ depth[t] \in Nat
  BY Running, BoundAssumption
<1>1. \A n \in Names : modules'[n] =
            IF modules[n] = Null /\ n = ImportName[m] THEN o ELSE modules[n]
  BY RegisterTables
<1>2. ASSUME NEW d \in 1 .. depth[t], stack'[t][d].stage \in Unlinked
      PROVE  modules'[ImportName[stack'[t][d].image]] = Null
  <2>1. d # depth[t]
    BY <1>2 DEF Unlinked
  <2>2. d < depth[t]
    BY <1>0, <2>1
  <2>3. PICK f : f = stack[t][d]
    OBVIOUS
  <2>4. stack'[t][d] = f /\ f.stage \in Unlinked
    BY <1>2, <2>2, <2>3
  <2>5. f.image \in Images
    BY <2>3, <2>4 DEF IInv, StacksInv, FrameInv, Unlinked
  <2>6. modules[ImportName[f.image]] = Null
    BY <2>3, <2>4 DEF AloneInv, StillMissing, Loaded
  <2>7. ImportName[f.image] # ImportName[m]
    <3>1. depth[t] \in 1 .. depth[t]
      BY <1>0
    <3>2. PICK g : g = Top(t)
      OBVIOUS
    <3>3. Below(g, f.image, rank)
      BY <2>2, <2>3, <3>1, <3>2 DEF AloneInv, StacksDescend, Top
    <3>4. ImportName[m] \in WantedBy(g)
      BY <3>2, Running, WantedNames
    <3>5. rank[ImportName[m]] < rank[ImportName[f.image]]
      BY <3>3, <3>4 DEF Below
    <3>6. rank[ImportName[m]] \in Nat
      BY CatalogueAssumption
    <3>. QED
      BY <3>5, <3>6
  <2>. QED
    BY <1>1, <2>4, <2>5, <2>6, <2>7, CatalogueAssumption
<1>3. ASSUME NEW u \in Threads, NEW d \in 1 .. depth'[u], stack'[u][d].stage \in Unlinked
      PROVE  modules'[ImportName[stack'[u][d].image]] = Null
  <2>1. u = t
    BY DEF OneThread
  <2>. QED
    BY <1>2, <1>3, <2>1
<1>. QED
  BY <1>3 DEF StillMissing, Loaded

LEMMA LinkAlone ==
    ASSUME IInv, OneThread, NEW t \in Threads, NEW rank \in [Names -> Nat], Descends(rank),
           AloneInv(rank), Link(t), depth'[t] \in Nat
    PROVE  AloneInv(rank)'
<1>0. depth[t] > 0 /\ Top(t).stage = "link" /\ Moved(t, rank)
  BY LinkMoves DEF Link, At
<1>1. CASE UNCHANGED <<tables, state>>
  BY <1>0, <1>1, CalmStep DEF Calms
<1>2. ASSUME Register(Top(t).image, created + 1), created < MaxObjects,
             \A r \in RefersTo[Top(t).image] : Resolves(Top(t).image, r),
             SetTop(t, [Top(t) EXCEPT !.stage = "initialize", !.object = created + 1, !.i = 1,
                                 !.todo = Local(Top(t).image) \cap Initializers[Top(t).image]])
      PROVE  AloneInv(rank)'
  <2>1. PICK m \in Images : m = Top(t).image
    BY <1>0, Running DEF FrameInv
  <2>2. PICK o \in Objects : o = created + 1
    BY <1>2, BoundAssumption DEF IInv, TypeOK, Objects
  <2>3. Register(m, o) /\ \A r \in RefersTo[m] : Resolves(m, r)
    BY <1>2, <2>1, <2>2
  <2>4. NoOrphans' /\ Bound'
    BY <1>0, <2>1, <2>2, <2>3, RegisterAlone
  <2>5. PICK g : g = Top(t)
    OBVIOUS
  <2>6. PICK f : f = [g EXCEPT !.stage = "initialize", !.object = created + 1, !.i = 1,
                               !.todo = Local(m) \cap Initializers[m]]
    OBVIOUS
  <2>7. f.stage = "initialize"
    BY <1>0, <2>5, <2>6, Running DEF Frame
  <2>8. SetTop(t, f)
    BY <1>2, <2>1, <2>5, <2>6
  <2>9. /\ depth[t] \in 1 .. depth[t]
        /\ \A d \in 1 .. depth[t] : stack'[t][d] = IF d = depth[t] THEN f ELSE stack[t][d]
    BY <1>0, <2>8, Running, TopReplaced DEF IInv
  <2>10. stack'[t][depth[t]].stage = "initialize"
    BY <2>7, <2>9
  <2>11. \A d \in 1 .. depth[t] : d < depth[t] => stack'[t][d] = stack[t][d]
    BY <2>9
  <2>12. depth' = depth
    BY <2>8 DEF SetTop
  <2>13. StillMissing'
    BY <1>0, <2>1, <2>2, <2>3, <2>10, <2>11, <2>12, RegisterMissing
  <2>14. StacksDescend(rank)'
    BY <1>0, MovedDescends DEF AloneInv
  <2>. QED
    BY <2>4, <2>13, <2>14 DEF AloneInv
<1>. QED
  BY <1>1, <1>2 DEF Link

LEMMA CalmSteps ==
    ASSUME IInv, NEW t \in Threads, Step(t), ~Link(t)
    PROVE  Calms
<1>1. CASE Lookup(t) \/ Open(t) \/ Embed(t) \/ LoadEmbedded(t) \/ LoadDependency(t)
           \/ CheckVersions(t) \/ Unwind(t)
  BY <1>1 DEF Calms, Lookup, Open, Embed, LoadEmbedded, LoadDependency, CheckVersions, Unwind
<1>2. CASE Initialize(t)
  BY <1>2 DEF Calms, Initialize, IInv, TypeOK
<1>3. CASE Complete(t)
  BY <1>3 DEF Calms, Complete, IInv, TypeOK
<1>4. CASE LoadFromInitializer(t)
  BY <1>4 DEF Calms, LoadFromInitializer
<1>. QED
  BY <1>1, <1>2, <1>3, <1>4 DEF Step

LEMMA AloneStays ==
    ASSUME NEW rank, AloneInv(rank), UNCHANGED <<tables, stack, depth, state>>
    PROVE  AloneInv(rank)'
<1>1. NoOrphans' /\ Bound'
  BY DEF AloneInv, NoOrphans, Bound, tables
<1>2. StillMissing' /\ StacksDescend(rank)'
  BY DEF AloneInv, StillMissing, StacksDescend, Below, WantedBy, Loaded, tables
<1>. QED
  BY <1>1, <1>2 DEF AloneInv

LEMMA AloneNext ==
    ASSUME OneThread, NEW rank \in [Names -> Nat], Descends(rank),
           IInv, IInv', AloneInv(rank), [Next]_vars
    PROVE  AloneInv(rank)'
<1>0. \A t \in Threads : depth'[t] \in Nat
  BY BoundAssumption DEF IInv, TypeOK
<1>1. ASSUME NEW t \in Threads, Step(t) PROVE AloneInv(rank)'
  BY <1>0, <1>1, LinkAlone, StepMoves, CalmSteps, CalmStep
<1>2. ASSUME NEW t \in Threads, NEW f, Begin(t, f), f.stage \notin Unlinked,
             WantedBy(f) \subseteq Names
      PROVE  AloneInv(rank)'
  <2>1. Moved(t, rank)
    BY <1>2, BeginMoves
  <2>2. Calms
    BY <1>2 DEF Begin, Calms
  <2>. QED
    BY <1>0, <2>1, <2>2, CalmStep
<1>3. ASSUME NEW t \in Threads, NEW n \in Names, LoadModuleByName(t, n) PROVE AloneInv(rank)'
  <2>1. PICK f : f = ByName(n)
    OBVIOUS
  <2>2. f.stage = "lookup" /\ f.name = n
    BY <2>1 DEF ByName, FreeFrame
  <2>3. WantedBy(f) \subseteq Names
    BY <2>2, CatalogueAssumption DEF WantedBy
  <2>. QED
    BY <1>2, <1>3, <2>1, <2>2, <2>3 DEF LoadModuleByName, Unlinked
<1>4. ASSUME NEW t \in Threads, NEW m \in Images, LoadModuleByStream(t, m) PROVE AloneInv(rank)'
  <2>1. PICK f : f = ByStream(None, m)
    OBVIOUS
  <2>2. f.stage = "open" /\ f.name = None /\ f.image = m
    BY <2>1 DEF ByStream, FreeFrame
  <2>3. WantedBy(f) \subseteq Names
    BY <2>2, CatalogueAssumption DEF WantedBy
  <2>. QED
    BY <1>2, <1>4, <2>1, <2>2, <2>3 DEF LoadModuleByStream, Unlinked
<1>5. CASE Destroy \/ (\E allow \in BOOLEAN : AllowEmbeddedModules(allow))
           \/ (\E s \in Symbols : Shutdown(s)) \/ UNCHANGED vars
  <2>1. UNCHANGED <<tables, stack, depth, state>>
    BY <1>5 DEF Destroy, AllowEmbeddedModules, Shutdown, vars, thread, tables
  <2>. QED
    BY <2>1, AloneStays
<1>. QED
  BY <1>1, <1>3, <1>4, <1>5 DEF Next, Program

LEMMA AloneInit == ASSUME NEW rank, Init PROVE AloneInv(rank)
<1>1. \A d \in 1 .. 0 : FALSE
  OBVIOUS
<1>2. (\A t \in Threads : depth[t] = 0) /\ created = 0
  BY DEF Init
<1>3. StacksDescend(rank) /\ StillMissing
  BY <1>1, <1>2 DEF StacksDescend, StillMissing
<1>4. NoOrphans /\ Bound
  BY <1>1, <1>2 DEF NoOrphans, Bound
<1>. QED
  BY <1>3, <1>4 DEF AloneInv

LEMMA Alone ==
    ASSUME OneThread, NEW CONSTANT rank \in [Names -> Nat], Descends(rank)
    PROVE  Spec => [](IInv /\ AloneInv(rank))
<1>1. Init => AloneInv(rank)
  BY AloneInit
<1>2. IInv /\ IInv' /\ AloneInv(rank) /\ [Next]_vars => AloneInv(rank)'
  BY AloneNext
<1>. QED
  BY <1>1, <1>2, Invariance, PTL DEF Spec

(* A module has one instance: with one thread and a catalogue in which     *)
(* dependence ends, every object that LoadModule has linked is the one its *)
(* name stands for, though it looks the name up long before it links.      *)
THEOREM OneInstance == ASSUME OneThread, Ranked PROVE Spec => []NoOrphans
<1>1. PICK rank \in [Names -> Nat] : Descends(rank)
  BY DEF Ranked
<1>2. Spec => [](IInv /\ AloneInv(rank))
  BY <1>1, Alone
<1>3. AloneInv(rank) => NoOrphans
  BY DEF AloneInv
<1>. QED
  BY <1>2, <1>3, PTL

(* The registration of an object is what starts its initializers. The      *)
(* objects that serve its dependencies rank below it, and those whose      *)
(* initializers still run wait for it and rank above.                      *)
LEMMA RegisterServed ==
    ASSUME IInv, OneThread, NEW t \in Threads, NEW rank \in [Names -> Nat], Descends(rank),
           AloneInv(rank), depth[t] > 0, Top(t).stage = "link",
           NEW m \in Images, m = Top(t).image, NEW o \in Objects, o = created + 1, Register(m, o),
           NEW d \in Dependencies(m), NEW q, q = Provider(d)'
    PROVE  q # Null /\ state'[q] \in {"ready", "failed"}
<1>0. TypeOK /\ ObjectsInv /\ EntriesInv
  BY DEF IInv
<1>1. /\ \A n \in Names : modules'[n] =
            IF modules[n] = Null /\ n = ImportName[m] THEN o ELSE modules[n]
      /\ \A p \in Objects : state'[p] = IF p = o THEN "initializing" ELSE state[p]
  BY RegisterTables DEF IInv
<1>2. d \in Names /\ Provider(d) # Null /\ ImportName[m] \in Names
  BY Running, DependencyNames DEF FrameInv, Served
<1>3. rank[d] < rank[ImportName[m]]
      /\ (Shelf[d] # None => rank[ImportName[Shelf[d]]] < rank[ImportName[m]])
  <2>1. \A n \in WantedBy(ByName(d)) : rank[n] < rank[ImportName[m]]
    BY DEF Descends, Below
  <2>2. ByName(d).name = d /\ d # None
    BY <1>2, CatalogueAssumption DEF ByName, FreeFrame
  <2>. QED
    BY <2>1, <2>2 DEF WantedBy
<1>4. /\ rank[ImportName[m]] \in Nat /\ rank[d] \in Nat
      /\ Shelf[d] # None => ImportName[Shelf[d]] \in Names
  BY <1>2, CatalogueAssumption
<1>5. q = Provider(d)
  <2>1. d # ImportName[m] /\ (Shelf[d] # None => ImportName[Shelf[d]] # ImportName[m])
    BY <1>3, <1>4
  <2>. QED
    BY <1>1, <1>2, <1>4, <2>1 DEF Provider
<1>6. /\ q \in Objects /\ q \in 1 .. created /\ q # Null /\ image[q] \in Images
      /\ q # o /\ state[q] \in States \ {"absent"}
  <2>1. q \in Objects /\ q \in 1 .. created /\ created \in Nat
    BY <1>0, <1>2, <1>5, ProviderType DEF TypeOK
  <2>. QED
    BY <1>0, <1>2, <1>5, <2>1, CreatedImage DEF TypeOK
<1>7. rank[ImportName[image[q]]] < rank[ImportName[m]]
  <2>1. q = modules[d] \/ (Shelf[d] # None /\ q = modules[ImportName[Shelf[d]]])
    BY <1>5, <1>6 DEF Provider
  <2>2. ImportName[image[q]] = d \/ (Shelf[d] # None /\ ImportName[image[q]] = ImportName[Shelf[d]])
    BY <1>0, <1>2, <1>4, <1>6, <2>1 DEF EntriesInv
  <2>. QED
    BY <1>3, <2>2
<1>8. state[q] # "initializing"
  <2>1. rank[ImportName[image[q]]] \in Nat
    BY <1>6, CatalogueAssumption
  <2>2. ASSUME state[q] = "initializing" PROVE FALSE
    <3>1. rank[ImportName[m]] < rank[ImportName[image[q]]]
      BY <1>6, <2>2, InitializingAbove DEF AloneInv
    <3>. QED
      BY <1>4, <1>7, <2>1, <3>1
  <2>. QED
    BY <2>2
<1>. QED
  BY <1>1, <1>6, <1>8 DEF States

StartsServed ==
    \A o \in Objects : state[o] = "absent" /\ state'[o] = "initializing" =>
        \A d \in Dependencies(image'[o]) :
            Provider(d)' # Null /\ state'[Provider(d)'] \in {"ready", "failed"}

LEMMA StartsStep ==
    ASSUME OneThread, NEW rank \in [Names -> Nat], Descends(rank),
           IInv, AloneInv(rank), [Next]_vars
    PROVE  StartsServed
<1>1. SUFFICES ASSUME NEW o \in Objects, state[o] = "absent", state'[o] = "initializing",
                      NEW d \in Dependencies(image'[o])
               PROVE  Provider(d)' # Null /\ state'[Provider(d)'] \in {"ready", "failed"}
  BY DEF StartsServed
<1>2. CASE UNCHANGED state \/ Program \/ (\E s \in Symbols : Shutdown(s)) \/ UNCHANGED vars
  BY <1>1, <1>2 DEF Program, AllowEmbeddedModules, LoadModuleByName, LoadModuleByStream, Begin,
                    Destroy, Shutdown, vars
<1>3. ASSUME NEW t \in Threads, Step(t), state' # state
      PROVE  Provider(d)' # Null /\ state'[Provider(d)'] \in {"ready", "failed"}
  <2>1. Link(t)
    <3>1. ASSUME Calms PROVE FALSE
      BY <1>1, <3>1 DEF Calms
    <3>. QED
      BY <1>3, <3>1, CalmSteps
  <2>2. depth[t] > 0 /\ Top(t).stage = "link" /\ created < MaxObjects
        /\ Register(Top(t).image, created + 1)
    BY <1>3, <2>1 DEF Link, At
  <2>3. PICK m \in Images : m = Top(t).image
    BY <2>2, Running DEF FrameInv
  <2>4. PICK p \in Objects : p = created + 1
    BY <2>2, BoundAssumption DEF IInv, TypeOK, Objects
  <2>5. Register(m, p)
    BY <2>2, <2>3, <2>4
  <2>6. /\ \A r \in Objects : image'[r] = IF r = p THEN m ELSE image[r]
        /\ \A r \in Objects : state'[r] = IF r = p THEN "initializing" ELSE state[r]
    BY <2>4, <2>5, RegisterTables
  <2>7. o = p /\ image'[o] = m
    BY <1>1, <2>6
  <2>8. d \in Dependencies(m)
    BY <1>1, <2>7
  <2>. QED
    BY <2>2, <2>3, <2>4, <2>5, <2>8, RegisterServed
<1>. QED
  BY <1>2, <1>3 DEF Next

(* The initializers of a module start after those of everything it depends *)
(* on have ended, for one thread and a catalogue in which dependence, the  *)
(* images that initializers open included, ends: a module that is only     *)
(* half initialized waits for an activation above it, and so ranks above   *)
(* what is being linked there.                                             *)
THEOREM DependenciesFirst == ASSUME OneThread, Ranked PROVE Spec => InitAfterDependencies
<1>1. PICK rank \in [Names -> Nat] : Descends(rank)
  BY DEF Ranked
<1>2. Spec => [](IInv /\ AloneInv(rank))
  BY <1>1, Alone
<1>. DEFINE Starts ==
              \A o \in Objects : state[o] = "absent" /\ state'[o] = "initializing" =>
                  \A d \in Dependencies(image'[o]) :
                      /\ Provider(d)' # Null
                      /\ state'[Provider(d)'] \in {"ready", "failed"}
<1>3. IInv /\ AloneInv(rank) /\ [Next]_vars => [Starts]_vars
  BY <1>1, StartsStep DEF StartsServed
<1>4. Spec => [][Starts]_vars
  BY <1>2, <1>3, PTL DEF Spec
<1>. QED
  BY <1>4 DEF InitAfterDependencies

(* With one thread, the code of a module in the table is bound only to     *)
(* symbols of modules in the table, which the context holds until it ends. *)
THEOREM ReferencesStayLive == ASSUME OneThread, Ranked PROVE Spec => []ReferencesLive
<1>1. PICK rank \in [Names -> Nat] : Descends(rank)
  BY DEF Ranked
<1>2. Spec => [](IInv /\ AloneInv(rank))
  BY <1>1, Alone
<1>3. ASSUME IInv, AloneInv(rank) PROVE ReferencesLive
  <2>1. ASSUME NEW n \in Names, modules[n] # Null,
               NEW s \in RefersTo[image[modules[n]]] \cap Symbols
        PROVE  \E k \in Names : modules[k] # Null /\ system[s] = modules[k]
    <3>1. modules[n] \in 1 .. created
      BY <1>3, <2>1 DEF IInv, TypeOK, EntriesInv, Objects
    <3>2. system[s] # Null /\ system[s] \in 1 .. created
      BY <1>3, <2>1, <3>1 DEF AloneInv, Bound, IInv, TypeOK, EntriesInv, Objects
    <3>3. PICK o \in 1 .. created : o = system[s] /\ o # Null
      BY <3>2
    <3>4. image[o] \in Images
      BY <1>3, CreatedImage DEF IInv
    <3>5. ImportName[image[o]] \in Names /\ modules[ImportName[image[o]]] = o
      BY <1>3, <3>4, CatalogueAssumption DEF AloneInv, NoOrphans
    <3>. QED
      BY <3>3, <3>5
  <2>. QED
    BY <2>1 DEF ReferencesLive
<1>. QED
  BY <1>2, <1>3, PTL
=============================================================================

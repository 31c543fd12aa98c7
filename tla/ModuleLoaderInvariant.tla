------------------------ MODULE ModuleLoaderInvariant ------------------------
(***************************************************************************)
(* The inductive invariant of the loader, and the mapping under which it   *)
(* implements ModuleRegistry. The invariant says what each activation of   *)
(* LoadModule has established so far and still relies on, although other   *)
(* threads have changed the tables since.                                  *)
(***************************************************************************)
EXTENDS ModuleLoader

Loaded(m) == modules[ImportName[m]] # Null

Served(m) == \A d \in Dependencies(m) : Provider(d) # Null

(* The object numbers in use are 1 .. created.                             *)
ObjectsInv ==
    \A o \in Objects : /\ image[o] # None <=> o <= created
                       /\ state[o] = "absent" <=> o > created

(* An entry of the table is a created object, under its own import name;   *)
(* a symbol comes from a created object.                                   *)
EntriesInv ==
    /\ \A n \in Names : modules[n] # Null =>
          modules[n] <= created /\ ImportName[image[modules[n]]] = n
    /\ \A s \in Symbols : system[s] # Null => system[s] <= created

(* What the activation f of thread t knows.                                *)
FrameInv(t, f) ==
    /\ f.stage # "free"
    /\ f.stage = "lookup" => f.name \in Names /\ f.image = None
    /\ f.stage # "lookup" => /\ f.image \in Images
                             /\ f.name # None => Shelf[f.name] = f.image
    /\ f.stage \in {"open", "embed"} => f.i = 1
    /\ f.stage = "depend" =>
         \A k \in 1 .. Len(DependsOn[f.image]) :
             k < f.i => Provider(DependsOn[f.image][k]) # Null
    /\ f.stage \in {"version", "link"} => Served(f.image)
    /\ f.stage = "link" => \A r \in Needs[f.image] : Accepts(f.image, r)
    /\ f.stage = "initialize" =>
         /\ f.object \in 1 .. created
         /\ image[f.object] = f.image
         /\ Loaded(f.image)
    /\ f.stage = "unwind" => reported[t]

(* An activation below the top waits inside one of its loops or for an     *)
(* initializer that loads a module, and the one above it was called for    *)
(* the item it is at.                                                      *)
LinkInv(f, g) ==
    /\ f.stage \in {"embedding", "depend", "initialize"}
    /\ f.stage = "depend" => /\ f.i \in 1 .. Len(DependsOn[f.image])
                             /\ g.name = DependsOn[f.image][f.i]

StacksInv ==
    \A t \in Threads :
        /\ \A d \in 1 .. depth[t] : FrameInv(t, stack[t][d])
        /\ \A d \in 1 .. depth[t] : d < depth[t] => LinkInv(stack[t][d], stack[t][d + 1])

AnswersInv ==
    \A t \in Threads :
        /\ answer[t] # None => depth[t] = 0
        /\ answer[t] \in Objects => answer[t] <= created /\ Loaded(image[answer[t]])
        /\ answer[t] = Null => reported[t]
        /\ reported[t] => error # "Success"

(* A symbol that still carries FunctionShutdown is that of a module which  *)
(* is ready or is being initialized by some thread; none is once the       *)
(* context is going away.                                                  *)
ShutdownInv ==
    /\ \A s \in shutdowns :
          system[s] # Null /\ state[system[s]] \in {"initializing", "ready"}
    /\ \A o \in Objects : state[o] = "initializing" =>
         \E t \in Threads : \E d \in 1 .. depth[t] :
             stack[t][d].stage = "initialize" /\ stack[t][d].object = o
    /\ ~alive => \A t \in Threads : depth[t] = 0
    /\ ended \subseteq shutdowns
    /\ alive => ended = {}

IInv ==
    /\ TypeOK
    /\ ObjectsInv
    /\ EntriesInv
    /\ StacksInv
    /\ AnswersInv
    /\ ShutdownInv
    /\ DependencyClosed
    /\ VersionsMet

-----------------------------------------------------------------------------
(* One thread.  What holds for a single thread only also needs a catalogue *)
(* in which dependence ends: names can be ranked so that whatever an image *)
(* asks for while it is being loaded, a dependency by name, an embedded    *)
(* image or an image its initializers open, ranks below the name it will   *)
(* itself be registered under.                                             *)

(* The names a call of LoadModule could register before it returns.        *)
WantedBy(f) ==
    IF f.name = None THEN {ImportName[f.image]}
    ELSE {f.name} \cup (IF Shelf[f.name] = None THEN {} ELSE {ImportName[Shelf[f.name]]})

Below(f, m, rank) == \A n \in WantedBy(f) : rank[n] < rank[ImportName[m]]

Descends(rank) ==
    \A m \in Images :
        /\ \A d \in Dependencies(m) : Below(ByName(d), m, rank)
        /\ \A k \in 1 .. Len(Embedded[m]) : Below(ByStream(None, Embedded[m][k]), m, rank)
        /\ \A k \in 1 .. Len(Asks[m]) : Below(ByStream(None, Asks[m][k]), m, rank)

OneThread == \A t, u \in Threads : t = u
Ranked == \E rank \in [Names -> Nat] : Descends(rank)

(* Every activation ranks below those that wait for it.                    *)
StacksDescend(rank) ==
    \A t \in Threads : \A d, e \in 1 .. depth[t] :
        d < e => Below(stack[t][e], stack[t][d].image, rank)

(* What an activation has found missing is still missing when it links.    *)
Unlinked == {"embed", "embedding", "depend", "version", "link"}
StillMissing ==
    \A t \in Threads : \A d \in 1 .. depth[t] :
        stack[t][d].stage \in Unlinked => ~Loaded(stack[t][d].image)

(* The references of linked code were bound.                               *)
Bound ==
    \A o \in 1 .. created : \A s \in RefersTo[image[o]] \cap Symbols : system[s] # Null

AloneInv(rank) ==
    /\ StacksDescend(rank)
    /\ StillMissing
    /\ Bound
    /\ NoOrphans

-----------------------------------------------------------------------------
(* The refinement mapping.                                                 *)

loadedNames == {n \in Names : modules[n] # Null}

(* What would answer a call is decided by its oldest activation.           *)
wantedNames == [t \in Threads |-> IF depth[t] = 0 THEN {} ELSE WantedBy(stack[t][1])]

answerNames ==
    [t \in Threads |-> IF answer[t] \in Objects THEN ImportName[image[answer[t]]] ELSE None]

Registry == INSTANCE ModuleRegistry WITH
    loaded <- loadedNames, wanted <- wantedNames, answer <- answerNames

(* The loader implements the abstract registry, also when threads load at  *)
(* the same time: modules appear one by one after what they depend on, and *)
(* a call of LoadModule is answered with a loaded module it asked for, or  *)
(* with null.                                                              *)
ImplementsRegistrySafety == Registry!Safety

(* And every call of LoadModule is answered: no chain of dependencies and  *)
(* embedded modules, and no failure in one, leaves it stuck.               *)
ImplementsRegistry == Registry!Spec
=============================================================================

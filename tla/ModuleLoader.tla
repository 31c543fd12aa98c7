---------------------------- MODULE ModuleLoader ----------------------------
(***************************************************************************)
(* XE::ExecutionContext (xenv/xe_ctx.cxx): the run-time loader of XI       *)
(* module images, its table of modules, its global symbol system and the   *)
(* error slot of the standard loader (xenv/xe_loader.cxx).                 *)
(*                                                                         *)
(* Every critical section of _sync is one action: nothing inside one waits *)
(* for another thread, so its steps cannot be told apart from outside.     *)
(* What the code does between two critical sections is local to the        *)
(* calling thread and belongs to the action that follows it.               *)
(*                                                                         *)
(* LoadModule recurses, over dependencies and embedded modules and out of  *)
(* the initializers it runs; a thread's activations are                    *)
(* stack[t][1 .. depth[t]].                                                *)
(* An object is a Module that reached the table or the symbol system; it   *)
(* is numbered when it does, and Null is the null pointer.                 *)
(***************************************************************************)
EXTENDS Naturals, Sequences

CONSTANTS
    Threads,      (* the program's threads                                  *)
    Names,        (* module names: of files, of dependencies, of modules    *)
    Images,       (* module images (parsed XI::Module data)                 *)
    Symbols,      (* the named symbols images define and refer to           *)
    None,
    Shelf,        (* OpenModule: the image found under a name, or None      *)
    ImportName,   (* module_import_name of an image                         *)
    Embedded,     (* its XDL resources, in order                            *)
    DependsOn,    (* modules_depends_on, in order                           *)
    Needs,        (* keys of ModuleVersionsNeeded                           *)
    Compatible,   (* <<i, j>>: j answers IsCompatibleWithVersion to i       *)
    Untrusted,    (* images EvaluateTrust refuses                           *)
    Malformed,    (* images XI::Module cannot be built from                 *)
    Defines,      (* named symbols of an image                              *)
    Defective,    (* those of them that cannot be registered or translated  *)
    RefersTo,     (* the S: and M: references of its code                   *)
    Initializers, (* those of its symbols that carry FunctionInitialize     *)
    Finalizers,   (* those that carry FunctionShutdown                      *)
    Fallible,     (* images an initializer of which may set an error code   *)
    Asks,         (* images its initializers open with _load_library        *)
    MaxDepth,     (* bound: activations of LoadModule on one thread         *)
    MaxObjects,   (* bound: objects created                                 *)
    MaxCalls      (* bound: calls made by the program                       *)

Null == 0
Objects == 1 .. MaxObjects

ASSUME CatalogueAssumption ==
    /\ None \notin Names \cup Images \cup Nat
    /\ Symbols \cap Names = {}
    /\ Shelf \in [Names -> Images \cup {None}]
    /\ ImportName \in [Images -> Names]
    /\ Embedded \in [Images -> Seq(Images)]
    /\ DependsOn \in [Images -> Seq(Names)]
    /\ Needs \in [Images -> SUBSET Names]
    /\ Compatible \subseteq Images \X Images
    /\ Untrusted \subseteq Images
    /\ Malformed \subseteq Images
    /\ Defines \in [Images -> SUBSET Symbols]
    /\ Defective \in [Images -> SUBSET Symbols]
    /\ RefersTo \in [Images -> SUBSET (Symbols \cup Names)]
    /\ Initializers \in [Images -> SUBSET Symbols]
    /\ Finalizers \in [Images -> SUBSET Symbols]
    /\ Fallible \subseteq Images
    /\ Asks \in [Images -> Seq(Images)]

ASSUME BoundAssumption ==
    /\ MaxDepth \in Nat \ {0}
    /\ MaxObjects \in Nat \ {0}
    /\ MaxCalls \in Nat

VARIABLES
    modules,      (* _modules: import name -> object, or Null               *)
    system,       (* _system: named symbol -> the object it came from       *)
    shutdowns,    (* symbols of the system that carry FunctionShutdown      *)
    embedding,    (* _allow_embedded_modules                                *)
    error,        (* _error of the standard loader                          *)
    image,        (* object -> the image it was made from                   *)
    created,      (* objects created so far                                 *)
    state,        (* object -> how far its initialization got               *)
    stack,        (* thread -> activations of LoadModule                    *)
    depth,        (* thread -> how many of them are active                  *)
    answer,       (* thread -> what its last call returned, None during it  *)
    reported,     (* thread -> whether its last call reported an error      *)
    calls,        (* calls made so far                                      *)
    alive,        (* FALSE once ~ExecutionContext has started               *)
    ended         (* shutdown routines that have run                        *)

tables == <<modules, system, image, created>>
thread == <<stack, depth, answer>>
vars == <<modules, system, shutdowns, embedding, error, image, created, state,
          stack, depth, answer, reported, calls, alive, ended>>

Errors == {"Success", "NoSuchModule", "InvalidImageFormat", "Distrusted",
           "ModuleVersionMismatch", "DefectiveSymbol", "LinkageFailure",
           "InitializationFailure"}

Stages == {"free", "lookup", "open", "embed", "embedding", "depend", "version",
           "link", "initialize", "unwind"}

States == {"absent", "initializing", "ready", "failed"}

(* One activation: the name it was asked for (None for a stream), the      *)
(* image it has open, the object it made, the index of its inner loop and  *)
(* the initializers it has to run.                                         *)
Frame == [stage : Stages, name : Names \cup {None}, image : Images \cup {None},
          object : Objects \cup {Null}, i : Nat \ {0}, todo : SUBSET Symbols]

FreeFrame == [stage |-> "free", name |-> None, image |-> None, object |-> Null,
              i |-> 1, todo |-> {}]

ByName(n) == [FreeFrame EXCEPT !.stage = "lookup", !.name = n]

ByStream(n, m) == [FreeFrame EXCEPT !.stage = "open", !.name = n, !.image = m]

TypeOK ==
    /\ modules \in [Names -> Objects \cup {Null}]
    /\ system \in [Symbols -> Objects \cup {Null}]
    /\ shutdowns \subseteq Symbols
    /\ embedding \in BOOLEAN
    /\ error \in Errors
    /\ image \in [Objects -> Images \cup {None}]
    /\ created \in 0 .. MaxObjects
    /\ state \in [Objects -> States]
    /\ stack \in [Threads -> [1 .. MaxDepth -> Frame]]
    /\ depth \in [Threads -> 0 .. MaxDepth]
    /\ answer \in [Threads -> Objects \cup {Null, None}]
    /\ reported \in [Threads -> BOOLEAN]
    /\ calls \in 0 .. MaxCalls
    /\ alive \in BOOLEAN
    /\ ended \subseteq Symbols

Init ==
    /\ modules = [n \in Names |-> Null]
    /\ system = [s \in Symbols |-> Null]
    /\ shutdowns = {}
    /\ embedding = FALSE
    /\ error = "Success"
    /\ image = [o \in Objects |-> None]
    /\ created = 0
    /\ state = [o \in Objects |-> "absent"]
    /\ stack = [t \in Threads |-> [d \in 1 .. MaxDepth |-> FreeFrame]]
    /\ depth = [t \in Threads |-> 0]
    /\ answer = [t \in Threads |-> None]
    /\ reported = [t \in Threads |-> FALSE]
    /\ calls = 0
    /\ alive = TRUE
    /\ ended = {}

-----------------------------------------------------------------------------
(* Activations.                                                            *)

Top(t) == stack[t][depth[t]]

At(t, stage) == depth[t] > 0 /\ Top(t).stage = stage

SetTop(t, f) ==
    /\ stack' = [stack EXCEPT ![t][depth[t]] = f]
    /\ UNCHANGED <<depth, answer>>

Push(t, f) ==
    /\ depth[t] < MaxDepth
    /\ depth' = [depth EXCEPT ![t] = @ + 1]
    /\ stack' = [stack EXCEPT ![t][depth[t] + 1] = f]

(* Mutant: the result of a dependency is not looked at.                    *)
ResumedRegardless(f, value) == [f EXCEPT !.i = @ + 1]

(* The activation below takes the value: null makes it return null too,    *)
(* anything else makes it go on to the next item of its loop. An           *)
(* initializer gets a library object either way and goes on.               *)
Resumed(f, value) ==
    IF value = Null /\ f.stage # "initialize" THEN [f EXCEPT !.stage = "unwind"]
    ELSE [f EXCEPT !.i = @ + 1]

Return(t, value) ==
    /\ depth' = [depth EXCEPT ![t] = @ - 1]
    /\ stack' = [stack EXCEPT ![t] =
                   [d \in 1 .. MaxDepth |->
                      IF d = depth[t] THEN FreeFrame
                      ELSE IF d = depth[t] - 1 THEN Resumed(stack[t][d], value)
                      ELSE stack[t][d]]]
    /\ answer' = IF depth[t] = 1 THEN [answer EXCEPT ![t] = value] ELSE answer

(* HandleModuleLoadError overwrites whatever was reported before.          *)
Report(t, e) ==
    /\ error' = e
    /\ reported' = [reported EXCEPT ![t] = TRUE]

Fail(t, e) == Report(t, e) /\ Return(t, Null)

-----------------------------------------------------------------------------
(* What the program does with the context.                                 *)

AllowEmbeddedModules(allow) ==
    /\ alive /\ embedding # allow
    /\ embedding' = allow
    /\ UNCHANGED <<tables, thread, shutdowns, error, state, reported, calls, alive, ended>>

Begin(t, f) ==
    /\ alive /\ depth[t] = 0 /\ calls < MaxCalls
    /\ Push(t, f)
    /\ answer' = [answer EXCEPT ![t] = None]
    /\ reported' = [reported EXCEPT ![t] = FALSE]
    /\ calls' = calls + 1
    /\ UNCHANGED <<tables, shutdowns, embedding, error, state, alive, ended>>

LoadModuleByName(t, n) == Begin(t, ByName(n))

LoadModuleByStream(t, m) == Begin(t, ByStream(None, m))

(* ~ExecutionContext starts when the last reference goes, so no thread is  *)
(* inside the context; it then runs the routines that still carry          *)
(* FunctionShutdown. Their order is that of the symbol names, which says   *)
(* nothing about the modules: any order.                                   *)
Destroy ==
    /\ alive /\ \A t \in Threads : depth[t] = 0
    /\ alive' = FALSE
    /\ UNCHANGED <<tables, thread, shutdowns, embedding, error, state, reported, calls, ended>>

Shutdown(s) ==
    /\ ~alive /\ s \in shutdowns \ ended
    /\ ended' = ended \cup {s}
    /\ UNCHANGED <<tables, thread, shutdowns, embedding, error, state, reported, calls, alive>>

-----------------------------------------------------------------------------
(* Mutant: a missing image is passed over without a report.                *)
LookupSilently(t) ==
    LET n == Top(t).name IN
    /\ At(t, "lookup")
    /\ \/ /\ modules[n] # Null
          /\ Return(t, modules[n])
       \/ /\ modules[n] = Null /\ Shelf[n] = None
          /\ Return(t, Null)
       \/ /\ modules[n] = Null /\ Shelf[n] # None
          /\ SetTop(t, ByStream(n, Shelf[n]))
    /\ UNCHANGED <<tables, shutdowns, embedding, error, state, reported, calls, alive, ended>>

(* LoadModule(name): one critical section looks the name up and opens the  *)
(* image; a missing image is reported in it.                               *)
Lookup(t) ==
    LET n == Top(t).name IN
    /\ At(t, "lookup")
    /\ \/ /\ modules[n] # Null
          /\ Return(t, modules[n])
          /\ UNCHANGED <<error, reported>>
       \/ /\ modules[n] = Null /\ Shelf[n] = None
          /\ Fail(t, "NoSuchModule")
       \/ /\ modules[n] = Null /\ Shelf[n] # None
          /\ SetTop(t, ByStream(n, Shelf[n]))
          /\ UNCHANGED <<error, reported>>
    /\ UNCHANGED <<tables, shutdowns, embedding, state, calls, alive, ended>>

(* Mutant: no second look into the table.                                  *)
OpenBlindly(t) ==
    LET m == Top(t).image IN
    /\ At(t, "open")
    /\ \/ /\ m \in Untrusted
          /\ Fail(t, "Distrusted")
       \/ /\ m \in Malformed \ Untrusted
          /\ Fail(t, "InvalidImageFormat")
       \/ /\ m \notin Malformed \cup Untrusted
          /\ SetTop(t, [Top(t) EXCEPT !.stage = "embed"])
          /\ UNCHANGED <<error, reported>>
    /\ UNCHANGED <<tables, shutdowns, embedding, state, calls, alive, ended>>

(* LoadModule(name, stream) up to the creation of the Module: trust, image *)
(* format, and a second look into the table, by import name this time.     *)
Open(t) ==
    LET m == Top(t).image
        known == modules[ImportName[m]]
    IN
    /\ At(t, "open")
    /\ \/ /\ m \in Untrusted
          /\ Fail(t, "Distrusted")
       \/ /\ m \in Malformed \ Untrusted
          /\ Fail(t, "InvalidImageFormat")
       \/ /\ m \notin Malformed \cup Untrusted /\ known # Null
          /\ Return(t, known)
          /\ UNCHANGED <<error, reported>>
       \/ /\ m \notin Malformed \cup Untrusted /\ known = Null
          /\ SetTop(t, [Top(t) EXCEPT !.stage = "embed"])
          /\ UNCHANGED <<error, reported>>
    /\ UNCHANGED <<tables, shutdowns, embedding, state, calls, alive, ended>>

(* EmbeddedModulesAllowed() is asked once, before the loop over resources. *)
Embed(t) ==
    /\ At(t, "embed")
    /\ SetTop(t, [Top(t) EXCEPT !.stage = IF embedding THEN "embedding" ELSE "depend"])
    /\ UNCHANGED <<tables, shutdowns, embedding, error, state, reported, calls, alive, ended>>

LoadEmbedded(t) ==
    LET f == Top(t) IN
    /\ At(t, "embedding")
    /\ \/ /\ f.i <= Len(Embedded[f.image])
          /\ Push(t, ByStream(None, Embedded[f.image][f.i]))
          /\ UNCHANGED answer
       \/ /\ f.i > Len(Embedded[f.image])
          /\ SetTop(t, [f EXCEPT !.stage = "depend", !.i = 1])
    /\ UNCHANGED <<tables, shutdowns, embedding, error, state, reported, calls, alive, ended>>

(* Mutant: the loop stops one dependency short.                            *)
LoadDependencyButLast(t) ==
    LET f == Top(t) IN
    /\ At(t, "depend")
    /\ \/ /\ f.i < Len(DependsOn[f.image])
          /\ Push(t, ByName(DependsOn[f.image][f.i]))
          /\ UNCHANGED answer
       \/ /\ f.i >= Len(DependsOn[f.image])
          /\ SetTop(t, [f EXCEPT !.stage = "version"])
    /\ UNCHANGED <<tables, shutdowns, embedding, error, state, reported, calls, alive, ended>>

LoadDependency(t) ==
    LET f == Top(t) IN
    /\ At(t, "depend")
    /\ \/ /\ f.i <= Len(DependsOn[f.image])
          /\ Push(t, ByName(DependsOn[f.image][f.i]))
          /\ UNCHANGED answer
       \/ /\ f.i > Len(DependsOn[f.image])
          /\ SetTop(t, [f EXCEPT !.stage = "version"])
    /\ UNCHANGED <<tables, shutdowns, embedding, error, state, reported, calls, alive, ended>>

Accepts(m, n) == modules[n] # Null /\ <<m, image[modules[n]]>> \in Compatible

(* Mutant: a required module has to be there, in whatever version.         *)
CheckPresence(t) ==
    LET f == Top(t)
        refused == {n \in Needs[f.image] : modules[n] = Null}
    IN
    /\ At(t, "version")
    /\ \/ /\ refused # {}
          /\ Fail(t, "InvalidImageFormat")
       \/ /\ refused = {}
          /\ SetTop(t, [f EXCEPT !.stage = "link"])
          /\ UNCHANGED <<error, reported>>
    /\ UNCHANGED <<tables, shutdowns, embedding, state, calls, alive, ended>>

(* GetModule and IsCompatibleWithVersion for each required version. Each   *)
(* has a critical section of its own; the table only grows, so checking    *)
(* them at one instant allows the same outcomes.                           *)
CheckVersions(t) ==
    LET f == Top(t)
        refused == {n \in Needs[f.image] : ~Accepts(f.image, n)}
    IN
    /\ At(t, "version")
    /\ \/ \E n \in refused :
             Fail(t, IF modules[n] = Null THEN "InvalidImageFormat"
                     ELSE "ModuleVersionMismatch")
       \/ /\ refused = {}
          /\ SetTop(t, [f EXCEPT !.stage = "link"])
          /\ UNCHANGED <<error, reported>>
    /\ UNCHANGED <<tables, shutdowns, embedding, state, calls, alive, ended>>

(* The symbols of an image that the system does not know yet.              *)
Local(m) == {s \in Defines[m] : system[s] = Null}

Resolves(m, r) ==
    \/ r \in Defines[m]
    \/ r \in Symbols /\ system[r] # Null
    \/ r = ImportName[m]
    \/ r \in Names /\ modules[r] # Null

(* Mutant: a second value replaces the first.                              *)
Overwrite(table, key, value) == [table EXCEPT ![key] = value]

(* Append keeps the first value of a key and reports the second by a       *)
(* result nobody reads.                                                    *)
Append1(table, key, value) ==
    IF table[key] = Null THEN [table EXCEPT ![key] = value] ELSE table

Register(m, o) ==
    /\ modules' = Append1(modules, ImportName[m], o)
    /\ system' = [s \in Symbols |-> IF s \in Local(m) THEN o ELSE system[s]]
    /\ image' = [image EXCEPT ![o] = m]
    /\ created' = o
    /\ state' = [state EXCEPT ![o] = "initializing"]
    /\ shutdowns' = shutdowns \cup (Local(m) \cap Finalizers[m])

(* The critical section that translates, links and registers.              *)
Link(t) ==
    LET f == Top(t)
        m == f.image
        broken == Local(m) \cap Defective[m]
        unresolved == {r \in RefersTo[m] : ~Resolves(m, r)}
    IN
    /\ At(t, "link")
    /\ \/ /\ broken # {}
          /\ Fail(t, "DefectiveSymbol")
          /\ UNCHANGED <<tables, shutdowns, state>>
       \/ /\ broken = {} /\ unresolved # {}
          /\ Fail(t, "LinkageFailure")
          /\ UNCHANGED <<tables, shutdowns, state>>
       \/ /\ broken = {} /\ unresolved = {} /\ created < MaxObjects
          /\ Register(m, created + 1)
          /\ SetTop(t, [f EXCEPT !.stage = "initialize", !.object = created + 1, !.i = 1,
                                 !.todo = Local(m) \cap Initializers[m]])
          /\ UNCHANGED <<error, reported>>
    /\ UNCHANGED <<embedding, calls, alive, ended>>

(* The symbols that were registered for an object.                         *)
Registered(o) == {s \in Symbols : system[s] = o}

(* Mutant: a failed initializer leaves FunctionShutdown where it is.       *)
InitializeKeepingFlags(t) ==
    LET f == Top(t) IN
    /\ At(t, "initialize")
    /\ \E s \in f.todo :
         \/ /\ SetTop(t, [f EXCEPT !.todo = @ \ {s}])
            /\ UNCHANGED <<state, error, reported>>
         \/ /\ f.image \in Fallible
            /\ state' = [state EXCEPT ![f.object] = "failed"]
            /\ Fail(t, "InitializationFailure")
    /\ UNCHANGED <<tables, shutdowns, embedding, calls, alive, ended>>

(* Mutant: a failed module is taken out of the table, its symbols are not. *)
InitializeOrDrop(t) ==
    LET f == Top(t) IN
    /\ At(t, "initialize")
    /\ \E s \in f.todo :
         \/ /\ SetTop(t, [f EXCEPT !.todo = @ \ {s}])
            /\ UNCHANGED <<modules, shutdowns, state, error, reported>>
         \/ /\ f.image \in Fallible
            /\ modules' = [modules EXCEPT ![ImportName[f.image]] = Null]
            /\ shutdowns' = shutdowns \ Registered(f.object)
            /\ state' = [state EXCEPT ![f.object] = "failed"]
            /\ Fail(t, "InitializationFailure")
    /\ UNCHANGED <<system, image, created, embedding, calls, alive, ended>>

(* The FunctionInitialize routines run outside the lock, in the order of   *)
(* their names: any order. One that sets an error code takes               *)
(* FunctionShutdown off the functions registered for the module; the       *)
(* module and its symbols stay in the tables.                              *)
Initialize(t) ==
    LET f == Top(t) IN
    /\ At(t, "initialize")
    /\ \E s \in f.todo :
         \/ /\ SetTop(t, [f EXCEPT !.todo = @ \ {s}])
            /\ UNCHANGED <<shutdowns, state, error, reported>>
         \/ /\ f.image \in Fallible
            /\ shutdowns' = shutdowns \ Registered(f.object)
            /\ state' = [state EXCEPT ![f.object] = "failed"]
            /\ Fail(t, "InitializationFailure")
    /\ UNCHANGED <<tables, embedding, calls, alive, ended>>

(* While an initializer runs its code may load modules into the same       *)
(* context: _load_library with flag 2 calls LoadModule on the thread that  *)
(* is inside LoadModule already, and not under _sync.                      *)
LoadFromInitializer(t) ==
    LET f == Top(t) IN
    /\ At(t, "initialize") /\ f.todo # {}
    /\ f.i <= Len(Asks[f.image])
    /\ Push(t, ByStream(None, Asks[f.image][f.i]))
    /\ UNCHANGED <<tables, shutdowns, embedding, error, state, answer, reported, calls,
                   alive, ended>>

Complete(t) ==
    LET f == Top(t) IN
    /\ At(t, "initialize") /\ f.todo = {}
    /\ state' = [state EXCEPT ![f.object] = "ready"]
    /\ Return(t, f.object)
    /\ UNCHANGED <<tables, shutdowns, embedding, error, reported, calls, alive, ended>>

Unwind(t) ==
    /\ At(t, "unwind")
    /\ Return(t, Null)
    /\ UNCHANGED <<tables, shutdowns, embedding, error, state, reported, calls, alive, ended>>

Step(t) ==
    \/ Lookup(t) \/ Open(t) \/ Embed(t) \/ LoadEmbedded(t) \/ LoadDependency(t)
    \/ CheckVersions(t) \/ Link(t) \/ Initialize(t) \/ LoadFromInitializer(t)
    \/ Complete(t) \/ Unwind(t)

Program ==
    \/ \E allow \in BOOLEAN : AllowEmbeddedModules(allow)
    \/ \E t \in Threads, n \in Names : LoadModuleByName(t, n)
    \/ \E t \in Threads, m \in Images : LoadModuleByStream(t, m)
    \/ Destroy

Next ==
    \/ Program
    \/ \E t \in Threads : Step(t)
    \/ \E s \in Symbols : Shutdown(s)

(* A thread inside LoadModule keeps running: nothing in it waits, except   *)
(* for _sync, which every holder releases.                                 *)
Fairness == \A t \in Threads : WF_vars(Step(t))

Spec == Init /\ [][Next]_vars /\ Fairness

-----------------------------------------------------------------------------
(* What the loader promises.                                               *)

(* The object a dependency d is served by: the module of that name, or the *)
(* one under the import name of the image the name d opens.                *)
Provider(d) ==
    IF modules[d] # Null THEN modules[d]
    ELSE IF Shelf[d] # None THEN modules[ImportName[Shelf[d]]]
    ELSE Null

Dependencies(m) == {DependsOn[m][k] : k \in 1 .. Len(DependsOn[m])}

(* No module is in the table without every module it depends on, whatever  *)
(* failed on the way and whatever other threads were loading meanwhile     *)
(* (the loop over modules_depends_on precedes the registration).           *)
DependencyClosed ==
    \A n \in Names : modules[n] # Null =>
        \A d \in Dependencies(image[modules[n]]) : Provider(d) # Null

(* No module is in the table beside a module of a version it does not      *)
(* accept: the check precedes registration by several critical sections,   *)
(* and must not have become stale when the module is registered.           *)
VersionsMet ==
    \A n \in Names : modules[n] # Null =>
        \A r \in Needs[image[modules[n]]] : Accepts(image[modules[n]], r)

(* Pointers to modules and symbols are handed out without a reference, so  *)
(* no entry of the module table or of the symbol system may ever be        *)
(* replaced or dropped, and no object may be made over into another image. *)
RegistryGrows ==
    [][/\ \A n \in Names : modules[n] # Null => modules'[n] = modules[n]
       /\ \A s \in Symbols : system[s] # Null => system'[s] = system[s]
       /\ \A o \in Objects : image[o] # None => image'[o] = image[o]]_vars

(* A call that returned null has told the loader callback why during that  *)
(* call, however deep the failure was, and IsAlive() is false from then on. *)
FailureReported ==
    \A t \in Threads : answer[t] = Null => reported[t] /\ error # "Success"

(* ~ExecutionContext runs a shutdown routine only if all the initializers  *)
(* of the module it came from succeeded.                                   *)
ShutdownOnlyReady == \A s \in ended : system[s] # Null /\ state[system[s]] = "ready"

(* The pointer LoadModule returns is that of a module in the table: the    *)
(* caller is given no reference, so any other object is freed already.     *)
ResultRegistered ==
    \A t \in Threads : answer[t] \in Objects => \E n \in Names : modules[n] = answer[t]

(* Every object whose code was linked is the one its name stands for, so a *)
(* module has one instance and its initializers run once.                  *)
NoOrphans == \A o \in 1 .. created : modules[ImportName[image[o]]] = o

(* When the initializers of a module start, those of everything it depends *)
(* on have finished: also when an initializer loads modules itself, as     *)
(* long as what it opens ranks below the module it initializes (Descends   *)
(* in ModuleLoaderInvariant).                                              *)
InitAfterDependencies ==
    [][\A o \in Objects : state[o] = "absent" /\ state'[o] = "initializing" =>
          \A d \in Dependencies(image'[o]) :
              /\ Provider(d)' # Null
              /\ state'[Provider(d)'] \in {"ready", "failed"}]_vars

(* Every named symbol the code of a registered module is bound to comes    *)
(* from a module in the table, which keeps its code and data alive.        *)
ReferencesLive ==
    \A n \in Names : modules[n] # Null =>
        \A s \in RefersTo[image[modules[n]]] \cap Symbols :
            \E k \in Names : modules[k] # Null /\ system[s] = modules[k]
=============================================================================

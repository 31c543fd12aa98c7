# A verification project for Engine XZ

Engine XZ (the directories under `src/`) is a language and run-time platform: compilers translate
source text to *XI* module images, the *XE* execution context loads, links and initializes the images
inside a process, and a set of services (console, network, windows, media) is offered to the loaded
programs. This directory holds TLA+ models of its concurrent and stateful parts, TLC configurations
that check them on small instances, and proofs for the TLA+ proof system (TLAPS) that hold for every
value of the constants.

Line numbers below refer to files under `src/`. `PROJECT.json` has, for every definition of the models,
the lines it stands for.

* [1. Inventory](#1-inventory)
* [2. Modules](#2-modules-and-how-they-correspond-to-the-code)
* [3. Runs](#3-runs-bounds-and-what-they-show)
* [4. Fairness and deadlock](#4-fairness-and-deadlock)
* [5. Proofs](#5-proofs)
* [6. Findings](#6-findings)
* [7. What is not modelled, and why](#7-what-is-not-modelled-and-why)
* [8. Plan](#8-plan)

## 1. Inventory

| Component | State it keeps | Operations | Interacts with | What is hard |
|---|---|---|---|---|
| **Module loader**, `xenv/xe_ctx.cxx`, `xe_loader.cxx`, `xe_rtss.cxx` | table of modules by import name, global symbol system, flags of symbols, the embedded-modules switch, the callback's error slot | `LoadModule` (by name, by stream; recursive over embedded modules and dependencies), `LoadModuleResources`, look-ups, destructor | loader callback (opens images, trust, errors), programs' threads, initializers it calls outside its lock | one call is many critical sections; failures deep in the recursion; modules visible before they are initialized; initializers that load modules |
| **Launcher**, `xexec/` | launch configuration, main thread, per-process sub-contexts | start-up, `_load_library`, activation of a second instance | loader, console, window system | run-time loading from several threads |
| **Console**, `xcon/xc_io.cxx`, `xcon/client/xc_api.cxx`, `xcon/common/xc_channel.cxx` | window: attached programs and their unanswered requests, queue of keys, line being edited, mode, end-of-stream flag; program: lists of inputs and of answers with their counters | attach, read an event, ask a question, change settings, detach; keys, resizes and closing by the user | one local socket per program; threads on both ends; the window system's task queue | keys pass two queues and two locks; programs leave and die at any moment; a destructor waits for the other process |
| **Console screen**, `xcon/xc_buffer.cxx`, `xc_window.cxx` | cells, caret, scrolling, back buffers | rendering and output verbs | the console's tasks | sequential, large data |
| **Network engine, Unix**, `xenv/xe_netapi_unix.cxx` | per-object request queues, command pipe, dispatcher's table of clients and `pollfd`s, use count | start and stop, connect, listen, accept, send, receive, cancel | dispatcher thread, programs' threads, completion handlers as tasks | lock held over a blocking write, references passed through a pipe, cancellation against completion |
| **Network engine, other platforms and TLS**, `xe_netapi_windows.cxx`, `xe_netapi_macosx.cxx`, `xe_netapi_ossl.cxx`, `xe_netapi_schannel.cxx` | completion ports, platform objects | the same contract | platform libraries | the state is the platform's |
| **HTTP client**, `xv_lib/http.xv`, `http_sessio.xv` | session: connection, queue of requests, sending flag; manager: table of sessions; download: tries, redirection flag, destination stream | `require`, continuations of a request, `_siste`, `clode`; retry, redirection, the timer that closes idle sessions | network engine, the client's task queue, programs' responders | three kinds of threads carry one request on; failures are retried; a session can be closed between any two steps |
| **HTTP server**, `xv_lib/http_servus.xv` | table of channels, counter of acceptors and processors, two signals; per connection a mode, head, body and answer | accept, read, parse, call the extension, write, `clode` | network engine, a pool, programs' extensions | continuations look at a signal that can be raised just after; shutdown waits for all |
| **Remote calls**, `xv_lib/ifr.xv` | channel, task queue, semaphore of calls, signal, status and data of the last answer, closing task | call, answer, `clode` | network engine, task queue, exported objects | one slot for the answer, several writers; calls from inside calls; either end goes away |
| **Threads and task queues**, `xenv/xe_stdext.cxx` | wrappers of Engine Runtime objects | start, join, post, wait | everything | the runtime is external |
| **Trust**, `xenv_sec/` | certificates, quarantine file | verdict on an image | loader | sequential arithmetic |
| **Image format XI**, `ximg/` | module data | parse, build, resources | loader, compilers | format validation |
| **Translators and linkers**, `xasm/`, `native/` | none between calls | code generation | loader, compilers | pure functions of large data |
| **Compilers**, `xv/`, `xlang/`, `xw/` | one compilation | compile | image format | sequential |
| **Language server**, `xv_sl/` | open documents, each with its text, version, what the compiler said of the last text compiled, and waiting requests | open, change, close; requests about the text; completion; shutdown | an editor, a thread pool, the compilers | compilations finish after the text has changed; a document outlives its file's closing |
| **UI, graphics, media, typography**, `xenv/xe_wndapi.cxx`, `xe_engine_ui.cxx`, `xe_mm.cxx`, ... | platform handles | bindings | platform | external |
| **Files, logs, reflection, shared memory, power, cryptography** of the run time | handles | one system call an operation | platform | external |
| **Shell extensions, installers, tools** | none | command lines | - | sequential; partly vendored |

What makes each component correct, in the order in which the project takes them up:

* *Loader.* A module is in the table only with everything it depends on, in versions it accepts; the
  tables only grow, because pointers into them are handed out without a reference; a failure anywhere in
  the recursion reaches the caller as null *and* a reported error; shutdown routines run only for modules
  whose initializers all succeeded; every call is answered; a module has one instance; initializers run
  after those of the dependencies, also when an initializer loads modules.
* *Console.* No key is lost, doubled, overtaken or kept while somebody waits for one; who waits is known
  to wait; an answer goes to the call that asked; programs that leave, die or outlive the window never
  leave a waiting thread or destructor behind; the window learns when it is alone and survives its
  programs.
* *Network engine.* Every request is completed exactly once, with its handler called once, whether it
  succeeds, is cancelled, or its object or the engine goes away; no object is used after its last
  reference; the dispatcher never waits for itself.
* *HTTP client.* A request is in one place and told of once; on a connection one request is under way; an
  answer goes to the request it was sent for; the stream of a download holds the content of one try; who
  waits for a download is woken.
* *HTTP server.* Every processor is held by one operation, job or thread, and counted; extensions and the handler of
  errors are called in the order their protocol says; `clode` returns whatever the peers do, and nothing is called after it did.
* *Remote calls.* A caller gets the answer to its own call, or an error; every call ends; both ends run their
  closing task once.
* *Language server.* A document that is behind its text is being analysed, by one job; a request is answered
  once, from one text that is not older than its question; diagnostics settle on the current text.

The hazards behind these properties are listed, each at its line, in `PROJECT.json`.

## 2. Modules and how they correspond to the code

### The loader

| Module | What it is |
|---|---|
| `ModuleLoader` | state machine of `XE::ExecutionContext` and of the standard loader's error slot, and the properties |
| `ModuleRegistry` | the abstract specification: a set of loaded modules and calls that are answered |
| `ModuleLoaderInvariant` | the inductive invariant `IInv`, its addition for one thread (`AloneInv`) and the refinement mapping |
| `MCModuleLoader` | a catalogue of images for TLC |
| `ModuleLoaderProofs`, `ModuleLoaderRefinement` | the proofs |

`LoadModule` (`xe_ctx.cxx:372-662`) takes and releases `_sync` several times. **Each critical section is
one action**; what lies between two of them touches only the calling thread's data and belongs to the
next action. In the order of the code:

| Action | Code | Early returns |
|---|---|---|
| `Lookup` | 372-395: look up the name, open the image | found; `NoSuchModule` |
| `Open` | 396-413: trust, parsing, second look-up under the import name | `Distrusted`, `InvalidImageFormat`, found |
| `Embed`, `LoadEmbedded` | the loop over XDL resources when embedded modules are allowed | null from the inner call |
| `LoadDependency` | the loop over `modules_depends_on` | null from the inner call |
| `CheckVersions` | `ModuleVersionsNeeded` | not there, `ModuleVersionMismatch` |
| `Link` | the long critical section: register local symbols, translate, link, register the module (622) | `DefectiveSymbol`, `LinkageFailure` |
| `Initialize`, `Complete` | 636-660: `FunctionInitialize` routines, outside the lock | `InitializationFailure` |
| `LoadFromInitializer` | `_load_library` (`xexec/xx_machine.cxx`), called by such a routine | what it calls may fail; the routine goes on |
| `Unwind` | `if (!...) return 0` in the two loops | |
| `Destroy`, `Shutdown` | `~ExecutionContext` and the routines it runs | |

The recursion is an explicit stack of activations per thread (`stack[t][1 .. depth[t]]`), each with the
stage it is at and the index of its loop. An initializer runs outside `_sync` and is program code, so it can enter
`LoadModule` again on the same thread: `LoadFromInitializer` puts one more activation on top of one that is at
`initialize`, for the images of the constant `Asks`. An image is a model value; a *catalogue* of constants says what the code reads from it (import name, embedded
images, dependencies, required versions, symbols and which of them are initializers, finalizers or
defective). `Append1` is `Dictionary::Append`, which keeps the first value of a key. Code that the
repository takes from the Engine Runtime (`Dictionary`, `Semaphore`, `SafePointer`) is modelled from its
use here. `Resumed`, `Return`, `Report` and `Fail` say what `return 0` and `HandleModuleLoadError` do.

### The console

| Module | What it is |
|---|---|
| `ConsoleChannel` | the local sockets: the listener's backlog and one sequence of requests per direction and program |
| `ConsoleHost` | `AttachIO` of `xc_io.cxx`: the window's thread, the listener, one reading thread per program, the user |
| `ConsoleClient` | `Console` of `xc_api.cxx`: its input thread, `ReadEvent`, questions, the destructor; and a process that dies |
| `Console` | the composition, fairness, and the properties |
| `InputStream` | the abstract specification: keys are numbered, kept, and each is given to one program in order |
| `ConsoleInvariant` | the inductive invariant `IInv` |
| `ConsoleProofs` | the proofs |
| `MCConsole` | instances for TLC |

Choices a reader should know of:

* `_sync` of the host is held for one step at a time, so a critical section is a step. **`_emit_event` is
  two steps** (`EmitPick` under the lock, `EmitSend` after it), because the channel it sends to is chosen
  before the lock is released and used after it. Requests of programs become *tasks* of the window's
  thread (`ReadRequest`, `RunTask`).
* Keys are numbered when they are emitted; the contents of the edited line do not matter to any property,
  so the line is its length and the caret. `Return` emits the characters of the line one by one.
* A reference count is not a variable: `Alive(c)` says who holds the window's end of a channel (the list,
  the reading thread, a queued task, the task being run). When the last holder goes the channel is
  destroyed and the program's end reads the end of the stream (`HostClosed`).
* A send through a destroyed channel is undefined behaviour: `EmitSend` allows a crash or a key that goes
  nowhere.
* A write to a socket does not block: each end has a thread that does nothing but read. That thread exists
  on both sides in the code.
* `given`, `received`, `emitted` and `typed` are history variables or bounds; no action of the program
  depends on the first three.
* `_counter` of the client is a semaphore with the length of `_inputs` (an end of file is put back by
  both, `xc_api.cxx`), so it is not a variable of its own; `_sys_counter` is, because a call that finds the
  wrong answer leaves the list and the counter apart.

### The network engine

| Module | What it is |
|---|---|
| `NetworkEngine` | `xe_netapi_unix.cxx`: request queues, the command pipe, the dispatcher's loop, channels, listeners, stopping |
| `RequestLedger` | the abstract specification: requests of one object and direction end in order, once, and are cancelled or refused for a reason |
| `NetworkEngineInvariant` | the inductive invariant `IInv`, liveness, the refinement mapping |
| `NetworkEngineProofs` | the proofs |
| `MCNetworkEngine` | limits of accept requests for TLC |

A call is a sequence of steps `lock`, `acquire`, `write`, `retain`, `drop`, `join` (variable `pc`), one for
each place where the code can be held up: `_local_sync`, the spin lock `_dispatch_control`, the blocking
`write` to the pipe, the reference added after it. The dispatcher's loop has a place (`at`) for each of its
critical sections: which client or command it handles, the two peeks of `_evaluate_poll_attribute`, the
removal of marked clients. Both the program's threads and the dispatcher run handlers, which may call the
engine, so an actor has a `stack` of handlers and destructors. What a socket answers is chosen.

`PromptRetain` is the one assumption about timing: when it is true the dispatcher does not release the
reference that travels with a command before the command's writer has taken it (`Early`). The code does not
ensure this (finding 2); with it the run `network_engine` can ask whether everything *else* is right.

### The HTTP client

| Module | What it is |
|---|---|
| `HttpClient` | sessions, request processors, the session manager, downloads; the properties |
| `HttpClientInvariant` | the inductive invariant `IInv` |
| `HttpClientProofs` | the proofs |
| `MCHttpClient` | the instance for TLC |

`call[a]` is the call an actor is inside: `ask` and `require` are the two halves of `sessiones.require` (the
session is picked under the manager's lock and asked after it), `resume` and `siste` are the session's
`_resume` and `_siste`, `clode` and `closing` those of the timer and of the manager. Handlers of the network run
on the dispatcher, reports on the task queue. `Told` reports an outcome *if the session still has the queue*
(`_cauda`), as the code does. The history variable `raced` marks sessions that two callers of `require` have
resumed at the same time.

`sessiones.require` replaces the address in a request by its path before it looks for a session
(`http_sessio.xv:163`), and `_mitte` calls it again with the same request when it throws (298-307). An address that is a path is one of
localhost (27-33), so the second call looks for, or opens, a session of localhost. `taken` counts how often the
address of a request was replaced, `Bare` says that it was, and a session has its host (`local`).

### The HTTP server

| Module | What it is |
|---|---|
| `HttpServer` | acceptors, processors in their modes, the pool, `clode` |
| `ExtensionProtocol` | the abstract specification: what an extension may count on |
| `HttpServerInvariant` | the inductive invariant `HInv` |
| `HttpServerProofs` | the proofs |
| `MCHttpServer` | the instance for TLC |

A processor has its mode (`modus`, with names for the numbers 00 to 30), the operation it waits for (`io`), the
job it is queued for, whether its channel is open, whether the server has decided to close it (`last`), and the *calls* made for the
request under way: to whom (its extension or the handler of errors) and what for (to announce the request or to ask for its
answer), in order, the repeated ones included. The last call's addressee is the code's `responsor`. `MaxAnnounced` bounds how
often one request is announced again (each over-long length of a piece does it, `http_servus.xv:145`). `runner[a]` is what a
thread of the pool or the dispatcher is busy with. `Procede` is the test of `servus_closus_est`, `Submit` the rest
of `procede()`: the signal can be raised between the two. A request that must have a body and says neither its length nor that
it comes in pieces makes `procede_data_in` read a null pointer (228): the thread is then `fallen`, and nothing moves
any more (`Running`). Whether an answer says "close" is chosen when it is written, since the extension sets it.

`ExtensionProtocol` says what the calls of one request can be. An extension is announced a request once and
asked for its answer at most once. The handler of errors may be announced it any number of times, and asked twice: the
second time in place of whoever threw, itself included. Nobody is announced a request after its answer was asked for.

### The language server

| Module | What it is |
|---|---|
| `LanguageServer` | the reading thread, the documents, the pool; the properties |
| `LanguageServerInvariant` | the inductive invariant `IInv` |
| `LanguageServerProofs` | the proofs |
| `MCLanguageServer` | the instance for TLC |

A text is its version number and what the compiler says of a text is that number, so an answer records which text
it was made from and which compilation. `worker[w].at` follows a job: `read` (`GetCurrentVersion`), `start` and
`compile` (the module cache), `commit` (`CommitMeta`) or `respond`, `release`. References are
`Registered` and `HeldByJob`. A compilation always commits: `XV::Compile` (`xv/xv_compiler.cxx:3248-3311`) catches whatever is
thrown inside and reports it as a status, so the handler around it in the analysis (`xvsl.cxx:314-317`) is not reached.

### Remote calls

| Module | What it is |
|---|---|
| `RemoteCalls` | two services at the ends of one channel, their queues, callers on program threads and inside methods |
| `RemoteCallsInvariant` | the inductive invariant `IInv` |
| `RemoteCallsProofs` | the proofs |
| `MCRemoteCalls` | the instance for TLC: two callers at one end, a method that calls back |

The steps of a call are those of `initia_invocationem`, `exordi_invocationem` and `ende_invocationem`, split where
`_sync` is released. The status is read twice (253 and 255), because the code does so with the turn
already given back in between. A message carries the call it belongs to, which the code's messages do not: it is
what `AnswersOwn` compares. `Respond` is one step: a channel taken away between the two places of the code that use it (131, 133),
or a send that fails with the channel still there (142-147), closes the service exactly as a lost channel does that is found later.

In every module an operator that stands right before another one and extends its name (`LaunchAgain` before `Launch`,
`SubstituteNone` before `Substitute`) is that definition with a plausible mistake in it. No action uses it; each property
is known to be violated when the mistake takes the definition's place (`PROJECT.json`, `mutants`).

## 3. Runs, bounds and what they show

| Run | Configuration | Shows |
|---|---|---|
| `loader_alone` | one thread, 11 images, 6 names, an initializer that loads a module, 3 calls, recursion of 4 | all that a single-threaded program relies on, with every early return of `LoadModule` reached: `FailureReported`, `ShutdownOnlyReady`, `NoOrphans`, `InitAfterDependencies`, `ReferencesLive`, and the refinement with liveness `ImplementsRegistry` |
| `loader_shared` | two threads, overlapping modules, an initializer that may fail and that loads a module depending on its own | what survives every interleaving: `DependencyClosed`, `VersionsMet`, `RegistryGrows`, `ImplementsRegistrySafety` |
| `loader_same_module` | as above | `ResultRegistered` fails (finding 1) |
| `console_one` | one program, two kinds of questions, 3 keys or resizes, 2 requests, both modes | `NothingLost`, `AnswersMatch`, `ReaderWakes`, `QuestionAnswered`, `DestructorEnds` |
| `console_shared` | two programs, 2 keys, 2 requests each besides the last | `NobodyWaitsInVain`, `ReadInOrder`, `ImplementsInputStream`, `DetachNoticed` |
| `network_engine` | a channel, a listener, one thread and the dispatcher's handlers, 2 requests, one close, a pipe of 2 commands | `IInv` (references, locks, requests in one place and none forgotten), `CallsReturn`, `RequestsEnd`, the refinement `ImplementsLedger` |
| `network_close` | the same without `PromptRetain` | `ObjectsKeepQueues` fails (finding 2) |
| `language_server` | one file, 2 threads of the pool, documents opened again, versions, requests | `IInv` (one analysis at a time and none forgotten), `AnswersMatch`, `AnsweredOnce`, `EveryRequestAnswered`, `DiagnosticsSettle` |
| `http_client` | one thread, 2 downloads, 3 requests, 2 sessions, one lost connection | `IInv` (requests in one place, nobody forgotten), `AnswersOwn`, `DownloadsSound`, `DownloadsEnd` |
| `http_redirect` | one download, 2 requests, one session | `FinalStatus` fails (finding 3) |
| `http_server` | one listener, 2 connections, one thread in the pool, 2 announcements of a request | `IInv` (processors held once and counted), `QuietAfterClose`, `ClodeEnds`, the refinement `ImplementsProtocol` |
| `remote_calls` | two ends, two callers at one of them, a method that calls back, one call each | `IInv` (one call under way, its answer kept for its caller), `AnswersOwn`, `CallsEnd`, `ClosingRuns` |

In these runs `IInv` is the inductive invariant that the proofs of section 5 use. Checking it first is how its
parts were found: each was added because an action left the invariant without it. (In `http_server` it is the part the theorem
`HeldCountedFound` states; the inductive invariant is `HInv`.)

**Bounds of the loader.** `MaxDepth` 4 is one more than the longest chain in the catalogue (an application, a library, a
core, and an embedded plugin beside them); `MaxObjects` is more than the images that can
be linked; three calls suffice to load something, fail, and ask again. In `loader_alone` the initializer of the library opens the
plugin, which ranks below it; in `loader_shared` that of the core opens the library, which depends on the core. The catalogue has one image for
each early return (`alien` untrusted, `torn` malformed, `late` of a refused version, `gap` depending on a
module that is not on the shelf, `stub` requiring a version of a module that need not be there, `twin`
with a defective symbol, `fork` under another's import name), an image `plug` embedded in another, and
symbols defined by two images at once.

**Bounds of the console.** `MaxInput` bounds the user, `MaxCalls` the requests of a program besides its
last one. Three inputs are enough for one to be queued, one on the record and one on its way at the same
time; with two programs, two keys and two requests to read each (the closing call comes on top) are enough for one program to read two keys,
for a request to be taken from the wrong one and for a key to be sent to a program that has left. Destructors, questions
and both modes, which multiply the states, are left to the run with one program. No symmetry is used, because the runs check liveness.

**Bounds of the network engine.** Two requests let one be queued behind another, or one of each kind meet on
the dispatcher; a pipe of two commands is full with the requests of one thread and one handler, so that
`Jammed` is reached. The safety properties were also checked with two threads (1.7 million states), which is more
than the run has time for.

**Bounds of the language server.** With two threads of the pool a completion and an analysis, or the analyses of a closed
document and of its successor, run at the same time; two versions let a compilation be overtaken once.

**Bounds of the HTTP client.** Downloads are numbered in the order they begin, like requests and sessions, so that two that
differ in nothing else are not explored in both orders. Two downloads, two sessions and three requests let a request wait behind another, be
retried on a second session (of localhost, if `require` threw), and be redirected; one fault is enough to lose a connection with one request under way
and one queued. Three tries of one request need `MaxRequests` 3. When the bound is reached, making
a request throws, which the code has to be ready for anyway.

**Bounds of the HTTP server.** Two connections so that one is in the pool or being accepted while the other is
served; one thread of the pool and the dispatcher are two threads that run processors at the same time. Every mode
and every error path is reached with one connection. Two announcements are the extension's and one to the handler of errors, or two to the
handler; a third would be announced like the second.

**Bounds of remote calls.** Two callers so that one is overtaken by the other; one method that calls
back, so that both ends are callers; the other end's queue can then wait for an answer it would itself have to store.

## 4. Fairness and deadlock

*Loader:* weak fairness of `Step(t)`: a thread inside `LoadModule` keeps running, since all it can wait for is `_sync`,
and every holder releases it. Nothing makes a program call. Initializers are assumed to
return, after they have opened the modules of `Asks` or before. *Console:* weak fairness of the window's thread, of the listener, of each
reading thread and each input thread, and of each waiting call's return; they are threads that loop over a
blocking read, or a task queue. No fairness for users and programs: nobody has to press a key, ask, close
or die. *Network engine:* weak fairness of every call that has begun, of every handler, and of the dispatcher's
loop; sockets answer or not. *Language server:* the threads of the pool, whose compilations end, and the reading thread
when the pool is empty; the editor is free. *HTTP client:* weak fairness of every call that has begun, of the
network as a whole (something pending succeeds or fails in the end), of the task queue, and of the closing of sessions that has begun;
nobody starts, expires or closes anything of necessity. *HTTP server:* weak fairness of the threads and of `clode`
once begun, and **strong** fairness of `Dropping`, the failure of some operation of a closed channel or listener: the dispatcher is one thread that
turns to one finished operation after another, so such a failure is enabled again and again, but not continuously. That *some* pending failure
comes in the end is enough, for there are finitely many; the engine gives every one its turn because its rounds go over all
clients. All of it holds while the process runs: a thread that falls over the null pointer takes the others with it. Peers may be silent for ever. *Remote calls:* weak fairness of every caller, of the dispatcher and of
the queues' threads; calls are bounded, so no caller waits for the semaphore for ever.

`CHECK_DEADLOCK FALSE` is set everywhere because the systems may stop: a context is destroyed, a
window exits, a user does nothing. What must not stop is stated as a liveness property instead.

## 5. Proofs

All theorems hold for any number of threads or programs, any catalogue and any value of the bounds, except three of
the loader and those of the network engine, which name their hypotheses; the
assumptions are the constants' types: `CatalogueAssumption` and `BoundAssumption` in `ModuleLoader`;
`NoneAssumption`, `InputAssumption`, `CallsAssumption` and `SettingsAssumption` in the console's modules, and
`KindsAssumption`, which says that a question is not confused with another verb; `ActorsDistinct` and `BoundsNatural` in `NetworkEngine` (threads, queues and markers are different,
bounds are numbers); `Distinct`, `BoundNat` and `Finite` in `HttpServer`; `Distinct` and `Bounds` in `HttpClient` (the threads are different, a missing value is no other
value, downloads are numbers); `Bounds` in `LanguageServer` (the same, and the pool has a thread); `Shape` in `RemoteCalls` (there are two ends,
and a thread calls one of them).

**The loader.** No safety property of the loader is inductive alone: that a registered module's
dependencies are there follows from what the activation that registers it has checked, several critical
sections before. `IInv` (in `ModuleLoaderInvariant`) therefore records what every activation knows and
still relies on:

* `FrameInv`: by stage, which dependencies have been seen in the table, that versions were accepted,
  that the object is made from the image. Each is stable under other threads because tables only grow.
* `LinkInv`: an activation that waits for an inner one is in a loop, at the item the inner one was
  called for; so a non-null return establishes the next item.
* `AnswersInv`, `ShutdownInv`: null comes with a report; flags of shutdown routines belong to modules
  that are ready or being initialized by some activation.
* `ObjectsInv`, `EntriesInv`: numbering of objects; entries are under their own import name.

`ModuleLoaderProofs` proves `Init => IInv`, one lemma per action that it preserves `IInv`, and from it
`TypeCorrect`, `DependenciesPresent`, `VersionsRespected`, `NullExplained`, `ShutdownSafe` and `TablesGrow`.
`ModuleLoaderRefinement` proves `Implementation`: under the mapping that takes the table to the set of
loaded names, a thread's oldest activation to the names that would answer it, and its result to a name,
every step is a step of `ModuleRegistry` or a stutter. `Link` maps to `Load`, the outermost `Return` to
`Reply`, a call to `Ask`, and all the rest is invisible.

Three properties hold only when one thread loads (section 6 says what two do), and only for a catalogue in which
dependence ends. `OneInstance` (`NoOrphans`), `DependenciesFirst` (`InitAfterDependencies`) and `ReferencesStayLive`
(`ReferencesLive`) are therefore proved from two hypotheses, `OneThread` and `Ranked`: the names can be ranked so that what an
image depends on, embeds or *opens from its initializers* is registered under a lower name than its own. Without the second, `LoadModule` recurses without
end for a cycle of dependencies (`xe_ctx.cxx:444` keeps no record of what it is loading), and an image that embeds another
of its own import name is linked a second time when the inner one already has the name. `MCModuleLoader` gives its catalogue
a rank, and TLC evaluates that it descends, so the hypotheses are those of `loader_alone`. Names of modules and of symbols are
kept apart (`CatalogueAssumption`) because a reference in the code says which it is (`M:` or `S:`). The argument:

* `StacksDescend`: every activation asks for names below those of the activations that wait for it.
* `StillMissing`: what `Open` found missing is missing until the same activation links it, several critical sections and
  complete inner calls later. An inner `Link` registers a lower name, by `StacksDescend`; no other thread links.
* `Bound`: linked code has its symbols bound to the table, so with `NoOrphans` to modules that stay.
* `DependenciesFirst` is an action property, of the step that links: initializers of a module start there. An object that is being
  initialized at that moment belongs to an activation further down the stack whose initializer has, directly or not, caused
  this load; so it ranks *above* the image that is linked (`StacksDescend`), and is none of its dependencies, which rank
  below. Every dependency that `Served` found is therefore ready or has failed. Without the rank this is false, with
  one thread as with two (section 6).

**The console.** `IInv` (in `ConsoleInvariant`) follows a key from the queue to the program that reads it.
`ReadInOrder` speaks of `received` alone, which the last of five steps changes; what it relies on was
decided by the earlier ones, on the other side of a socket:

* `OrderInv`: keys are queued in the order of their numbers, those assigned to a program were pressed before all
  that are queued, and no two programs are assigned the same one.
* `PipelineInv`: what a program has read, what is in its list, what is on its way and the key between
  `EmitPick` and `EmitSend` are assigned to it, and each comes before the next. The last part is needed
  because that key has left the queue and is in no channel yet.
* `NobodyWaitsInVain` is inductive with `AttachInv`: a program that is accepted has no request on record
  yet, so its attachment cannot make a queued key one that is waited for; and a program is on the list
  at most once, so that taking it off ends its being attached.
* `UiInv`, `CounterInv`: what the window's thread is in the middle of; a question finds an answer when its
  counter says so.

Two properties need more than the order. `NothingLost` says that a program with both ends of its channel in place has read, holds or
is being sent *all* the keys it was given, in their order. That is a sequence spread over five steps of two processes, so it is stated as two
facts that single steps keep: each key given is somewhere in the pipeline (`AllKept`), and the pipeline is in ascending
order (`PipelineInv`), which leaves one way to arrange them. `AllKept` excepts channels with an end gone, so the proof needs
that an end never comes back (`ClosedStays`). `AnswersMatch`
says that a call that waits finds its answer. `QuestionInv` follows the question: it is on the wire, a task of
the window, an answer on the wire or an answer in the list, and in one of these only, or else the reading thread has ended and left the
end of file as the last answer; with `CounterInv` (`_sys_counter` counts the answers in the list) it is inductive. `KnownInv` says
that only programs that were accepted have tasks and are assigned keys.

`ConsoleProofs` has type correctness of each action first, then one lemma per part of the invariant
that each step preserves it, then `Invariance` and from it `TypeCorrect`, `NoVainWait`, `KeysInOrder`,
`NoKeyLost` (`NothingLost`) and `AnswersFound` (`AnswersMatch`). `Implementation` maps the queue `_events` to the abstract `pending`: `EmitPick` is `Keep` or `Hand`,
`RunTask` of verb 21 is `Take` when a key is queued, and all else is a stutter.

**The network engine.** As the code stands a queue can be destroyed while it is in use (finding 2), and little can be said of what happens after that, so the theorems
are about the runs in which one step does not happen: `InTime` says that the dispatcher does not execute the release of a
command (`Forget`) while the command's writer is yet to take that reference. They have the form `Spec /\ [][InTime]_vars => ...`, with or
without `PromptRetain` (with it the guard of `Forget` is the hypothesis, word for word). In other words, that one
step is the only way in which the engine can lose a queue, forget a request or end one twice. `IInv`
(in `NetworkEngineInvariant`) has these parts:

* `ReferencesCounted`: the count of a queue is the number of its holders: the object, the call that destroys it, commands in the
  pipe, the command being executed, the table, *less* one while a writer owes it. `CommandOwed` is what makes the
  subtraction harmless: the command of a writer that owes is the last in the pipe or being executed, so a count with a debt
  is never zero. From these follows `NotDestroyedInUse`.
* `CallsSound`, `LocksHeld`, `LoopSound`, `CommandsSound`: what each place of a call or of the loop takes for granted. The program does not
  destroy an object it is calling, a lock is held by one call.
* `RequestsInPlace`, `RequestsFresh`: a request made is with its call, once in its queue, or ended. The second says that the
  request of a call that waits for the pipe is the *last* of its queue, so that `Refuse` takes back its own and no other; it is
  inductive because `_local_sync` is held from `Enqueue` on.
* `SentNoticed`: the inductive form of `NothingForgotten`. That a queue is polled for does not count while the
  dispatcher is rewriting its attributes, and a request does not count before its call has the pipe; with both
  exceptions, each step of a revision, peek by peek, hands the duty to notice a request on to somebody.

`NetworkEngineProofs` has `EngineInvariant`, from it `ObjectsKeepTheirQueues` (`ObjectsKeepQueues`), `NoRequestForgotten` and the action
property `RequestsEndOnce`, and the refinement `EngineImplementsLedger`: a queue counts without the request that is not sent
yet (`Made`), so that `Acquire` is `Submit` and `Refuse` is `AtOnce` for a request that was never there; the answer of a socket, a cancellation and a
destructor's turn are `Complete`, `Close`, `Destroy` and `StopDispatch` are `Close`, `Abandon` and `Stop`, a connection made at once is
`AtOnce`, and all else is a stutter.

**The HTTP server.** `QuietAfterClose` and the protocol of extensions hold because of who holds a processor. `HInv`
(in `HttpServerInvariant`) says so by parts:

* `Holders`, `Jobs`, `Pending`, `Found`: a thread, a job of the pool and an operation of the network exclude each other as
  holders of one processor, and a living processor has one. A thread's next step depends on the processor's fields, so without
  this two threads could serve one request.
* `Counted`: `labores` is the number of living processors and acceptors, and 1 until `clode` is called; `Drained`: `clode` goes on only
  when that is 0. Together with `Holders` and `Jobs` they give `QuietAfterClose`.
* `Reachable`: every living processor is in the table; once `clode` has been through the table, whoever waits for an
  operation, *or is between `procede` and its submission*, has lost its channel.
* `Staged`: at every place a thread can be, for every job and every operation, which calls have been made for the request (`Fits`): none,
  announcements only, or announcements and one last call that asks. No test of the code says so; the order of the modes does.

`HttpServerProofs` shows first that every action of a thread is one of five moves (it stays with its processor, puts it into
the pool, leaves it to the network, ends it, or takes one from the pool) and then, move by move, that `HInv` is
preserved; `HeldOnce`, which speaks of cardinalities, follows from the parts about holders. In the refinement
a step that appends to `calls` is `Announce`, `AnnounceError`, `Ask` or `AskInPlace`, none of them invisible, one that empties them is `Finish`, and the return of
`clode` is `Close`; all other steps leave `calls` alone. TLC checks `HInv` too (add it to `HttpServer.cfg`; it is no property of its own).

**The language server.** `OneAnalysis` counts the analyses of a document in the queue and in the threads' hands. A count is
not what an action changes, so `IInv` (in `LanguageServerInvariant`) speaks of *pending* jobs, queued or taken and not
yet done:

* `Distinct`: no two of them are the same job; `AnalysisPending`: the analysis of a document is one of them exactly while the
  document's `analyze` says so. `OneAnalysis` is the two together.
* `CompletionWaits`: a completion that is pending is not also kept by its document, and nobody has answered it. So a request is
  answered once, though `CommitMeta` hands over all that a document keeps, at a time nobody chose.
* `ReadLate`: a completion's text is read after the question was put, so it is at least as new as the question. This is all
  of `AnswersMatch` that is decided before `respond`.
* `Suits`, `Numbered`: a thread's place suits its job; what was not opened or asked yet is in no job.

`LanguageServerProofs` has `Invariance`, `TypeCorrect`, `AnswersFit` (`AnswersMatch`) and the action property
`AnsweredForGood` (`AnsweredOnce`).

**Remote calls.** The code keeps no identity in an answer: a caller gets what the service stored last. That it is the
caller's own follows from what is *not* on its way. `IInv` (in `RemoteCallsInvariant`) names the five legs
of a call (`Way`: on the wire, in the other end's queue, served, answered, in the queue back):

* `AnswerComes`, open service or not: one leg at most is in use and by one call (`OneUnderWay`), nothing is under way
  while a caller sends or takes (`QuietWhile`), and what is under way is of the caller that waits (`OwnUnderWay`).
* `OneTurn`, while the service is open: `inv` is 1 exactly if nobody has the turn (`TurnCounted`), the signal `resp` is for
  the one who waits, and what that one is woken for is stored (`Kept`). Closing raises `resp` without an answer and gives
  turns away, so none of this survives it; `AnswerComes` does, with `Told` in place of `Kept`.
* Both except services in `crowded`, where a refused caller was overtaken (section 6); a service enters that set at the
  step that overtakes, so the part for other services is inductive.

`RemoteCallsProofs` has `Invariance` (which gives `OneCall`), `TypeCorrect` and `AnswersReachTheirCalls` (`AnswersOwn`).

**The HTTP client.** `IInv` (in `HttpClientInvariant`) has four sorts of parts, and each action is shown to keep each sort:

* *Requests are in one place* (`InPlace`, `Blank`, `Inside`): in the hands of one caller, waiting in one session once, or
  reported once.
* *Sessions* (`NobodyForgotten`, `OneThing`, `OneAtATime`): a session that nobody resumed twice has one thing going on, its connection
  being made, a request under way, or somebody about to resume it; and if a request waits there, one of these is going on. `AnswersOwn`
  follows because the head that arrives is of the only request under way.
* *Downloads that were never redirected* (`Straight`): one request of theirs is alive (`OneTry`), what the stream holds came from it
  (`TryRuns`), it delivers only what it was asked for (`Well`), and a download that is over is `Sound` (`Ended`). A retry clears
  the stream before the next request is made, which is the step that makes this inductive. After a redirection it does not hold
  (finding 3).
* *Hosts* (`Hosted`): a session of localhost is asked by exactly the requests whose address had been taken before. It rests on the
  other parts (`Base`) and is proved after them.

`HttpClientProofs` proves once what the actions have in common (a request is asked again, a session is stopped or left, an
outcome is reported), then one lemma per action and sort, and from them `Invariance`, `TypeCorrect`,
`AnswersReachTheirRequests` (`AnswersOwn`) and `DownloadsEndSound` (`DownloadsSound`).

**Only model-checked:** all liveness (`ImplementsRegistry`, `ReaderWakes`, `QuestionAnswered`, `DownloadsEnd`, `CallsEnd`,
`ClodeEnds` and the others): it needs ENABLED and fairness, which the prover does not handle; and what holds only for
one reader of the console (`ReadersOnRecord`). Of the other invariants and action properties of the passing runs each is stated by a theorem,
and so are the safety parts of the refinements.

## 6. Findings

Three runs show the code doing what a text of the repository excludes:

1. *Two threads load one module* (`loader_same_module`). The class says `// Thread-Safe!`
   (`xenv/xe_ctx.h:68`). Look-up (405) and registration (622) are different critical sections, and the
   result of `Append` is not read, so the second thread to register gets a pointer to a `Module` whose
   only reference dies with the local variable.
2. *A closed listener loses its queue* (`network_close`). `todo.txt:111` says that a listener's `clode()` does not
   finalize the listener. `_control_send` (`xenv/xe_netapi_unix.cxx:519-536`) writes the command and takes the
   reference that the dispatcher will release only after that; the dispatcher can be faster, and
   releases the listener's own.
3. *A redirection is the end* (`http_redirect`). The documentation of `oneratio` promises redirections to be followed and
   the *final* status (`xv_lib/http_sessio.xvm:17` and `26`). The flag that keeps the completion of a redirected request from
   ending the download is reset by the head of the next answer (232), on the dispatcher, while that completion
   is still in the task queue.

Other behaviour that the models have and a reader of the code should know of:

* *A half-ready module.* A module is in the table (`xe_ctx.cxx:622`), and the lock free (635), before its
  initializers ran. With two threads (`LoaderShared.cfg` with `InitAfterDependencies`) another thread initializes a
  dependent module on top of it. One thread does the same if an initializer opens, with `_load_library`, a module that depends
  on its own. And if it opens one that is being loaded further down the stack, the inner load registers it and the outer one
  then links a second instance, which `Append` refuses: `NoOrphans` fails with one thread. `loader_alone` and the
  theorems show that neither happens as long as initializers open only what ranks below their module.
* *A forgotten reader.* The loop of `_emit_event` (`xcon/xc_io.cxx:124`) has no `break`: one key takes a request off the
  record of **every** waiting program and goes to the last one only. `ReadersOnRecord` in `Console` says
  who waits is on record; it holds for one program (`ConsoleOne.cfg`) and fails for two.
* *A channel used after its destruction.* `_emit_event` keeps a bare pointer to the channel across the end of
  the critical section (127); a program that leaves in between drops the last reference. `NoCrash` in `Console` says that
  this does not happen, and fails with one program and one key.
* *A jammed engine.* `EnqueueRequest` writes to the blocking pipe with `_local_sync` held (`xe_netapi_unix.cxx:525`). If the pipe is
  full while the dispatcher needs that lock, or writes itself from a handler, nobody reads the pipe any more.
  `Jammed` in `NetworkEngineInvariant` says when; the liveness properties except it. The real pipe
  holds thousands of commands, so this takes a flood of requests during one handler.
* *Two requests on one connection.* `sessio.require` looks at `_procedens` under the lock and resumes after it
  (`http.xv:189-206`); two callers can both resume an idle session. `AnswersOwn` and `OneAtATime` except such
  sessions (`raced`).
* *A retry at localhost.* When a session dies between being picked and being asked, `sessiones.require` throws, and the download tries
  again with a request whose address has lost its host (`http_sessio.xv:163`): it asks localhost, and may end with its answer.
  `DownloadsSound` excepts requests whose address was taken twice (`taken`).
* *A handler called again.* The handler of errors of the HTTP server is announced a request again when a length of a piece is too long
  (`http_servus.xv:145`, 244), and asked again for an answer when it threw itself (165-170). `ExtensionProtocol` says so;
  the author of a handler has to count on both.
* *A missing length.* A request with a method that has a body and neither `content-length` nor `transfer-encoding` makes
  the server read a null pointer (`http_servus.xv:228`). `ClodeEnds` excepts it (`Running`).
* *An outcome nobody is told.* A session that is stopped forgets its task queue (`http.xv:172`, `184`); the request under
  way then has nobody to tell its outcome to, and a download of it waits for ever. `DownloadsEnd` excepts it (`Lost`).
* *Diagnostics of a reopened file.* If a file is opened again while its former document is still being compiled, the
  destructor of the former may clear what the latter has shown. `DiagnosticsSettle` excepts it (`overlapped`).
* *An overtaken caller.* A refused caller of a remote method reads the status again after giving its turn back
  (`ifr.xv:254-255`); `OneCall` (a part of `IInv`), `AnswersOwn` and `CallsEnd` except services where that happened (`crowded`). A method
  that runs on the service's own queue and calls the other end waits for itself (`Stuck`).

## 7. What is not modelled, and why

* Loader: `LoadModuleResources` (the same steps on a module without code), `SetLoaderCallback`, read-only
  queries; catalogues with a cycle of dependencies (the recursion has no end in the code; `MaxDepth` would
  only stop it); failed allocations; the contents of code. The shared error slot of a *sub-context* is in the
  hazards.
* Console: verbs that only change what is shown; the handshake that starts a window; the side queue of
  pictures; the Windows pipe; two threads that ask questions at the same time (the class has no lock for it).
* Network engine: starting it again after it was stopped, failures while a listener is made, addresses, the
  TLS wrappers and the engines of other platforms, whose state is kept by the platform.
* HTTP client: uploads and the wait for status 100, hosts other than one and localhost, real time, programs that use a session without the
  manager. HTTP server: a constructor that fails half-way, routing, the text of heads, extensions that close
  their own server.
* Remote calls: the table of exported objects, serialization.
* Language server: the capabilities it announces, requests about files that are not open (it does not answer
  them), how an answer is computed.
* The other components of the inventory, for the reasons in `PROJECT.json`. Most lines of the repository are
  translators, assemblers, compilers, decoders and bindings to platforms (`xasm/`, `xv/`, `xw/`, `xlang/`, `xenv/xe_engine_ui.cxx`,
  `xe_mm.cxx` and the like): sequential functions of large data, or one system call an operation. They have
  no interleaving, failure or protocol for a model checker to explore, so the models cover a small share of the lines and
  the larger share of the concurrency.
* Liveness under fairness is not proved but model-checked: it is out of the reach of the prover used here.

## 8. Plan

1. *(done)* The loader: `ModuleLoader`, `ModuleRegistry`, the invariant, all its proofs.
2. *(done)* The console: channel, host, client, composition, `InputStream`, and proofs of type correctness,
   `NobodyWaitsInVain`, `ReadInOrder` and the refinement.
3. *(done)* The Unix network engine with `RequestLedger`; the HTTP client; the HTTP server with
   `ExtensionProtocol` and its proofs; remote calls; the language server.
4. *(done)* Inductive invariants and proofs of the language server, remote calls and the HTTP client; the loader's
   properties for one thread.
5. *(done)* Proofs of `NothingLost` and `AnswersMatch` of the console, and of the network engine's invariant, its action
   property and its refinement.
6. *(open)* Composition: the HTTP server over `NetworkEngine` in place of its own chosen answers; two contexts over one
   loader callback.

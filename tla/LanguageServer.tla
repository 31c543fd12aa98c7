--------------------------- MODULE LanguageServer ---------------------------
(***************************************************************************)
(* The language server of the compilers (xv_sl/xvsl.cxx).                  *)
(*                                                                         *)
(* One thread reads the editor's messages and handles them in order.  A    *)
(* CodeDocument keeps the text of an open file, its version, and what the  *)
(* compiler said of the version compiled last; a job of the thread pool    *)
(* compiles the text again until what it compiled is the current version.  *)
(* A request about the text (folding, hover, tokens, symbols, definition)  *)
(* is answered at once from what is known, or left with the document while *)
(* it is being compiled.  Completion and signature help are jobs of their  *)
(* own.  A job keeps a reference to its document, and the last reference   *)
(* gone, the document clears the diagnostics the editor shows for its file.*)
(*                                                                         *)
(* A text is its version, what the compiler says of a text is the version  *)
(* it was given; files, positions and the wording of answers are left out. *)
(* The locks of a document and of the repository are held over no wait, so *)
(* each critical section is one step.                                      *)
(***************************************************************************)
EXTENDS Integers, Sequences, FiniteSets

CONSTANTS Uris,          \* names of files
          Workers,       \* threads of the pool
          None,
          MaxDocuments,  \* bound: documents ever opened
          MaxVersion,    \* bound: versions of a document
          MaxRequests    \* bound: requests of the editor

Documents == 1 .. MaxDocuments
Requests == 1 .. MaxRequests

(* A job of the pool: the document, and the request it answers or 0.        *)
Job == [doc : Documents, request : 0 .. MaxRequests]

ASSUME Bounds == /\ MaxDocuments \in Nat /\ MaxVersion \in Nat \ {0}
                 /\ MaxRequests \in Nat
                 /\ None \notin Uris \cup Workers \cup Nat \cup Job
                 /\ Workers # {}

VARIABLES
    state,        \* the server: "created", "running", "draining" (shutdown
                  \* waits for the pool), "stopped", "exited"
    repository,   \* [Uris -> Documents or None]: CodeRepositorium._documents
    opened,       \* number of documents opened
    document,     \* [Documents -> their fields]
    jobs,         \* queue of the thread pool
    worker,       \* what each thread of the pool is doing
    asked,        \* [Requests -> the document asked and its version then]
    answer,       \* [Requests -> None or what was answered]
    made,         \* number of requests
    shown,        \* [Uris -> the diagnostics the editor was sent last]
    overlapped    \* documents opened while an older one of the same file
                  \* was still being compiled (history)

vars == <<state, repository, opened, document, jobs, worker, asked, answer, made,
          shown, overlapped>>

NewDocument(u) ==
    [uri |-> u, latest |-> 1, analyze |-> TRUE, tasks |-> {}, meta |-> 0, cache |-> None]
NoDocument == [uri |-> None, latest |-> 0, analyze |-> FALSE, tasks |-> {},
               meta |-> 0, cache |-> None]
Analysis(d) == [doc |-> d, request |-> 0]
Completion(d, r) == [doc |-> d, request |-> r]
Idle == [job |-> None, at |-> "idle", version |-> 0]
Nothing == [doc |-> None, version |-> 0]      \* cleared diagnostics

Init ==
    /\ state = "created"
    /\ repository = [u \in Uris |-> None]
    /\ opened = 0
    /\ document = [d \in Documents |-> NoDocument]
    /\ jobs = <<>>
    /\ worker = [w \in Workers |-> Idle]
    /\ asked = [r \in Requests |-> Nothing]
    /\ answer = [r \in Requests |-> None]
    /\ made = 0
    /\ shown = [u \in Uris |-> Nothing]
    /\ overlapped = {}

----------------------------------------------------------------------------
(* References to a document: the repository's, and one of each of its jobs. *)
HeldByJob(d) == \/ \E i \in 1 .. Len(jobs) : jobs[i].doc = d
                \/ \E w \in Workers : worker[w].job # None /\ worker[w].job.doc = d
Registered(d) == \E u \in Uris : repository[u] = d
Alive(d) == Registered(d) \/ HeldByJob(d)

(* What the editor shows after the repository has dropped document d.       *)
ShownWithout(d) == IF d # None /\ ~HeldByJob(d)
                   THEN [shown EXCEPT ![document[d].uri] = Nothing]
                   ELSE shown

(* _execute_task: an answer from a text and what the compiler said last.    *)
Reply(d, code, meta) == [doc |-> d, code |-> code, meta |-> meta]

----------------------------------------------------------------------------
(* The reading thread                                                       *)

Initialized ==
    /\ state = "created"
    /\ state' = "running"
    /\ UNCHANGED <<repository, opened, document, jobs, worker, asked, answer, made,
                  shown, overlapped>>

(* didOpen: RegisterDocument.  A document the file already has is dropped.  *)
DidOpen(u) ==
    LET d == opened + 1
    IN /\ state = "running" /\ opened < MaxDocuments
       /\ opened' = d
       /\ repository' = [repository EXCEPT ![u] = d]
       /\ document' = [document EXCEPT ![d] = NewDocument(u)]
       /\ jobs' = Append(jobs, Analysis(d))
       /\ shown' = ShownWithout(repository[u])
       /\ overlapped' = IF \E e \in 1 .. opened : document[e].uri = u /\ HeldByJob(e)
                        THEN overlapped \cup {d} ELSE overlapped
       /\ UNCHANGED <<state, worker, asked, answer, made>>

(* _launch_analyzer                                                         *)
LaunchAgain(d) == Append(jobs, Analysis(d))
Launch(d) == IF document[d].analyze THEN jobs ELSE Append(jobs, Analysis(d))

(* didChange: Update.                                                       *)
DidChange(u) ==
    LET d == repository[u]
    IN /\ state = "running" /\ d # None /\ document[d].latest < MaxVersion
       /\ document' = [document EXCEPT ![d].latest = @ + 1, ![d].analyze = TRUE]
       /\ jobs' = Launch(d)
       /\ UNCHANGED <<state, repository, opened, worker, asked, answer, made, shown,
                     overlapped>>

(* didClose: UnregisterDocument.                                            *)
DidClose(u) ==
    /\ state = "running" /\ repository[u] # None
    /\ repository' = [repository EXCEPT ![u] = None]
    /\ shown' = ShownWithout(repository[u])
    /\ UNCHANGED <<state, opened, document, jobs, worker, asked, answer, made, overlapped>>

(* A request of an open file.  One about another file, and one that comes   *)
(* while the server is not running, changes nothing here: the first is not  *)
(* answered at all, the second with an error, at once.                      *)
NewRequest(d) ==
    /\ made < MaxRequests
    /\ made' = made + 1
    /\ asked' = [asked EXCEPT ![made + 1] = [doc |-> d, version |-> document[d].latest]]

(* PerformCodeTask: the document knows its current text already.            *)
KnownOnce(d) == document[d].meta > 0
Known(d) == ~document[d].analyze

CodeTask(u) ==
    LET d == repository[u]
        r == made + 1
    IN /\ state = "running" /\ d # None
       /\ NewRequest(d)
       /\ IF Known(d)
          THEN /\ answer' = [answer EXCEPT
                               ![r] = Reply(d, document[d].latest, document[d].meta)]
               /\ UNCHANGED document
          ELSE /\ document' = [document EXCEPT ![d].tasks = @ \cup {r}]
               /\ UNCHANGED answer
       /\ UNCHANGED <<state, repository, opened, jobs, worker, shown, overlapped>>

(* completion, signatureHelp.                                               *)
Complete(u) ==
    LET d == repository[u]
    IN /\ state = "running" /\ d # None
       /\ NewRequest(d)
       /\ jobs' = Append(jobs, Completion(d, made + 1))
       /\ UNCHANGED <<state, repository, opened, document, worker, answer, shown, overlapped>>

(* shutdown waits for the pool to have nothing to do, then drops the        *)
(* documents.                                                               *)
Shutdown ==
    /\ state = "running"
    /\ state' = "draining"
    /\ UNCHANGED <<repository, opened, document, jobs, worker, asked, answer, made,
                  shown, overlapped>>

Drained ==
    /\ state = "draining"
    /\ jobs = <<>> /\ \A w \in Workers : worker[w] = Idle
    /\ state' = "stopped"
    /\ repository' = [u \in Uris |-> None]
    /\ shown' = [u \in Uris |-> IF repository[u] = None THEN shown[u] ELSE Nothing]
    /\ UNCHANGED <<opened, document, jobs, worker, asked, answer, made, overlapped>>

(* exit, after shutdown or without: the process ends, and its memory and    *)
(* its threads with it.                                                     *)
Exit ==
    /\ state \in {"created", "running", "stopped"}
    /\ state' = "exited"
    /\ repository' = [u \in Uris |-> None]
    /\ opened' = 0
    /\ document' = [d \in Documents |-> NoDocument]
    /\ jobs' = <<>>
    /\ worker' = [w \in Workers |-> Idle]
    /\ overlapped' = {}
    /\ UNCHANGED <<asked, answer, made, shown>>

----------------------------------------------------------------------------
(* The thread pool                                                          *)

Running(w) == worker[w] # Idle
Doc(w) == worker[w].job.doc
Analyzing(w) == worker[w].job.request = 0

Take(w) ==
    /\ worker[w] = Idle /\ jobs # <<>>
    /\ worker' = [worker EXCEPT ![w] = [job |-> Head(jobs), at |-> "read", version |-> 0]]
    /\ jobs' = Tail(jobs)
    /\ UNCHANGED <<state, repository, opened, document, asked, answer, made, shown, overlapped>>

(* GetCurrentVersion: a copy of the text.                                   *)
Read(w) ==
    /\ Running(w) /\ worker[w].at = "read"
    /\ worker' = [worker EXCEPT ![w].version = document[Doc(w)].latest, ![w].at = "start"]
    /\ UNCHANGED <<state, repository, opened, document, jobs, asked, answer, made,
                  shown, overlapped>>

(* InvokeCompiler: one compilation of a document may use its module cache.  *)
Start(w) ==
    /\ Running(w) /\ worker[w].at = "start"
    /\ document' = [document EXCEPT ![Doc(w)].cache = IF @ = None THEN w ELSE @]
    /\ worker' = [worker EXCEPT ![w].at = "compile"]
    /\ UNCHANGED <<state, repository, opened, jobs, asked, answer, made, shown, overlapped>>

(* The compilation ends.  XV::Compile throws nothing: it catches whatever   *)
(* goes wrong and reports an InternalError in the status it returns.        *)
Compiled(w) ==
    /\ Running(w) /\ worker[w].at = "compile"
    /\ document' = [document EXCEPT ![Doc(w)].cache = IF @ = w THEN None ELSE @]
    /\ worker' = [worker EXCEPT ![w].at = IF Analyzing(w) THEN "commit" ELSE "respond"]
    /\ UNCHANGED <<state, repository, opened, jobs, asked, answer, made, shown, overlapped>>

RipeOlder(d, v) == {r \in document[d].tasks : asked[r].version < v}
Ripe(d, v) == {r \in document[d].tasks : asked[r].version <= v}
LeftAll(d, v) == document[d].tasks
Left(d, v) == document[d].tasks \ Ripe(d, v)

(* CommitMeta: the requests waiting for a version up to the one compiled    *)
(* are answered; if the text has changed since, it is compiled again.       *)
CommitMeta(w) ==
    LET d == Doc(w)
        v == worker[w].version
        current == v = document[d].latest
    IN /\ Running(w) /\ worker[w].at = "commit"
       /\ document' = [document EXCEPT
                         ![d].meta = v,
                         ![d].tasks = Left(d, v),
                         ![d].analyze = IF current THEN FALSE ELSE @]
       /\ answer' = [r \in Requests |-> IF r \in Ripe(d, v) THEN Reply(d, v, v)
                                                          ELSE answer[r]]
       /\ shown' = IF current
                   THEN [shown EXCEPT ![document[d].uri] = [doc |-> d, version |-> v]]
                   ELSE shown
       /\ worker' = [worker EXCEPT ![w].at = IF current THEN "release" ELSE "read",
                                     ![w].version = 0]
       /\ UNCHANGED <<state, repository, opened, jobs, asked, made, overlapped>>

(* A completion answers with the text it has read and nothing else.         *)
Respond(w) ==
    LET d == Doc(w)
        v == worker[w].version
    IN /\ Running(w) /\ worker[w].at = "respond"
       /\ answer' = [answer EXCEPT ![worker[w].job.request] = Reply(d, v, v)]
       /\ worker' = [worker EXCEPT ![w].at = "release", ![w].version = 0]
       /\ UNCHANGED <<state, repository, opened, document, jobs, asked, made, shown, overlapped>>

(* ~CodeDocument, when w had the last reference.                            *)
ShownStill(w) == shown
ShownAfter(w) ==
    LET d == Doc(w)
        others == \/ \E x \in Workers \ {w} : worker[x].job # None /\ worker[x].job.doc = d
                  \/ \E i \in 1 .. Len(jobs) : jobs[i].doc = d
    IN IF Registered(d) \/ others THEN shown
       ELSE [shown EXCEPT ![document[d].uri] = Nothing]

(* The job goes, with its reference to the document.                        *)
EndJob(w) ==
    /\ Running(w) /\ worker[w].at = "release"
    /\ worker' = [worker EXCEPT ![w] = Idle]
    /\ shown' = ShownAfter(w)
    /\ UNCHANGED <<state, repository, opened, document, jobs, asked, answer, made, overlapped>>

----------------------------------------------------------------------------
Editor ==
    \/ Initialized \/ Shutdown \/ Exit
    \/ \E u \in Uris : \/ DidOpen(u) \/ DidChange(u) \/ DidClose(u)
                       \/ CodeTask(u) \/ Complete(u)

Work(w) == \/ Take(w) \/ Read(w) \/ Start(w) \/ Compiled(w)
           \/ CommitMeta(w) \/ Respond(w) \/ EndJob(w)

Next == Editor \/ Drained \/ \E w \in Workers : Work(w)

(* The threads of the pool run, compilations end, and the reading thread    *)
(* is woken when the pool is empty.  The editor is free.                    *)
Spec == Init /\ [][Next]_vars
             /\ WF_vars(Drained) /\ \A w \in Workers : WF_vars(Work(w))

----------------------------------------------------------------------------
WorkerStates == {"idle", "read", "start", "compile", "commit", "respond", "release"}
Version == 0 .. MaxVersion
CodeDocument == [uri : Uris \cup {None}, latest : Version, analyze : BOOLEAN,
                 tasks : SUBSET Requests, meta : Version, cache : Workers \cup {None}]
Place == [job : Job \cup {None}, at : WorkerStates, version : Version]
Question == [doc : Documents \cup {None}, version : Version]
Answer == [doc : Documents, code : Version, meta : Version]

TypeOK ==
    /\ state \in {"created", "running", "draining", "stopped", "exited"}
    /\ repository \in [Uris -> Documents \cup {None}]
    /\ opened \in 0 .. MaxDocuments /\ made \in 0 .. MaxRequests
    /\ document \in [Documents -> CodeDocument]
    /\ jobs \in Seq(Job)
    /\ worker \in [Workers -> Place]
    /\ asked \in [Requests -> Question]
    /\ answer \in [Requests -> Answer \cup {None}]
    /\ shown \in [Uris -> Question]
    /\ overlapped \subseteq Documents

(* A document says it is being analysed exactly while one analysis of it is *)
(* queued or has not yet committed the current version: never none, which   *)
(* would leave its requests waiting, and never two.                         *)
Analyses(d) == Cardinality({i \in 1 .. Len(jobs) : jobs[i] = Analysis(d)})
               + Cardinality({w \in Workers : worker[w].job = Analysis(d)
                                              /\ worker[w].at # "release"})
OneAnalysis == \A d \in Documents :
    Analyses(d) = IF document[d].analyze THEN 1 ELSE 0

(* A document not being analysed holds no requests and knows what the       *)
(* compiler says of its current text.                                       *)
KnownWhenIdle == \A d \in 1 .. opened : ~document[d].analyze =>
    document[d].tasks = {} /\ document[d].meta = document[d].latest

(* Requests wait with the document they asked, for a version it has had.    *)
TasksWait == \A d \in Documents : \A r \in document[d].tasks :
    /\ r <= made /\ asked[r].doc = d /\ asked[r].version <= document[d].latest
    /\ answer[r] = None

(* A worker compiles a version the document has had.                        *)
ReadNotAhead == \A w \in Workers : worker[w].job # None =>
    /\ Doc(w) <= opened /\ worker[w].version <= document[Doc(w)].latest

(* The module cache of a document is used by one compilation at a time, the *)
(* one that holds it.                                                       *)
CacheHeld == \A d \in Documents : document[d].cache # None =>
    LET w == document[d].cache
    IN worker[w].job # None /\ Doc(w) = d /\ worker[w].at = "compile"

(* An answer comes from one text and what the compiler said of that very    *)
(* text, and the text is not older than the one the question was asked of.  *)
AnswersMatch == \A r \in Requests : answer[r] # None =>
    /\ answer[r].code = answer[r].meta
    /\ answer[r].doc = asked[r].doc /\ answer[r].code >= asked[r].version

(* An answer is given once.                                                 *)
AnsweredOnce == [][\A r \in Requests : answer[r] # None => answer'[r] = answer[r]]_vars

(* Every request about an open file is answered, also when the file is      *)
(* closed or changed and when the server is shut down meanwhile.            *)
EveryRequestAnswered == []<>(\A r \in Requests :
    asked[r].doc # None => answer[r] # None \/ state = "exited")

(* In the end the editor shows what the compiler said of the text it has,   *)
(* and nothing for a file that is closed; a document opened while its       *)
(* predecessor was being compiled may lose its diagnostics to it.           *)
Settled(u) ==
    LET d == repository[u]
    IN IF d = None THEN shown[u] = Nothing
       ELSE shown[u] = [doc |-> d, version |-> document[d].latest] \/ d \in overlapped
DiagnosticsSettle == <>[](state = "exited" \/ \A u \in Uris : Settled(u))
=============================================================================

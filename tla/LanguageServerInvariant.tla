---------------------- MODULE LanguageServerInvariant ----------------------
(***************************************************************************)
(* The inductive invariant of the language server.  What keeps a document  *)
(* consistent is a count of its analyses; it is kept here as a statement   *)
(* about jobs that are pending, queued or taken and not yet done: no two   *)
(* are the same, the analysis of a document is among them exactly while    *)
(* the document says so, and a request waits in one place only, with its   *)
(* document or as a job.                                                   *)
(***************************************************************************)
EXTENDS LanguageServer

Undone(w, j) == worker[w].job = j /\ worker[w].at # "release"
Pending(j) == (\E i \in 1 .. Len(jobs) : jobs[i] = j) \/ \E w \in Workers : Undone(w, j)

(* No job is pending twice.                                                 *)
QueuedOnce == \A i, k \in 1 .. Len(jobs) : jobs[i] = jobs[k] => i = k
QueuedNotTaken == \A i \in 1 .. Len(jobs), w \in Workers : ~Undone(w, jobs[i])
TakenOnce == \A v, w \in Workers, j \in Job : Undone(v, j) /\ Undone(w, j) => v = w
Distinct == QueuedOnce /\ QueuedNotTaken /\ TakenOnce

(* A thread has a job or nothing; what it does suits the job.               *)
Suits == \A w \in Workers :
    /\ worker[w].job = None => worker[w] = Idle
    /\ worker[w].job # None => worker[w].at # "idle"
    /\ worker[w].at = "commit" => Analyzing(w)
    /\ worker[w].at = "respond" => ~Analyzing(w)

AnalysisPending == \A d \in Documents : document[d].analyze <=> Pending(Analysis(d))

(* A completion waits with its question as it was asked, and not with the   *)
(* document as well.                                                        *)
CompletionWaits == \A d \in Documents, r \in Requests : Pending(Completion(d, r)) =>
    /\ r <= made /\ answer[r] = None /\ r \notin document[d].tasks
    /\ asked[r].doc = d /\ asked[r].version <= document[d].latest

(* The text a completion has read is not older than its question.           *)
ReadLate == \A w \in Workers :
    worker[w].at \in {"start", "compile", "respond"} /\ ~Analyzing(w) =>
        asked[worker[w].job.request].version <= worker[w].version

(* Documents and requests are numbered as they come.                        *)
Numbered ==
    /\ \A d \in Documents : d > opened => document[d] = NoDocument
    /\ \A u \in Uris : repository[u] # None => repository[u] <= opened
    /\ \A j \in Job : Pending(j) => j.doc <= opened
    /\ \A r \in Requests : r > made => answer[r] = None

Core == /\ TypeOK
        /\ Suits /\ Distinct /\ AnalysisPending /\ CompletionWaits /\ ReadLate /\ Numbered
        /\ KnownWhenIdle /\ TasksWait /\ ReadNotAhead /\ CacheHeld
        /\ AnswersMatch

IInv == Core /\ OneAnalysis
=============================================================================

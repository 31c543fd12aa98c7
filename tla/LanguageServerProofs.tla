------------------------ MODULE LanguageServerProofs ------------------------
(***************************************************************************)
(* Proofs about the language server, for any files, threads of the pool,   *)
(* documents, versions and requests.                                       *)
(***************************************************************************)
EXTENDS LanguageServerInvariant, FiniteSetTheorems, SequenceTheorems, TLAPS

LEMMA AppendFacts ==
    ASSUME NEW S, NEW q \in Seq(S), NEW e \in S
    PROVE  /\ Append(q, e) \in Seq(S)
           /\ Len(q) \in Nat /\ Len(Append(q, e)) = Len(q) + 1
           /\ \A i \in 1 .. Len(q) : Append(q, e)[i] = q[i]
           /\ Append(q, e)[Len(q) + 1] = e
  BY AppendProperties, LenProperties

LEMMA TailFacts ==
    ASSUME NEW S, NEW q \in Seq(S), q # <<>>
    PROVE  /\ Len(q) \in Nat \ {0}
           /\ Head(q) \in S /\ Head(q) = q[1]
           /\ Tail(q) \in Seq(S)
           /\ Len(Tail(q)) = Len(q) - 1
           /\ \A i \in 1 .. Len(q) - 1 : Tail(q)[i] = q[i + 1]
  BY HeadTailProperties, LenProperties, EmptySeq

LEMMA NoJob == None \notin Job /\ None \notin Documents
  BY Bounds DEF Documents

LEMMA SomeJobs ==
    ASSUME NEW d \in Documents
    PROVE  /\ Analysis(d) \in Job /\ Analysis(d).doc = d /\ Analysis(d).request = 0
           /\ \A r \in Requests : /\ Completion(d, r) \in Job
                                  /\ Completion(d, r).doc = d
                                  /\ Completion(d, r).request = r
                                  /\ Completion(d, r) # Analysis(d)
  BY Bounds DEF Analysis, Completion, Job, Requests

LEMMA JobShape ==
    ASSUME NEW j \in Job
    PROVE  /\ j.doc \in Documents
           /\ j.request = 0 => j = Analysis(j.doc)
           /\ j.request # 0 => j.request \in Requests /\ j = Completion(j.doc, j.request)
  BY Bounds DEF Analysis, Completion, Job, Requests

----------------------------------------------------------------------------
(* What becomes of the pending jobs.                                       *)

Same == \A j \in Job : Pending(j)' <=> Pending(j)

LEMMA Kept ==
    ASSUME Distinct, UNCHANGED <<jobs, worker>>
    PROVE  Distinct' /\ Same
  BY DEF Distinct, QueuedOnce, QueuedNotTaken, TakenOnce, Same, Pending, Undone

LEMMA Added ==
    ASSUME TypeOK, Distinct, NEW j \in Job, ~Pending(j),
           jobs' = Append(jobs, j), worker' = worker
    PROVE  Distinct' /\ \A k \in Job : Pending(k)' <=> Pending(k) \/ k = j
<1>1. /\ Len(jobs) \in Nat /\ Len(jobs') = Len(jobs) + 1
      /\ \A i \in 1 .. Len(jobs) : jobs'[i] = jobs[i]
      /\ jobs'[Len(jobs) + 1] = j
  BY AppendFacts DEF TypeOK
<1>2. \A i \in 1 .. Len(jobs) : jobs[i] # j
  BY DEF Pending
<1>3. \A w \in Workers : ~Undone(w, j)
  BY DEF Pending
<1>4. \A w \in Workers : \A k : Undone(w, k)' <=> Undone(w, k)
  BY DEF Undone
<1>5. \A i \in 1 .. Len(jobs') : i \in 1 .. Len(jobs) \/ i = Len(jobs) + 1
  BY <1>1
<1>6. 1 .. Len(jobs) \subseteq 1 .. Len(jobs') /\ Len(jobs) + 1 \in 1 .. Len(jobs')
  BY <1>1
<1>7. Distinct'
  <2>1. \A i, k \in 1 .. Len(jobs') : jobs'[i] = jobs'[k] => i = k
    BY <1>1, <1>2, <1>5 DEF Distinct, QueuedOnce, QueuedNotTaken, TakenOnce
  <2>2. \A i \in 1 .. Len(jobs'), w \in Workers : ~(worker'[w].job = jobs'[i] /\ worker'[w].at # "release")
    BY <1>1, <1>3, <1>4, <1>5 DEF Distinct, QueuedOnce, QueuedNotTaken, TakenOnce, Undone
  <2>3. \A v, w \in Workers, k \in Job : Undone(v, k)' /\ Undone(w, k)' => v = w
    BY <1>4 DEF Distinct, QueuedOnce, QueuedNotTaken, TakenOnce
  <2>. QED
    BY <2>1, <2>2, <2>3 DEF Distinct, QueuedOnce, QueuedNotTaken, TakenOnce, Undone
<1>8. \A k \in Job : Pending(k)' <=> Pending(k) \/ k = j
  <2>. SUFFICES ASSUME NEW k \in Job PROVE Pending(k)' <=> Pending(k) \/ k = j
    OBVIOUS
  <2>1. (\E i \in 1 .. Len(jobs') : jobs'[i] = k) <=> (\E i \in 1 .. Len(jobs) : jobs[i] = k) \/ k = j
    BY <1>1, <1>5, <1>6
  <2>. QED
    BY <2>1, <1>4 DEF Pending
<1>. QED
  BY <1>7, <1>8

LEMMA Taken ==
    ASSUME TypeOK, Distinct, NEW w \in Workers, Take(w)
    PROVE  Distinct' /\ Same
<1>. DEFINE h == Head(jobs)
<1>1. /\ Len(jobs) \in Nat \ {0} /\ Len(jobs') = Len(jobs) - 1
      /\ h \in Job /\ h = jobs[1]
      /\ \A i \in 1 .. Len(jobs') : jobs'[i] = jobs[i + 1]
      /\ \A i \in 1 .. Len(jobs') : i + 1 \in 1 .. Len(jobs) /\ i \in Nat
  BY TailFacts DEF TypeOK, Take
<1>2. /\ \A v \in Workers \ {w} : worker'[v] = worker[v]
      /\ worker'[w].job = h /\ worker'[w].at # "release" /\ worker[w].job = None
  BY DEF Take, TypeOK, Idle
<1>. HIDE DEF h
<1>3. \A v \in Workers \ {w} : \A k : Undone(v, k)' <=> Undone(v, k)
  BY <1>2 DEF Undone
<1>4. \A k : Undone(w, k)' <=> k = h
  BY <1>2 DEF Undone
<1>5. \A k \in Job : ~Undone(w, k)
  BY <1>2, NoJob DEF Undone
<1>6. \A k \in Job : (\E i \in 1 .. Len(jobs) : jobs[i] = k)
                     <=> (\E i \in 1 .. Len(jobs') : jobs'[i] = k) \/ k = h
  <2>. TAKE k \in Job
  <2>1. ASSUME NEW i \in 1 .. Len(jobs), jobs[i] = k
        PROVE  (\E n \in 1 .. Len(jobs') : jobs'[n] = k) \/ k = h
    <3>1. CASE i = 1
      BY <2>1, <3>1, <1>1
    <3>2. CASE i # 1
      <4>1. i - 1 \in 1 .. Len(jobs') /\ (i - 1) + 1 = i
        BY <3>2, <1>1
      <4>. QED
        BY <4>1, <1>1, <2>1
    <3>. QED
      BY <3>1, <3>2
  <2>2. 1 \in 1 .. Len(jobs)
    BY <1>1
  <2>. QED
    BY <2>1, <2>2, <1>1
<1>7. \A i \in 1 .. Len(jobs') : jobs'[i] # h
  BY <1>1 DEF Distinct, QueuedOnce, QueuedNotTaken, TakenOnce
<1>8. \A v \in Workers : ~Undone(v, h)
  <2>1. 1 \in 1 .. Len(jobs)
    BY <1>1
  <2>. QED
    BY <2>1, <1>1 DEF Distinct, QueuedOnce, QueuedNotTaken, TakenOnce
<1>9. Distinct'
  <2>1. \A i, k \in 1 .. Len(jobs') : jobs'[i] = jobs'[k] => i = k
    BY <1>1 DEF Distinct, QueuedOnce, QueuedNotTaken, TakenOnce
  <2>2. \A i \in 1 .. Len(jobs'), v \in Workers : ~(worker'[v].job = jobs'[i] /\ worker'[v].at # "release")
    <3>. TAKE i \in 1 .. Len(jobs'), v \in Workers
    <3>1. CASE v = w
      <4>1. ~(worker'[w].job = jobs'[i])
        BY <1>2, <1>7
      <4>. QED
        BY <4>1, <3>1 DEF Undone
    <3>2. CASE v # w
      <4>1. ~Undone(v, jobs[i + 1])
        BY <1>1 DEF Distinct, QueuedOnce, QueuedNotTaken, TakenOnce
      <4>. QED
        BY <4>1, <3>2, <1>1, <1>2 DEF Undone
    <3>. QED
      BY <3>1, <3>2
  <2>3. \A v, x \in Workers, k \in Job : Undone(v, k)' /\ Undone(x, k)' => v = x
    BY <1>3, <1>4, <1>8 DEF Distinct, QueuedOnce, QueuedNotTaken, TakenOnce
  <2>. QED
    BY <2>1, <2>2, <2>3 DEF Distinct, QueuedOnce, QueuedNotTaken, TakenOnce, Undone
<1>10. Same
  <2>. SUFFICES ASSUME NEW k \in Job PROVE Pending(k)' <=> Pending(k)
    BY DEF Same
  <2>1. (\E v \in Workers : Undone(v, k)') <=> (\E v \in Workers : Undone(v, k)) \/ k = h
    BY <1>3, <1>4, <1>5
  <2>. QED
    BY <2>1, <1>6 DEF Pending
<1>. QED
  BY <1>9, <1>10

\* A thread goes on with its job.
LEMMA Continued ==
    ASSUME TypeOK, Distinct, NEW w \in Workers, NEW new \in Place,
           new.job = worker[w].job,
           new.at # "release", worker[w].at # "release",
           worker' = [worker EXCEPT ![w] = new], jobs' = jobs
    PROVE  Distinct' /\ Same
<1>1. \A v \in Workers : \A k : Undone(v, k)' <=> Undone(v, k)
  BY DEF TypeOK, Undone
<1>. QED
  BY <1>1 DEF Distinct, QueuedOnce, QueuedNotTaken, TakenOnce, Same, Pending, Undone, TypeOK

\* A thread is done with its job.
LEMMA Finished ==
    ASSUME TypeOK, Distinct, NEW w \in Workers, NEW new \in Place,
           new.at = "release", worker[w].at # "release", worker[w].job \in Job,
           worker' = [worker EXCEPT ![w] = new], jobs' = jobs
    PROVE  /\ Distinct'
           /\ \A k \in Job : Pending(k)' <=> Pending(k) /\ k # worker[w].job
<1>1. \A v \in Workers : \A k : Undone(v, k)' <=> Undone(v, k) /\ v # w
  BY DEF TypeOK, Undone
<1>2. Undone(w, worker[w].job)
  BY DEF Undone
<1>3. Distinct'
  <2>1. \A i, k \in 1 .. Len(jobs') : jobs'[i] = jobs'[k] => i = k
    BY DEF Distinct, QueuedOnce, QueuedNotTaken, TakenOnce
  <2>2. \A i \in 1 .. Len(jobs'), v \in Workers : ~(worker'[v].job = jobs'[i] /\ worker'[v].at # "release")
    BY DEF Distinct, QueuedOnce, QueuedNotTaken, TakenOnce, Undone, TypeOK
  <2>3. \A v, x \in Workers, k \in Job : Undone(v, k)' /\ Undone(x, k)' => v = x
    BY <1>1 DEF Distinct, QueuedOnce, QueuedNotTaken, TakenOnce
  <2>. QED
    BY <2>1, <2>2, <2>3 DEF Distinct, QueuedOnce, QueuedNotTaken, TakenOnce, Undone
<1>4. \A k \in Job : Pending(k)' <=> Pending(k) /\ k # worker[w].job
  <2>. SUFFICES ASSUME NEW k \in Job PROVE Pending(k)' <=> Pending(k) /\ k # worker[w].job
    OBVIOUS
  <2>1. k = worker[w].job => ~Pending(k)'
    <3>1. k = worker[w].job => \A i \in 1 .. Len(jobs) : jobs[i] # k
      BY <1>2 DEF Distinct, QueuedOnce, QueuedNotTaken, TakenOnce
    <3>2. k = worker[w].job => \A v \in Workers \ {w} : ~Undone(v, k)
      BY <1>2 DEF Distinct, QueuedOnce, QueuedNotTaken, TakenOnce
    <3>. QED
      BY <3>1, <3>2, <1>1 DEF Pending
  <2>2. k # worker[w].job => ~Undone(w, k)
    BY DEF Undone
  <2>. QED
    BY <2>1, <2>2, <1>1 DEF Pending
<1>. QED
  BY <1>3, <1>4

\* A thread lets go of a job that is done.
LEMMA Released ==
    ASSUME TypeOK, Distinct, NEW w \in Workers, worker[w].at = "release",
           worker' = [worker EXCEPT ![w] = Idle], jobs' = jobs
    PROVE  Distinct' /\ Same
<1>1. \A v \in Workers, k \in Job : Undone(v, k)' <=> Undone(v, k)
  BY NoJob DEF TypeOK, Undone, Idle
<1>2. \A i \in 1 .. Len(jobs) : jobs[i] \in Job
  BY ElementOfSeq DEF TypeOK
<1>3. Distinct'
  <2>1. \A i, k \in 1 .. Len(jobs') : jobs'[i] = jobs'[k] => i = k
    BY DEF Distinct, QueuedOnce, QueuedNotTaken, TakenOnce
  <2>2. \A i \in 1 .. Len(jobs'), v \in Workers : ~(worker'[v].job = jobs'[i] /\ worker'[v].at # "release")
    BY <1>2, NoJob DEF Distinct, QueuedOnce, QueuedNotTaken, TakenOnce, Undone, TypeOK, Idle
  <2>3. \A v, x \in Workers, k \in Job : Undone(v, k)' /\ Undone(x, k)' => v = x
    BY <1>1 DEF Distinct, QueuedOnce, QueuedNotTaken, TakenOnce
  <2>. QED
    BY <2>1, <2>2, <2>3 DEF Distinct, QueuedOnce, QueuedNotTaken, TakenOnce, Undone
<1>. QED
  BY <1>1, <1>3 DEF Same, Pending

----------------------------------------------------------------------------
(* One analysis of a document: the count follows from what is pending.     *)

LEMMA Counted ==
    TypeOK /\ Distinct /\ AnalysisPending => OneAnalysis
<1>. SUFFICES ASSUME TypeOK, Distinct, AnalysisPending, NEW d \in Documents
              PROVE  Analyses(d) = IF document[d].analyze THEN 1 ELSE 0
  BY DEF OneAnalysis
<1>. DEFINE j == Analysis(d)
            Q == {i \in 1 .. Len(jobs) : jobs[i] = j}
            W == {w \in Workers : worker[w].job = j /\ worker[w].at # "release"}
<1>0. Analyses(d) = Cardinality(Q) + Cardinality(W)
  BY DEF Analyses
<1>1. j \in Job
  BY SomeJobs
<1>2. document[d].analyze <=> Q # {} \/ W # {}
  BY DEF AnalysisPending, Pending, Undone
<1>3. \A i, k \in Q : i = k
  BY DEF Distinct, QueuedOnce, QueuedNotTaken, TakenOnce
<1>4. \A v, w \in W : v = w
  BY <1>1 DEF Distinct, QueuedOnce, QueuedNotTaken, TakenOnce, Undone
<1>5. Q = {} \/ W = {}
  BY DEF Distinct, QueuedOnce, QueuedNotTaken, TakenOnce, Undone
<1>. HIDE DEF j, Q, W
<1>6. Q = {} \/ \E i : Q = {i}
  BY <1>3
<1>7. W = {} \/ \E w : W = {w}
  BY <1>4
<1>8. Cardinality({}) = 0 /\ \A x : Cardinality({x}) = 1
  BY FS_EmptySet, FS_Singleton
<1>9. Cardinality(Q) + Cardinality(W) = IF document[d].analyze THEN 1 ELSE 0
  <2>1. CASE Q = {} /\ W = {}
    BY <2>1, <1>2, <1>8
  <2>2. CASE Q = {} /\ W # {}
    <3>1. Cardinality(Q) = 0 /\ Cardinality(W) = 1
      BY <2>2, <1>7, <1>8
    <3>. QED
      BY <2>2, <3>1, <1>2
  <2>3. CASE Q # {} /\ W = {}
    <3>1. Cardinality(Q) = 1 /\ Cardinality(W) = 0
      BY <2>3, <1>6, <1>8
    <3>. QED
      BY <2>3, <3>1, <1>2
  <2>. QED
    BY <2>1, <2>2, <2>3, <1>5
<1>. QED
  BY <1>0, <1>9

----------------------------------------------------------------------------
(* The steps of the reading thread.                                        *)

LEMMA QuietKeeps ==
    ASSUME Core, TypeOK',
           UNCHANGED <<opened, document, jobs, worker, asked, answer, made>>,
           \A u \in Uris : repository'[u] \in {None, repository[u]}
    PROVE  Core'
<1>1. Distinct' /\ Same
  BY Kept DEF Core
<1>2. Suits' /\ ReadLate' /\ KnownWhenIdle' /\ TasksWait' /\ ReadNotAhead' /\ CacheHeld' /\ AnswersMatch'
  BY DEF Core, Suits, ReadLate, KnownWhenIdle, TasksWait, ReadNotAhead, CacheHeld, AnswersMatch,
         Doc, Analyzing
<1>3. AnalysisPending'
  BY <1>1, SomeJobs DEF Core, AnalysisPending, Same
<1>4. CompletionWaits'
  BY <1>1, SomeJobs DEF Core, CompletionWaits, Same
<1>5. Numbered'
  BY <1>1 DEF Core, Numbered, Same
<1>. QED
  BY <1>1, <1>2, <1>3, <1>4, <1>5 DEF Core

LEMMA ShownTyped ==
    ASSUME TypeOK, NEW d
    PROVE  ShownWithout(d) \in [Uris -> Question]
<1>1. Nothing \in Question
  BY Bounds DEF Nothing, Question, Version
<1>2. [shown EXCEPT ![document[d].uri] = Nothing] \in [Uris -> Question]
  BY <1>1 DEF TypeOK
<1>. QED
  BY <1>2 DEF TypeOK, ShownWithout

LEMMA QuietSteps ==
    ASSUME Core, \/ Initialized \/ Shutdown \/ Drained
                 \/ \E u \in Uris : DidClose(u)
    PROVE  Core'
<1>0. TypeOK
  BY DEF Core
<1>n. Nothing \in Question
  BY Bounds DEF Nothing, Question, Version
<1>1. CASE Initialized \/ Shutdown
  <2>1. TypeOK' /\ \A u \in Uris : repository'[u] \in {None, repository[u]}
    BY <1>0, <1>1 DEF TypeOK, Initialized, Shutdown
  <2>. QED
    BY <1>1, <2>1, QuietKeeps DEF Initialized, Shutdown
<1>2. CASE Drained
  <2>1. \A u \in Uris : shown'[u] \in Question
    BY <1>0, <1>2, <1>n DEF TypeOK, Drained
  <2>2. TypeOK' /\ \A u \in Uris : repository'[u] \in {None, repository[u]}
    BY <1>0, <1>2, <1>n DEF TypeOK, Drained
  <2>. QED
    BY <1>2, <2>2, QuietKeeps DEF Drained
<1>3. CASE \E u \in Uris : DidClose(u)
  <2>1. PICK u \in Uris : DidClose(u)
    BY <1>3
  <2>2. TypeOK'
    BY <1>0, <2>1, ShownTyped DEF TypeOK, DidClose
  <2>3. \A v \in Uris : repository'[v] \in {None, repository[v]}
    BY <1>0, <2>1 DEF TypeOK, DidClose
  <2>. QED
    BY <2>1, <2>2, <2>3, QuietKeeps DEF DidClose
<1>. QED
  BY <1>1, <1>2, <1>3

LEMMA ExitKeeps ==
    ASSUME Core, Exit
    PROVE  Core'
<1>1. TypeOK'
  <2>1. NoDocument \in CodeDocument
    BY Bounds DEF NoDocument, CodeDocument, Version
  <2>2. Idle \in Place
    BY Bounds DEF Idle, Place, Version, WorkerStates
  <2>3. <<>> \in Seq(Job)
    BY EmptySeq
  <2>. QED
    BY <2>1, <2>2, <2>3, Bounds DEF Core, TypeOK, Exit
<1>2. /\ opened' = 0 /\ \A d \in Documents : document'[d] = NoDocument
      /\ jobs' = <<>> /\ Len(jobs') = 0 /\ \A w \in Workers : worker'[w] = Idle
      /\ \A u \in Uris : repository'[u] = None
      /\ UNCHANGED <<asked, answer, made>>
  BY EmptySeq DEF Exit
<1>3. \A j \in Job : ~Pending(j)'
  BY <1>2, NoJob DEF Pending, Undone, Idle
<1>4. Suits' /\ ReadLate' /\ ReadNotAhead'
  BY <1>2 DEF Suits, ReadLate, ReadNotAhead, Idle
<1>5. Distinct'
  BY <1>2, NoJob DEF Distinct, QueuedOnce, QueuedNotTaken, TakenOnce, Undone, Idle
<1>6. AnalysisPending' /\ CompletionWaits'
  BY <1>2, <1>3, SomeJobs DEF AnalysisPending, CompletionWaits, NoDocument
<1>7. Numbered'
  BY <1>2, <1>3 DEF Core, Numbered
<1>8. KnownWhenIdle'
  BY <1>2, Bounds DEF KnownWhenIdle
<1>9. TasksWait' /\ CacheHeld'
  BY <1>2 DEF TasksWait, CacheHeld, NoDocument
<1>10. AnswersMatch'
  BY <1>2 DEF Core, AnswersMatch
<1>. QED
  BY <1>1, <1>4, <1>5, <1>6, <1>7, <1>8, <1>9, <1>10 DEF Core

LEMMA DidOpenKeeps ==
    ASSUME Core, NEW u \in Uris, DidOpen(u)
    PROVE  Core'
<1>. DEFINE d == opened + 1
<1>0. /\ TypeOK /\ d \in Documents /\ opened \in Nat /\ d \notin 1 .. opened
      /\ \A e \in Documents : e <= d => e <= opened \/ e = d
      /\ \A e \in 1 .. opened : e # d /\ e \in Documents
      /\ \A e \in 1 .. d : e = d \/ e \in 1 .. opened
      /\ \A e \in Documents : e <= opened => e # d
      /\ MaxVersion \in Nat \ {0}
  BY Bounds DEF Core, TypeOK, DidOpen, Documents
<1>1. NewDocument(u) \in CodeDocument
  BY Bounds DEF NewDocument, CodeDocument, Version
<1>2. TypeOK'
  <2>1. opened' \in 0 .. MaxDocuments
    BY <1>0, Bounds DEF DidOpen, Documents
  <2>2. jobs' \in Seq(Job)
    BY <1>0, AppendFacts, SomeJobs DEF DidOpen, TypeOK
  <2>3. repository' \in [Uris -> Documents \cup {None}] /\ document' \in [Documents -> CodeDocument]
    BY <1>0, <1>1 DEF DidOpen, TypeOK
  <2>4. shown' \in [Uris -> Question] /\ overlapped' \subseteq Documents
    BY <1>0, ShownTyped DEF DidOpen, TypeOK
  <2>. QED
    BY <1>0, <2>1, <2>2, <2>3, <2>4 DEF DidOpen, TypeOK
<1>3. /\ document'[d] = NewDocument(u) /\ \A e \in Documents : e # d => document'[e] = document[e]
      /\ document[d] = NoDocument /\ opened' = d
      /\ \A v \in Uris : repository'[v] = repository[v] \/ repository'[v] = d
      /\ UNCHANGED <<worker, asked, answer, made>>
  BY <1>0 DEF DidOpen, TypeOK, Core, Numbered
<1>4. ~Pending(Analysis(d))
  BY <1>0, <1>3 DEF Core, AnalysisPending, NoDocument
<1>5. Distinct' /\ \A k \in Job : Pending(k)' <=> Pending(k) \/ k = Analysis(d)
  BY <1>0, <1>4, SomeJobs, Added DEF Core, DidOpen
<1>. HIDE DEF d
<1>6. Suits' /\ ReadLate'
  BY <1>3 DEF Core, Suits, ReadLate, Analyzing
<1>7. AnalysisPending'
  BY <1>0, <1>3, <1>5, SomeJobs DEF Core, AnalysisPending, NewDocument
<1>8. CompletionWaits'
  <2>. SUFFICES ASSUME NEW e \in Documents, NEW r \in Requests, Pending(Completion(e, r))'
                PROVE  /\ r <= made /\ answer[r] = None /\ r \notin document'[e].tasks
                       /\ asked[r].doc = e /\ asked[r].version <= document'[e].latest
    BY <1>3 DEF CompletionWaits
  <2>1. Pending(Completion(e, r)) /\ e <= opened
    BY <1>0, <1>5, SomeJobs DEF Core, Numbered
  <2>. QED
    BY <2>1, <1>0, <1>3 DEF Core, CompletionWaits, TypeOK
<1>9. Numbered'
  <2>1. \A e \in Documents : e > opened' => document'[e] = NoDocument
    BY <1>0, <1>3 DEF Core, Numbered, Documents
  <2>2. \A v \in Uris : repository'[v] # None => repository'[v] <= opened'
    <3>1. \A v \in Uris : repository[v] # None => repository[v] \in Documents /\ repository[v] <= opened
      BY <1>0 DEF Core, Numbered, TypeOK
    <3>. QED
      BY <3>1, <1>0, <1>3 DEF Documents
  <2>3. \A j \in Job : Pending(j)' => j.doc <= opened'
    BY <1>0, <1>3, <1>5, SomeJobs, JobShape DEF Core, Numbered, Documents
  <2>. QED
    BY <2>1, <2>2, <2>3, <1>3 DEF Core, Numbered
<1>10. KnownWhenIdle'
  <2>2. document'[d].analyze
    BY <1>3 DEF NewDocument
  <2>. QED
    BY <2>2, <1>0, <1>3 DEF Core, KnownWhenIdle
<1>11. TasksWait'
  BY <1>0, <1>3 DEF Core, TasksWait, NewDocument
<1>12. ReadNotAhead'
  <2>. SUFFICES ASSUME NEW w \in Workers, worker[w].job # None
                PROVE  Doc(w) <= opened' /\ worker[w].version <= document'[Doc(w)].latest
    BY <1>3 DEF ReadNotAhead, Doc
  <2>1. Doc(w) \in Documents /\ Doc(w) <= opened
    BY <1>0 DEF Core, ReadNotAhead, TypeOK, Place, Job, Doc
  <2>. QED
    BY <2>1, <1>0, <1>3 DEF Core, ReadNotAhead, Documents
<1>13. CacheHeld'
  BY <1>0, <1>3 DEF Core, CacheHeld, NewDocument, Doc
<1>14. AnswersMatch'
  BY <1>3 DEF Core, AnswersMatch
<1>. QED
  BY <1>2, <1>5, <1>6, <1>7, <1>8, <1>9, <1>10, <1>11, <1>12, <1>13, <1>14 DEF Core

LEMMA OpenedDocuments ==
    ASSUME TypeOK
    PROVE  opened \in Nat /\ \A e \in 1 .. opened : e \in Documents
  BY Bounds DEF TypeOK, Documents

LEMMA RegisteredOpened ==
    ASSUME Core, NEW u \in Uris, repository[u] # None
    PROVE  repository[u] \in Documents /\ repository[u] \in 1 .. opened
  BY DEF Core, TypeOK, Numbered, Documents

LEMMA DidChangeKeeps ==
    ASSUME Core, NEW u \in Uris, DidChange(u)
    PROVE  Core'
<1>. DEFINE d == repository[u]
            new == [document[d] EXCEPT !.latest = @ + 1, !.analyze = TRUE]
<1>0. TypeOK /\ d \in Documents /\ d \in 1 .. opened /\ document[d].latest < MaxVersion
      /\ MaxVersion \in Nat /\ document[d] \in CodeDocument
  BY RegisteredOpened, Bounds DEF Core, TypeOK, DidChange
<1>1. /\ new.uri = document[d].uri /\ new.tasks = document[d].tasks
      /\ new.meta = document[d].meta /\ new.cache = document[d].cache
      /\ new.analyze = TRUE /\ new.latest = document[d].latest + 1
  BY <1>0 DEF CodeDocument
<1>2. new \in CodeDocument
  <2>1. document[d].latest + 1 \in Version
    BY <1>0 DEF CodeDocument, Version
  <2>. QED
    BY <2>1, <1>0 DEF CodeDocument
<1>3. document' = [document EXCEPT ![d] = new]
  BY <1>0 DEF DidChange, TypeOK
<1>4. /\ document'[d] = new /\ \A e \in Documents : e # d => document'[e] = document[e]
      /\ document' \in [Documents -> CodeDocument]
      /\ UNCHANGED <<state, repository, opened, worker, asked, answer, made, shown, overlapped>>
  BY <1>0, <1>2, <1>3 DEF TypeOK, DidChange
<1>. HIDE DEF new
<1>5. TypeOK' /\ Distinct' /\ \A k \in Job : Pending(k)' <=> Pending(k) \/ k = Analysis(d)
  <2>1. CASE document[d].analyze
    <3>1. jobs' = jobs /\ Pending(Analysis(d))
      BY <2>1, <1>0 DEF Core, AnalysisPending, DidChange, Launch
    <3>. QED
      BY <3>1, <1>0, <1>4, Kept DEF Core, TypeOK, Same
  <2>2. CASE ~document[d].analyze
    <3>1. jobs' = Append(jobs, Analysis(d)) /\ ~Pending(Analysis(d))
      BY <2>2, <1>0 DEF Core, AnalysisPending, DidChange, Launch
    <3>2. jobs' \in Seq(Job)
      BY <3>1, <1>0, AppendFacts, SomeJobs DEF TypeOK
    <3>. QED
      BY <3>1, <3>2, <1>0, <1>4, SomeJobs, Added DEF Core, TypeOK
  <2>. QED
    BY <2>1, <2>2
<1>6. \A e \in Documents : /\ document'[e].uri = document[e].uri
                           /\ document'[e].tasks = document[e].tasks
                           /\ document'[e].meta = document[e].meta
                           /\ document'[e].cache = document[e].cache
                           /\ document'[e].analyze <=> document[e].analyze \/ e = d
                           /\ document[e].latest \in Nat /\ document'[e].latest \in Nat
                           /\ document[e].latest <= document'[e].latest
                           /\ e # d => document'[e].latest = document[e].latest
  BY <1>0, <1>1, <1>4 DEF TypeOK, CodeDocument, Version
<1>7. Suits' /\ ReadLate' /\ AnswersMatch'
  BY <1>4 DEF Core, Suits, ReadLate, Analyzing, AnswersMatch
<1>8. AnalysisPending'
  BY <1>0, <1>5, <1>6, SomeJobs DEF Core, AnalysisPending
<1>q. \A r \in Requests : asked[r].version \in Nat
  BY <1>0 DEF TypeOK, Question, Version
<1>9. CompletionWaits'
  <2>. SUFFICES ASSUME NEW e \in Documents, NEW r \in Requests, Pending(Completion(e, r))'
                PROVE  /\ r <= made /\ answer[r] = None /\ r \notin document'[e].tasks
                       /\ asked[r].doc = e /\ asked[r].version <= document'[e].latest
    BY <1>4 DEF CompletionWaits
  <2>1. Pending(Completion(e, r))
    BY <1>0, <1>5, SomeJobs
  <2>. QED
    BY <2>1, <1>6, <1>q DEF Core, CompletionWaits
<1>10. Numbered'
  <2>1. \A e \in Documents : e > opened => document'[e] = NoDocument
    BY <1>0, <1>4 DEF Core, Numbered, TypeOK
  <2>2. \A j \in Job : Pending(j)' => j.doc <= opened
    BY <1>0, <1>5, SomeJobs DEF Core, Numbered
  <2>. QED
    BY <2>1, <2>2, <1>4 DEF Core, Numbered
<1>11. KnownWhenIdle'
  BY <1>0, <1>1, <1>4, <1>6, OpenedDocuments DEF Core, KnownWhenIdle
<1>12. TasksWait'
  BY <1>4, <1>6, <1>q DEF Core, TasksWait, TypeOK, CodeDocument
<1>13. ReadNotAhead'
  <2>. SUFFICES ASSUME NEW w \in Workers, worker[w].job # None
                PROVE  Doc(w) <= opened /\ worker[w].version <= document'[Doc(w)].latest
    BY <1>4 DEF ReadNotAhead, Doc
  <2>1. Doc(w) \in Documents /\ worker[w].version \in Nat
    BY <1>0 DEF TypeOK, Place, Job, Doc, Version
  <2>. QED
    BY <2>1, <1>6 DEF Core, ReadNotAhead
<1>14. CacheHeld'
  BY <1>4, <1>6 DEF Core, CacheHeld, Doc
<1>. QED
  BY <1>5, <1>7, <1>8, <1>9, <1>10, <1>11, <1>12, <1>13, <1>14 DEF Core

LEMMA Asking ==
    ASSUME Core, NEW d \in Documents, NewRequest(d)
    PROVE  /\ made + 1 \in Requests /\ made' = made + 1 /\ made' \in 0 .. MaxRequests
           /\ made \in Nat
           /\ asked' \in [Requests -> Question]
           /\ asked'[made + 1] = [doc |-> d, version |-> document[d].latest]
           /\ \A r \in Requests : r # made + 1 => asked'[r] = asked[r]
           /\ answer[made + 1] = None
           /\ \A r \in Requests : r <= made => r # made + 1 /\ r <= made'
           /\ \A r \in Requests : r > made' => r > made
           /\ \A r \in Requests : asked[r].version \in Nat
<1>1. made + 1 \in Requests /\ made \in Nat /\ MaxRequests \in Nat /\ made' = made + 1
  BY Bounds DEF Core, TypeOK, NewRequest, Requests
<1>2. [doc |-> d, version |-> document[d].latest] \in Question
  BY DEF Core, TypeOK, CodeDocument, Question
<1>3. asked' \in [Requests -> Question]
  BY <1>1, <1>2 DEF Core, TypeOK, NewRequest
<1>4. answer[made + 1] = None
  BY <1>1 DEF Core, Numbered
<1>5. /\ asked'[made + 1] = [doc |-> d, version |-> document[d].latest]
      /\ \A r \in Requests : r # made + 1 => asked'[r] = asked[r]
  BY <1>1 DEF Core, TypeOK, NewRequest
<1>6. \A r \in Requests : asked[r].version \in Nat
  BY DEF Core, TypeOK, Question, Version
<1>. QED
  BY <1>1, <1>3, <1>4, <1>5, <1>6 DEF Requests

\* A question waits with its document, or is answered from what is known.
LEMMA CodeTaskKeeps ==
    ASSUME Core, NEW u \in Uris, CodeTask(u)
    PROVE  Core'
<1>. DEFINE d == repository[u]
            r == made + 1
            Waits == ~Known(d)
<1>0. TypeOK /\ d \in Documents /\ d \in 1 .. opened /\ document[d] \in CodeDocument /\ NewRequest(d)
  BY RegisteredOpened DEF Core, TypeOK, CodeTask
<1>a. /\ made + 1 \in Requests /\ made' = made + 1 /\ made' \in 0 .. MaxRequests
      /\ made \in Nat
      /\ asked' \in [Requests -> Question]
      /\ asked'[made + 1] = [doc |-> d, version |-> document[d].latest]
      /\ \A q \in Requests : q # made + 1 => asked'[q] = asked[q]
      /\ answer[made + 1] = None
      /\ \A q \in Requests : q <= made => q # made + 1 /\ q <= made'
      /\ \A q \in Requests : q > made' => q > made
      /\ \A q \in Requests : asked[q].version \in Nat
  BY <1>0, Asking
<1>1. /\ r \in Requests /\ made' = r /\ asked' \in [Requests -> Question]
      /\ asked'[r].doc = d /\ asked'[r].version = document[d].latest
      /\ \A q \in Requests : q # r => asked'[q] = asked[q]
      /\ answer[r] = None
  BY <1>a
<1>2. UNCHANGED <<state, repository, opened, jobs, worker, shown, overlapped>>
  BY DEF CodeTask
<1>3. \A e \in Documents : /\ document'[e] \in CodeDocument
                           /\ document'[e].uri = document[e].uri
                           /\ document'[e].meta = document[e].meta
                           /\ document'[e].cache = document[e].cache
                           /\ document'[e].analyze = document[e].analyze
                           /\ document'[e].latest = document[e].latest
                           /\ document'[e].tasks = IF e = d /\ Waits THEN document[e].tasks \cup {r}
                                                   ELSE document[e].tasks
                           /\ e # d => document'[e] = document[e]
  <2>1. CASE Waits
    <3>. DEFINE new == [document[d] EXCEPT !.tasks = @ \cup {r}]
    <3>1. new \in CodeDocument /\ document' = [document EXCEPT ![d] = new]
      BY <1>0, <1>1, <2>1 DEF CodeTask, CodeDocument, TypeOK
    <3>2. /\ new.uri = document[d].uri /\ new.meta = document[d].meta
          /\ new.cache = document[d].cache /\ new.analyze = document[d].analyze
          /\ new.latest = document[d].latest /\ new.tasks = document[d].tasks \cup {r}
      BY <1>0 DEF CodeDocument
    <3>. HIDE DEF new
    <3>. QED
      BY <3>1, <3>2, <2>1, <1>0 DEF TypeOK
  <2>2. CASE ~Waits
    BY <2>2, <1>0 DEF CodeTask, TypeOK
  <2>. QED
    BY <2>1, <2>2
<1>4. document' \in [Documents -> CodeDocument]
  <2>1. document' = [e \in Documents |-> document'[e]]
    BY <1>0 DEF CodeTask, TypeOK
  <2>. QED
    BY <2>1, <1>3
<1>5. /\ answer' \in [Requests -> Answer \cup {None}]
      /\ \A q \in Requests : q # r => answer'[q] = answer[q]
      /\ answer'[r] = IF Waits THEN None ELSE Reply(d, document[d].latest, document[d].meta)
  <2>1. Reply(d, document[d].latest, document[d].meta) \in Answer
    BY <1>0 DEF Reply, Answer, CodeDocument
  <2>2. CASE Waits
    BY <2>2, <1>0, <1>1 DEF CodeTask, TypeOK
  <2>3. CASE ~Waits
    BY <2>1, <2>3, <1>0, <1>1 DEF CodeTask, TypeOK
  <2>. QED
    BY <2>2, <2>3
<1>6. TypeOK'
  BY <1>0, <1>a, <1>2, <1>4, <1>5 DEF TypeOK
<1>7. Distinct' /\ Same
  BY <1>2, Kept DEF Core
<1>8. \A q \in Requests : (q <= made => q # r /\ q <= made') /\ (q > made' => q > made /\ q # r)
  BY <1>a DEF Requests
<1>9. /\ \A q \in Requests : asked[q].version \in Nat
      /\ r <= made' /\ document[d].latest <= document[d].latest
  BY <1>0, <1>a DEF CodeDocument, Version
<1>10. r \notin document[d].tasks /\ \A e \in Documents : ~Pending(Completion(e, r))
  BY <1>0, <1>1, <1>8 DEF Core, TasksWait, CompletionWaits
<1>11. Waits <=> document[d].analyze
  BY DEF Known
<1>. HIDE DEF r, Waits, d
<1>12. Suits' /\ AnalysisPending'
  BY <1>2, <1>3, <1>7, SomeJobs DEF Core, Suits, Analyzing, AnalysisPending, Same
<1>13. ReadLate'
  <2>. SUFFICES ASSUME NEW w \in Workers,
                       worker[w].at \in {"start", "compile", "respond"} /\ ~Analyzing(w)
                PROVE  asked'[worker[w].job.request].version <= worker[w].version
    BY <1>2 DEF ReadLate, Analyzing
  <2>1. worker[w].job \in Job
    BY <1>0 DEF Core, Suits, Idle, TypeOK, Place
  <2>2. worker[w].job.request \in Requests /\ Pending(worker[w].job)
        /\ worker[w].job = Completion(Doc(w), worker[w].job.request) /\ Doc(w) \in Documents
    BY <2>1, JobShape DEF Analyzing, Pending, Undone, Doc
  <2>3. worker[w].job.request # r
    BY <2>2, <1>10
  <2>. QED
    BY <2>2, <2>3, <1>1 DEF Core, ReadLate
<1>14. CompletionWaits'
  <2>. SUFFICES ASSUME NEW e \in Documents, NEW q \in Requests, Pending(Completion(e, q))
                PROVE  /\ q <= made' /\ answer'[q] = None /\ q \notin document'[e].tasks
                       /\ asked'[q].doc = e /\ asked'[q].version <= document'[e].latest
    BY <1>7, SomeJobs DEF CompletionWaits, Same
  <2>1. q # r
    BY <1>10
  <2>2. /\ q <= made /\ answer[q] = None /\ q \notin document[e].tasks
        /\ asked[q].doc = e /\ asked[q].version <= document[e].latest
    BY DEF Core, CompletionWaits
  <2>3. q \notin document'[e].tasks
    <3>1. document'[e].tasks = document[e].tasks \cup {r} \/ document'[e].tasks = document[e].tasks
      BY <1>3
    <3>. QED
      BY <2>1, <2>2, <3>1
  <2>4. document'[e].latest = document[e].latest
    BY <1>3
  <2>. QED
    BY <2>1, <2>2, <2>3, <2>4, <1>1, <1>5, <1>8
<1>15. Numbered'
  <2>1. \A e \in Documents : e > opened => document'[e] = NoDocument
    <3>1. \A e \in Documents : e > opened => e # d
      BY <1>0, OpenedDocuments
    <3>. QED
      BY <3>1, <1>3 DEF Core, Numbered
  <2>2. \A j \in Job : Pending(j)' => j.doc <= opened
    BY <1>7 DEF Core, Numbered, Same
  <2>3. \A q \in Requests : q > made' => answer'[q] = None
    BY <1>5, <1>8 DEF Core, Numbered
  <2>. QED
    BY <2>1, <2>2, <2>3, <1>2 DEF Core, Numbered
<1>16. KnownWhenIdle'
  <2>1. ASSUME NEW e \in 1 .. opened, ~document'[e].analyze
        PROVE  document'[e].tasks = {} /\ document'[e].meta = document'[e].latest
    <3>1. /\ e \in Documents /\ document[e].analyze = document'[e].analyze
          /\ document[e].meta = document'[e].meta /\ document[e].latest = document'[e].latest
      BY <1>0, <1>3, OpenedDocuments
    <3>2. document[e].tasks = {} /\ document[e].meta = document[e].latest
      BY <2>1, <3>1 DEF Core, KnownWhenIdle
    <3>3. document'[e].tasks = document[e].tasks
      BY <2>1, <3>1, <1>3, <1>11
    <3>. QED
      BY <3>1, <3>2, <3>3
  <2>. QED
    BY <2>1, <1>2 DEF KnownWhenIdle
<1>17. TasksWait'
  <2>. SUFFICES ASSUME NEW e \in Documents, NEW q \in document'[e].tasks
                PROVE  /\ q <= made' /\ asked'[q].doc = e /\ answer'[q] = None
                       /\ asked'[q].version <= document'[e].latest
    BY DEF TasksWait
  <2>1. CASE q = r
    <3>1. e = d /\ Waits
      <4>1. r \notin document[e].tasks
        BY <1>0, <1>1, <1>8 DEF Core, TasksWait
      <4>2. document'[e].tasks = IF e = d /\ Waits THEN document[e].tasks \cup {r}
                                 ELSE document[e].tasks
        BY <1>3
      <4>. QED
        BY <4>1, <4>2, <2>1
    <3>2. document'[d].latest = document[d].latest /\ d \in Documents
      BY <3>1, <1>3
    <3>3. answer'[r] = None
      BY <3>1, <1>5
    <3>. QED
      BY <2>1, <3>1, <3>2, <3>3, <1>1, <1>9
  <2>2. CASE q # r
    <3>0. document'[e].tasks \subseteq document[e].tasks \cup {r}
      BY <1>3
    <3>1. q \in document[e].tasks /\ q \in Requests
      BY <2>2, <3>0, <1>0 DEF TypeOK, CodeDocument
    <3>2. /\ q <= made /\ asked[q].doc = e /\ asked[q].version <= document[e].latest
          /\ answer[q] = None
      BY <3>1 DEF Core, TasksWait
    <3>3. document'[e].latest = document[e].latest
      BY <1>3
    <3>. QED
      BY <2>2, <3>1, <3>2, <3>3, <1>1, <1>5, <1>8
  <2>. QED
    BY <2>1, <2>2
<1>18. ReadNotAhead' /\ CacheHeld'
  <2>1. \A w \in Workers : worker[w].job # None => Doc(w) \in Documents
    BY <1>0 DEF Doc, TypeOK, Place, Job
  <2>2. ReadNotAhead'
    <3>1. \A w \in Workers : worker[w].job # None =>
              document'[Doc(w)].latest = document[Doc(w)].latest
      BY <2>1, <1>3
    <3>. QED
      BY <3>1, <1>2 DEF Core, ReadNotAhead, Doc
  <2>3. CacheHeld'
    <3>1. \A e \in Documents : document'[e].cache = document[e].cache
      BY <1>3
    <3>. QED
      BY <3>1, <1>2 DEF Core, CacheHeld, Doc
  <2>. QED
    BY <2>2, <2>3
<1>19. AnswersMatch'
  <2>. SUFFICES ASSUME NEW q \in Requests, answer'[q] # None
                PROVE  /\ answer'[q].code = answer'[q].meta
                       /\ answer'[q].doc = asked'[q].doc /\ answer'[q].code >= asked'[q].version
    BY DEF AnswersMatch
  <2>1. CASE q = r
    <3>1. ~Waits
      BY <2>1, <1>5
    <3>2. document[d].meta = document[d].latest
      BY <3>1, <1>0, <1>11 DEF Core, KnownWhenIdle
    <3>. QED
      BY <2>1, <3>1, <3>2, <1>0, <1>1, <1>5, <1>9 DEF Reply, CodeDocument, Version
  <2>2. CASE q # r
    BY <2>2, <1>1, <1>5 DEF Core, AnswersMatch
  <2>. QED
    BY <2>1, <2>2
<1>. QED
  BY <1>6, <1>7, <1>12, <1>13, <1>14, <1>15, <1>16, <1>17, <1>18, <1>19 DEF Core

LEMMA CompleteKeeps ==
    ASSUME Core, NEW u \in Uris, Complete(u)
    PROVE  Core'
<1>. DEFINE d == repository[u]
            r == made + 1
<1>0. TypeOK /\ d \in Documents /\ d \in 1 .. opened /\ document[d] \in CodeDocument /\ NewRequest(d)
  BY RegisteredOpened DEF Core, TypeOK, Complete
<1>a. /\ made + 1 \in Requests /\ made' = made + 1 /\ made' \in 0 .. MaxRequests
      /\ made \in Nat
      /\ asked' \in [Requests -> Question]
      /\ asked'[made + 1] = [doc |-> d, version |-> document[d].latest]
      /\ \A q \in Requests : q # made + 1 => asked'[q] = asked[q]
      /\ answer[made + 1] = None
      /\ \A q \in Requests : q <= made => q # made + 1 /\ q <= made'
      /\ \A q \in Requests : q > made' => q > made
      /\ \A q \in Requests : asked[q].version \in Nat
  BY <1>0, Asking
<1>1. /\ r \in Requests /\ made' = r /\ asked' \in [Requests -> Question]
      /\ asked'[r].doc = d /\ asked'[r].version = document[d].latest
      /\ \A q \in Requests : q # r => asked'[q] = asked[q]
      /\ answer[r] = None
  BY <1>a
<1>2. UNCHANGED <<state, repository, opened, document, worker, answer, shown, overlapped>>
  BY DEF Complete
<1>8. \A q \in Requests : (q <= made => q # r /\ q <= made') /\ (q > made' => q > made /\ q # r)
  BY <1>a DEF Requests
<1>9. r <= made' /\ document[d].latest <= document[d].latest
  BY <1>0, <1>a DEF CodeDocument, Version
<1>10. \A e \in Documents : r \notin document[e].tasks /\ ~Pending(Completion(e, r))
  BY <1>0, <1>1, <1>8 DEF Core, TasksWait, CompletionWaits
<1>11. Completion(d, r) \in Job /\ Completion(d, r) # Analysis(d) /\ Completion(d, r).doc = d
       /\ Completion(d, r).request = r /\ r # 0
  BY <1>0, <1>1, SomeJobs DEF Requests
<1>12. Distinct' /\ \A k \in Job : Pending(k)' <=> Pending(k) \/ k = Completion(d, r)
  BY <1>0, <1>10, <1>11, <1>2, Added DEF Core, Complete
<1>13. TypeOK'
  <2>1. jobs' \in Seq(Job)
    BY <1>0, <1>11, AppendFacts DEF Complete, TypeOK
  <2>. QED
    BY <2>1, <1>0, <1>a, <1>2 DEF TypeOK
<1>. HIDE DEF r, d
<1>14. Suits' /\ AnswersMatch'
  <2>1. Suits'
    BY <1>2 DEF Core, Suits, Analyzing
  <2>2. AnswersMatch'
    BY <1>1, <1>2 DEF Core, AnswersMatch
  <2>. QED
    BY <2>1, <2>2
<1>15. AnalysisPending'
  BY <1>2, <1>11, <1>12, SomeJobs DEF Core, AnalysisPending
<1>16. ReadLate'
  <2>. SUFFICES ASSUME NEW w \in Workers,
                       worker[w].at \in {"start", "compile", "respond"} /\ ~Analyzing(w)
                PROVE  asked'[worker[w].job.request].version <= worker[w].version
    BY <1>2 DEF ReadLate, Analyzing
  <2>1. worker[w].job \in Job
    BY <1>0 DEF Core, Suits, Idle, TypeOK, Place
  <2>2. worker[w].job.request \in Requests /\ Pending(worker[w].job)
        /\ worker[w].job = Completion(Doc(w), worker[w].job.request) /\ Doc(w) \in Documents
    BY <2>1, JobShape DEF Analyzing, Pending, Undone, Doc
  <2>3. worker[w].job.request # r
    BY <2>2, <1>10
  <2>. QED
    BY <2>2, <2>3, <1>1 DEF Core, ReadLate
<1>17. CompletionWaits'
  <2>. SUFFICES ASSUME NEW e \in Documents, NEW q \in Requests, Pending(Completion(e, q))'
                PROVE  /\ q <= made' /\ answer[q] = None /\ q \notin document[e].tasks
                       /\ asked'[q].doc = e /\ asked'[q].version <= document[e].latest
    BY <1>2 DEF CompletionWaits
  <2>0. Completion(e, q) \in Job /\ Completion(e, q).doc = e /\ Completion(e, q).request = q
    BY SomeJobs
  <2>1. CASE Pending(Completion(e, q))
    <3>1. /\ q <= made /\ answer[q] = None /\ q \notin document[e].tasks
          /\ asked[q].doc = e /\ asked[q].version <= document[e].latest
      BY <2>1 DEF Core, CompletionWaits
    <3>. QED
      BY <3>1, <1>1, <1>8
  <2>2. CASE Completion(e, q) = Completion(d, r)
    <3>1. e = d /\ q = r
      BY <2>0, <2>2, <1>11
    <3>. QED
      BY <3>1, <1>1, <1>9, <1>10
  <2>. QED
    BY <2>0, <2>1, <2>2, <1>12
<1>18. Numbered'
  <2>1. \A j \in Job : Pending(j)' => j.doc <= opened
    BY <1>0, <1>11, <1>12 DEF Core, Numbered
  <2>. QED
    BY <2>1, <1>2, <1>8 DEF Core, Numbered
<1>19. KnownWhenIdle' /\ ReadNotAhead' /\ CacheHeld'
  BY <1>2 DEF Core, KnownWhenIdle, ReadNotAhead, CacheHeld, Doc
<1>20. TasksWait'
  <2>. SUFFICES ASSUME NEW e \in Documents, NEW q \in document[e].tasks
                PROVE  /\ q <= made' /\ asked'[q].doc = e /\ answer[q] = None
                       /\ asked'[q].version <= document[e].latest
    BY <1>2 DEF TasksWait
  <2>1. q \in Requests
    BY <1>0 DEF TypeOK, CodeDocument
  <2>2. /\ q <= made /\ asked[q].doc = e /\ asked[q].version <= document[e].latest
        /\ answer[q] = None
    BY DEF Core, TasksWait
  <2>. QED
    BY <2>1, <2>2, <1>1, <1>8
<1>. QED
  BY <1>12, <1>13, <1>14, <1>15, <1>16, <1>17, <1>18, <1>19, <1>20 DEF Core

----------------------------------------------------------------------------
(* The steps of a thread of the pool.                                      *)

LEMMA Working ==
    ASSUME Core, NEW w \in Workers, Running(w)
    PROVE  /\ worker[w] \in Place /\ worker[w].job \in Job
           /\ Doc(w) \in Documents /\ Doc(w) \in 1 .. opened
           /\ document[Doc(w)] \in CodeDocument
           /\ worker[w].version <= document[Doc(w)].latest
           /\ worker[w].at # "release" => Pending(worker[w].job)
           /\ Analyzing(w) => worker[w].job = Analysis(Doc(w))
           /\ ~Analyzing(w) => /\ worker[w].job.request \in Requests
                               /\ worker[w].job = Completion(Doc(w), worker[w].job.request)
<1>1. worker[w] \in Place /\ worker[w].job \in Job
  BY DEF Core, TypeOK, Suits, Place, Running
<1>2. Doc(w) \in Documents
  BY <1>1, JobShape DEF Doc
<1>3. Doc(w) <= opened /\ worker[w].version <= document[Doc(w)].latest
  BY <1>1, NoJob DEF Core, ReadNotAhead
<1>4. Doc(w) \in 1 .. opened
  BY <1>2, <1>3 DEF Core, TypeOK, Documents
<1>5. document[Doc(w)] \in CodeDocument
  BY <1>2 DEF Core, TypeOK
<1>6. worker[w].at # "release" => Pending(worker[w].job)
  BY DEF Pending, Undone
<1>. QED
  BY <1>1, <1>2, <1>3, <1>4, <1>5, <1>6, JobShape DEF Doc, Analyzing

LEMMA TakeKeeps ==
    ASSUME Core, NEW w \in Workers, Take(w)
    PROVE  Core'
<1>0. TypeOK /\ Len(jobs) \in Nat \ {0} /\ Head(jobs) \in Job /\ Tail(jobs) \in Seq(Job)
      /\ Head(jobs) = jobs[1]
  BY TailFacts DEF Core, TypeOK, Take
<1>. DEFINE h == Head(jobs)
            new == [job |-> h, at |-> "read", version |-> 0]
<1>1. new \in Place /\ new.job = h /\ new.at = "read" /\ new.version = 0
  BY <1>0, Bounds DEF Place, WorkerStates, Version
<1>2. UNCHANGED <<state, repository, opened, document, asked, answer, made, shown, overlapped>>
  BY DEF Take
<1>3. /\ worker'[w] = new /\ \A v \in Workers : v # w => worker'[v] = worker[v]
      /\ worker' \in [Workers -> Place] /\ worker[w] = Idle
  BY <1>0, <1>1 DEF Take, TypeOK
<1>4. TypeOK'
  BY <1>0, <1>2, <1>3 DEF TypeOK, Take
<1>5. Distinct' /\ Same
  BY <1>0, Taken DEF Core
<1>6. h.doc \in Documents /\ h.doc <= opened /\ document[h.doc].latest \in Nat
  <2>1. Pending(h)
    <3>1. 1 \in 1 .. Len(jobs)
      BY <1>0
    <3>. QED
      BY <3>1, <1>0 DEF Pending
  <2>. QED
    BY <2>1, <1>0, JobShape DEF Core, Numbered, TypeOK, CodeDocument, Version
<1>. HIDE DEF new, h
<1>7. Suits'
  BY <1>1, <1>3, <1>0, NoJob DEF Core, Suits, Analyzing, h
<1>8. ReadLate'
  BY <1>1, <1>2, <1>3 DEF Core, ReadLate, Analyzing
<1>9. AnalysisPending' /\ CompletionWaits'
  BY <1>2, <1>5, SomeJobs DEF Core, AnalysisPending, CompletionWaits, Same
<1>10. Numbered'
  BY <1>2, <1>5 DEF Core, Numbered, Same
<1>11. KnownWhenIdle' /\ TasksWait' /\ AnswersMatch'
  BY <1>2 DEF Core, KnownWhenIdle, TasksWait, AnswersMatch
<1>12. ReadNotAhead'
  BY <1>1, <1>2, <1>3, <1>6 DEF Core, ReadNotAhead, Doc
<1>13. CacheHeld'
  <2>1. \A e \in Documents : document[e].cache # w
    BY <1>0, <1>3, Bounds DEF Core, CacheHeld, Idle
  <2>. QED
    BY <2>1, <1>0, <1>2, <1>3 DEF Core, CacheHeld, Doc, TypeOK, CodeDocument
<1>. QED
  BY <1>4, <1>5, <1>7, <1>8, <1>9, <1>10, <1>11, <1>12, <1>13 DEF Core

\* A thread goes on with its job, and no more of a document changes than
\* who holds its module cache.
LEMMA GoesOn ==
    ASSUME Core, NEW w \in Workers, Running(w), NEW new \in Place,
           worker[w].at # "release",
           new.job = worker[w].job, new.at \notin {"release", "idle"},
           new.at = "commit" => Analyzing(w), new.at = "respond" => ~Analyzing(w),
           new.version <= document[Doc(w)].latest,
           new.at \in {"start", "compile", "respond"} /\ ~Analyzing(w) =>
               asked[worker[w].job.request].version <= new.version,
           worker' = [worker EXCEPT ![w] = new],
           NEW cache \in Workers \cup {None},
           document' = [document EXCEPT ![Doc(w)].cache = cache],
           cache = w => new.at = "compile",
           worker[w].at = "compile" => cache # w,
           cache \in {w, None, document[Doc(w)].cache},
           UNCHANGED <<state, repository, opened, jobs, asked, answer, made, shown, overlapped>>
    PROVE  Core'
<1>. DEFINE d == Doc(w)
            fresh == [document[d] EXCEPT !.cache = cache]
<1>0. /\ TypeOK /\ worker[w] \in Place /\ worker[w].job \in Job /\ d \in Documents /\ d \in 1 .. opened
      /\ document[d] \in CodeDocument
  BY Working DEF Core
<1>1. fresh \in CodeDocument
  BY <1>0 DEF CodeDocument
<1>2. /\ fresh.uri = document[d].uri /\ fresh.tasks = document[d].tasks
      /\ fresh.meta = document[d].meta /\ fresh.cache = cache
      /\ fresh.analyze = document[d].analyze /\ fresh.latest = document[d].latest
  BY <1>0 DEF CodeDocument
<1>3. /\ document'[d] = fresh /\ \A e \in Documents : e # d => document'[e] = document[e]
      /\ document' \in [Documents -> CodeDocument]
  BY <1>0, <1>1 DEF TypeOK
<1>4. /\ worker'[w] = new /\ \A v \in Workers : v # w => worker'[v] = worker[v]
      /\ worker' \in [Workers -> Place]
  BY <1>0 DEF TypeOK
<1>. HIDE DEF fresh
<1>5. \A e \in Documents : /\ document'[e].uri = document[e].uri
                           /\ document'[e].tasks = document[e].tasks
                           /\ document'[e].meta = document[e].meta
                           /\ document'[e].analyze = document[e].analyze
                           /\ document'[e].latest = document[e].latest
  BY <1>2, <1>3
<1>6. TypeOK'
  BY <1>0, <1>3, <1>4 DEF TypeOK
<1>7. Distinct' /\ Same
  BY <1>0, Continued DEF Core
<1>8. Suits'
  BY <1>0, <1>4, NoJob DEF Core, Suits, Analyzing
<1>9. AnalysisPending' /\ CompletionWaits'
  BY <1>5, <1>7, SomeJobs DEF Core, AnalysisPending, CompletionWaits, Same
<1>10. ReadLate'
  BY <1>4 DEF Core, ReadLate, Analyzing
<1>11. Numbered'
  <2>1. \A e \in Documents : e > opened => e # d
    BY <1>0, OpenedDocuments
  <2>. QED
    BY <2>1, <1>3, <1>7 DEF Core, Numbered, Same
<1>12. KnownWhenIdle'
  BY <1>0, <1>5, OpenedDocuments DEF Core, KnownWhenIdle
<1>13. TasksWait' /\ AnswersMatch'
  BY <1>5 DEF Core, TasksWait, AnswersMatch
<1>14. ReadNotAhead'
  <2>1. \A v \in Workers : worker[v].job # None => Doc(v) \in Documents
    BY <1>0 DEF Doc, TypeOK, Place, Job
  <2>2. \A v \in Workers : worker'[v].job = worker[v].job
    BY <1>4
  <2>. QED
    BY <2>1, <2>2, <1>0, <1>4, <1>5 DEF Core, ReadNotAhead, Doc
<1>15. CacheHeld'
  <2>. SUFFICES ASSUME NEW e \in Documents, document'[e].cache # None
                PROVE  /\ worker'[document'[e].cache].job # None
                       /\ worker'[document'[e].cache].job.doc = e
                       /\ worker'[document'[e].cache].at = "compile"
    BY DEF CacheHeld, Doc
  <2>1. CASE e = d /\ cache = w
    BY <2>1, <1>0, <1>2, <1>3, <1>4, NoJob DEF Doc
  <2>2. CASE ~(e = d /\ cache = w)
    <3>1. document'[e].cache = document[e].cache /\ document[e].cache \in Workers
      BY <2>2, <1>0, <1>2, <1>3 DEF TypeOK, CodeDocument
    <3>2. document[e].cache # w
      <4>1. CASE e = d
        BY <4>1, <2>2, <3>1, <1>2, <1>3
      <4>2. CASE e # d
        BY <4>2, <3>1, NoJob, Bounds DEF Core, CacheHeld
      <4>. QED
        BY <4>1, <4>2
    <3>. QED
      BY <3>1, <3>2, <1>4, Bounds DEF Core, CacheHeld, Doc
  <2>. QED
    BY <2>1, <2>2
<1>. QED
  BY <1>6, <1>7, <1>8, <1>9, <1>10, <1>11, <1>12, <1>13, <1>14, <1>15 DEF Core

LEMMA CacheSame ==
    ASSUME TypeOK, NEW d \in Documents, UNCHANGED document
    PROVE  /\ document[d].cache \in Workers \cup {None}
           /\ document' = [document EXCEPT ![d].cache = document[d].cache]
<1>1. document[d] \in CodeDocument
  BY DEF TypeOK
<1>2. [document[d] EXCEPT !.cache = document[d].cache] = document[d]
  BY <1>1 DEF CodeDocument
<1>. QED
  BY <1>1, <1>2 DEF TypeOK, CodeDocument

LEMMA ReadKeeps ==
    ASSUME Core, NEW w \in Workers, Read(w)
    PROVE  Core'
<1>. DEFINE d == Doc(w)
            new == [worker[w] EXCEPT !.version = document[d].latest, !.at = "start"]
<1>0. /\ TypeOK /\ worker[w] \in Place /\ worker[w].job \in Job /\ d \in Documents /\ d \in 1 .. opened
      /\ document[d] \in CodeDocument /\ worker[w].at = "read"
      /\ Running(w) /\ Pending(worker[w].job)
      /\ ~Analyzing(w) => /\ worker[w].job.request \in Requests
                          /\ worker[w].job = Completion(d, worker[w].job.request)
  BY Working DEF Core, Read
<1>1. /\ new \in Place /\ new.job = worker[w].job /\ new.at = "start"
      /\ new.version = document[d].latest
  BY <1>0 DEF Place, CodeDocument, WorkerStates
<1>2. worker' = [worker EXCEPT ![w] = new]
  BY <1>0 DEF Read, TypeOK, Place
<1>3. UNCHANGED <<state, repository, opened, document, jobs, asked, answer, made, shown, overlapped>>
  BY DEF Read
<1>. HIDE DEF new
<1>4. document[d].latest <= document[d].latest
  BY <1>0 DEF CodeDocument, Version
<1>5. ~Analyzing(w) => asked[worker[w].job.request].version <= document[d].latest
  BY <1>0 DEF Core, CompletionWaits
<1>6. document[d].cache # w
  BY <1>0, Bounds DEF Core, CacheHeld
<1>7. /\ document[d].cache \in Workers \cup {None}
      /\ document' = [document EXCEPT ![d].cache = document[d].cache]
  BY <1>0, <1>3, CacheSame
<1>. QED
  BY <1>0, <1>1, <1>2, <1>3, <1>4, <1>5, <1>6, <1>7, GoesOn

LEMMA StartKeeps ==
    ASSUME Core, NEW w \in Workers, Start(w)
    PROVE  Core'
<1>. DEFINE d == Doc(w)
            cache == IF document[d].cache = None THEN w ELSE document[d].cache
            new == [worker[w] EXCEPT !.at = "compile"]
<1>0. /\ TypeOK /\ worker[w] \in Place /\ d \in Documents
      /\ document[d] \in CodeDocument /\ worker[w].at = "start"
      /\ Running(w) /\ worker[w].version <= document[d].latest
  BY Working DEF Core, Start
<1>1. /\ new \in Place /\ new.job = worker[w].job /\ new.at = "compile"
      /\ new.version = worker[w].version
  BY <1>0 DEF Place, WorkerStates
<1>2. worker' = [worker EXCEPT ![w] = new]
  BY <1>0 DEF Start, TypeOK, Place
<1>3. UNCHANGED <<state, repository, opened, jobs, asked, answer, made, shown, overlapped>>
  BY DEF Start
<1>4. document' = [document EXCEPT ![d].cache = cache]
  BY <1>0 DEF Start, TypeOK, CodeDocument
<1>5. cache \in Workers \cup {None} /\ cache \in {w, None, document[d].cache}
  BY <1>0 DEF CodeDocument
<1>6. ~Analyzing(w) => asked[worker[w].job.request].version <= worker[w].version
  BY <1>0 DEF Core, ReadLate
<1>. HIDE DEF new, cache
<1>. QED
  BY <1>0, <1>1, <1>2, <1>3, <1>4, <1>5, <1>6, GoesOn

LEMMA CompiledKeeps ==
    ASSUME Core, NEW w \in Workers, Compiled(w)
    PROVE  Core'
<1>. DEFINE d == Doc(w)
            cache == IF document[d].cache = w THEN None ELSE document[d].cache
            new == [worker[w] EXCEPT !.at = IF Analyzing(w) THEN "commit" ELSE "respond"]
<1>0. /\ TypeOK /\ worker[w] \in Place /\ d \in Documents
      /\ document[d] \in CodeDocument /\ worker[w].at = "compile"
      /\ Running(w) /\ worker[w].version <= document[d].latest
  BY Working DEF Core, Compiled
<1>1. /\ new \in Place /\ new.job = worker[w].job
      /\ new.at = IF Analyzing(w) THEN "commit" ELSE "respond"
      /\ new.version = worker[w].version
  BY <1>0 DEF Place, WorkerStates
<1>2. worker' = [worker EXCEPT ![w] = new]
  BY <1>0 DEF Compiled, TypeOK, Place
<1>3. UNCHANGED <<state, repository, opened, jobs, asked, answer, made, shown, overlapped>>
  BY DEF Compiled
<1>4. document' = [document EXCEPT ![d].cache = cache]
  BY <1>0 DEF Compiled, TypeOK, CodeDocument
<1>5. cache \in Workers \cup {None} /\ cache \in {w, None, document[d].cache} /\ cache # w
  BY <1>0, Bounds DEF CodeDocument
<1>6. ~Analyzing(w) => asked[worker[w].job.request].version <= worker[w].version
  BY <1>0 DEF Core, ReadLate
<1>. HIDE DEF new, cache
<1>. QED
  BY <1>0, <1>1, <1>2, <1>3, <1>4, <1>5, <1>6, GoesOn

\* The requests waiting for the version compiled are answered; others wait on.
LEMMA CommitMetaKeeps ==
    ASSUME Core, NEW w \in Workers, CommitMeta(w)
    PROVE  Core'
<1>. DEFINE d == Doc(w)
            v == worker[w].version
            current == v = document[d].latest
            new == [worker[w] EXCEPT !.at = IF current THEN "release" ELSE "read", !.version = 0]
            fresh == [document[d] EXCEPT !.meta = v, !.tasks = Left(d, v),
                                         !.analyze = IF current THEN FALSE ELSE @]
<1>0. /\ TypeOK /\ worker[w] \in Place /\ worker[w].job \in Job
      /\ d \in Documents /\ d \in 1 .. opened
      /\ document[d] \in CodeDocument /\ worker[w].at = "commit"
      /\ Running(w) /\ v <= document[d].latest /\ Pending(worker[w].job)
      /\ worker[w].job = Analysis(d)
  <2>1. Running(w) /\ worker[w].at = "commit"
    BY DEF CommitMeta
  <2>2. Analyzing(w)
    BY <2>1 DEF Core, Suits
  <2>. QED
    BY <2>1, <2>2, Working DEF Core
<1>1. /\ new \in Place /\ new.job = worker[w].job
      /\ new.at = IF current THEN "release" ELSE "read"
      /\ new.version = 0
  <2>1. 0 \in Version
    BY Bounds DEF Version
  <2>. HIDE DEF current
  <2>. QED
    BY <1>0, <2>1 DEF Place, WorkerStates
<1>2. /\ fresh \in CodeDocument
      /\ fresh.uri = document[d].uri /\ fresh.latest = document[d].latest
      /\ fresh.meta = v /\ fresh.cache = document[d].cache
      /\ fresh.tasks = Left(d, v)
      /\ fresh.analyze = IF current THEN FALSE ELSE document[d].analyze
  <2>1. Left(d, v) \subseteq Requests /\ v \in Version
    BY <1>0 DEF Left, CodeDocument, Place
  <2>. HIDE DEF v, d
  <2>. QED
    BY <1>0, <2>1 DEF CodeDocument
<1>3. worker' = [worker EXCEPT ![w] = new] /\ document' = [document EXCEPT ![d] = fresh]
  BY <1>0 DEF CommitMeta, TypeOK, Place, CodeDocument
<1>4. UNCHANGED <<state, repository, opened, jobs, asked, made, overlapped>>
  BY DEF CommitMeta
<1>5. \A r \in Requests : answer'[r] = IF r \in Ripe(d, v) THEN Reply(d, v, v) ELSE answer[r]
  BY DEF CommitMeta
<1>6. \A r \in document[d].tasks : /\ r \in Requests /\ r <= made /\ asked[r].doc = d /\ answer[r] = None
                                   /\ asked[r].version <= document[d].latest
  BY <1>0 DEF Core, TasksWait, CodeDocument
<1>7. Ripe(d, v) \subseteq document[d].tasks /\ \A r \in Ripe(d, v) : asked[r].version <= v
  BY DEF Ripe
<1>8. Left(d, v) \subseteq document[d].tasks /\ \A r \in Left(d, v) : r \notin Ripe(d, v)
  BY DEF Left
<1>9. current => Left(d, v) = {}
  BY <1>6 DEF Left, Ripe
<1>10. v \in Version /\ v \in Nat /\ Reply(d, v, v) \in Answer
       /\ Reply(d, v, v).code = v /\ Reply(d, v, v).meta = v /\ Reply(d, v, v).doc = d
  BY <1>0 DEF Place, Version, Reply, Answer
<1>11. /\ document'[d] = fresh /\ \A e \in Documents : e # d => document'[e] = document[e]
       /\ document' \in [Documents -> CodeDocument]
       /\ worker'[w] = new /\ \A x \in Workers : x # w => worker'[x] = worker[x]
       /\ worker' \in [Workers -> Place]
  BY <1>0, <1>1, <1>2, <1>3 DEF TypeOK
<1>12. TypeOK'
  <2>1. answer' \in [Requests -> Answer \cup {None}]
    <3>1. answer' = [r \in Requests |-> IF r \in Ripe(d, v) THEN Reply(d, v, v) ELSE answer[r]]
      BY DEF CommitMeta
    <3>. HIDE DEF d, v
    <3>. QED
      BY <3>1, <1>0, <1>10 DEF TypeOK
  <2>2. shown' \in [Uris -> Question]
    <3>1. [doc |-> d, version |-> v] \in Question
      BY <1>0, <1>10 DEF Question
    <3>. QED
      BY <3>1, <1>0 DEF CommitMeta, TypeOK
  <2>. QED
    BY <2>1, <2>2, <1>0, <1>4, <1>11 DEF TypeOK
<1>. HIDE DEF fresh, new, v
<1>13. /\ Distinct'
       /\ \A k \in Job : Pending(k)' <=> Pending(k) /\ ~(current /\ k = Analysis(d))
  <2>1. CASE current
    <3>1. new.at = "release" /\ worker[w].at # "release"
      BY <2>1, <1>0, <1>1
    <3>. QED
      BY <2>1, <3>1, <1>0, <1>1, <1>3, <1>4, Finished DEF Core
  <2>2. CASE ~current
    <3>1. new.at # "release" /\ worker[w].at # "release"
      BY <2>2, <1>0, <1>1
    <3>. QED
      BY <2>2, <3>1, <1>0, <1>1, <1>3, <1>4, Continued DEF Core, Same
  <2>. QED
    BY <2>1, <2>2
<1>14. \A e \in Documents : /\ document'[e].uri = document[e].uri
                            /\ document'[e].latest = document[e].latest
                            /\ document'[e].cache = document[e].cache
                            /\ document'[e].tasks \subseteq document[e].tasks
  BY <1>2, <1>8, <1>11
<1>. HIDE DEF current
<1>15. Suits'
  BY <1>0, <1>1, <1>11, NoJob DEF Core, Suits, Analyzing
<1>16. AnalysisPending'
  <2>. SUFFICES ASSUME NEW e \in Documents
                PROVE  document'[e].analyze <=> Pending(Analysis(e))'
    BY DEF AnalysisPending
  <2>1. CASE e = d
    BY <2>1, <1>0, <1>2, <1>11, <1>13, SomeJobs DEF Core, AnalysisPending
  <2>2. CASE e # d
    <3>1. Analysis(e) # Analysis(d) /\ Analysis(e) \in Job
      BY <2>2, <1>0, SomeJobs
    <3>. QED
      BY <2>2, <3>1, <1>11, <1>13 DEF Core, AnalysisPending
  <2>. QED
    BY <2>1, <2>2
<1>17. CompletionWaits'
  <2>. SUFFICES ASSUME NEW e \in Documents, NEW r \in Requests, Pending(Completion(e, r))'
                PROVE  /\ r <= made /\ answer'[r] = None /\ r \notin document'[e].tasks
                       /\ asked[r].doc = e /\ asked[r].version <= document'[e].latest
    BY <1>4 DEF CompletionWaits
  <2>1. Pending(Completion(e, r))
    BY <1>13, SomeJobs
  <2>2. /\ r <= made /\ answer[r] = None /\ r \notin document[e].tasks
        /\ asked[r].doc = e /\ asked[r].version <= document[e].latest
    BY <2>1 DEF Core, CompletionWaits
  <2>3. r \notin Ripe(d, v)
    BY <2>2, <1>6, <1>7
  <2>. QED
    BY <2>2, <2>3, <1>5, <1>14
<1>18. ReadLate'
  BY <1>1, <1>4, <1>11 DEF Core, ReadLate, Analyzing
<1>19. Numbered'
  <2>1. \A e \in Documents : e > opened => document'[e] = NoDocument
    <3>1. \A e \in Documents : e > opened => e # d
      BY <1>0, OpenedDocuments
    <3>. QED
      BY <3>1, <1>11 DEF Core, Numbered
  <2>2. \A r \in Requests : r > made => answer'[r] = None
    <3>1. \A r \in Requests : r > made => r \notin Ripe(d, v)
      BY <1>0, <1>6, <1>7 DEF TypeOK, Requests
    <3>. QED
      BY <3>1, <1>5 DEF Core, Numbered
  <2>. QED
    BY <2>1, <2>2, <1>4, <1>13 DEF Core, Numbered
<1>20. KnownWhenIdle'
  <2>. SUFFICES ASSUME NEW e \in 1 .. opened, ~document'[e].analyze
                PROVE  document'[e].tasks = {} /\ document'[e].meta = document'[e].latest
    BY <1>4 DEF KnownWhenIdle
  <2>0. e \in Documents
    BY <1>0, OpenedDocuments
  <2>1. CASE e = d
    <3>1. document[d].analyze
      BY <1>0 DEF Core, AnalysisPending
    <3>2. current
      BY <3>1, <2>1, <1>2, <1>11
    <3>. QED
      BY <3>2, <2>1, <1>2, <1>9, <1>11 DEF current
  <2>2. CASE e # d
    BY <2>0, <2>2, <1>11 DEF Core, KnownWhenIdle
  <2>. QED
    BY <2>1, <2>2
<1>21. TasksWait'
  <2>. SUFFICES ASSUME NEW e \in Documents, NEW r \in document'[e].tasks
                PROVE  /\ r <= made /\ asked[r].doc = e /\ answer'[r] = None
                       /\ asked[r].version <= document'[e].latest
    BY <1>4 DEF TasksWait
  <2>1. r \in document[e].tasks /\ r \in Requests
    BY <1>0, <1>14 DEF TypeOK, CodeDocument
  <2>2. /\ r <= made /\ asked[r].doc = e /\ asked[r].version <= document[e].latest
        /\ answer[r] = None
    BY <2>1 DEF Core, TasksWait
  <2>3. r \notin Ripe(d, v)
    <3>1. CASE e = d
      BY <3>1, <1>2, <1>8, <1>11
    <3>2. CASE e # d
      BY <3>2, <2>2, <1>6, <1>7
    <3>. QED
      BY <3>1, <3>2
  <2>. QED
    BY <2>1, <2>2, <2>3, <1>5, <1>14
<1>22. ReadNotAhead'
  <2>. SUFFICES ASSUME NEW x \in Workers, worker'[x].job # None
                PROVE  /\ worker'[x].job.doc <= opened
                       /\ worker'[x].version <= document'[worker'[x].job.doc].latest
    BY <1>4 DEF ReadNotAhead, Doc
  <2>1. worker'[x].job = worker[x].job /\ Doc(x) \in Documents
        /\ Doc(x) <= opened /\ worker[x].version <= document[Doc(x)].latest
    BY <1>0, <1>1, <1>11 DEF Core, ReadNotAhead, Doc, TypeOK, Place, Job
  <2>2. worker'[x].version = worker[x].version \/ worker'[x].version = 0
    BY <1>1, <1>11
  <2>3. 0 <= document[Doc(x)].latest
    BY <2>1, <1>0 DEF TypeOK, CodeDocument, Version
  <2>. QED
    BY <2>1, <2>2, <2>3, <1>14 DEF Doc
<1>23. CacheHeld'
  <2>1. \A e \in Documents : document[e].cache # w
    BY <1>0, Bounds DEF Core, CacheHeld
  <2>. QED
    BY <2>1, <1>0, <1>11, <1>14 DEF Core, CacheHeld, Doc, TypeOK, CodeDocument
<1>24. AnswersMatch'
  <2>. SUFFICES ASSUME NEW r \in Requests, answer'[r] # None
                PROVE  /\ answer'[r].code = answer'[r].meta
                       /\ answer'[r].doc = asked[r].doc /\ answer'[r].code >= asked[r].version
    BY <1>4 DEF AnswersMatch
  <2>1. CASE r \in Ripe(d, v)
    <3>1. asked[r].version \in Nat
      BY <1>0 DEF TypeOK, Question, Version
    <3>. QED
      BY <2>1, <3>1, <1>5, <1>6, <1>7, <1>10
  <2>2. CASE r \notin Ripe(d, v)
    BY <2>2, <1>5 DEF Core, AnswersMatch
  <2>. QED
    BY <2>1, <2>2
<1>. QED
  BY <1>12, <1>13, <1>15, <1>16, <1>17, <1>18, <1>19, <1>20, <1>21, <1>22, <1>23, <1>24 DEF Core

LEMMA RespondKeeps ==
    ASSUME Core, NEW w \in Workers, Respond(w)
    PROVE  Core'
<1>. DEFINE d == Doc(w)
            v == worker[w].version
            r == worker[w].job.request
            new == [worker[w] EXCEPT !.at = "release", !.version = 0]
<1>0. /\ TypeOK /\ worker[w] \in Place /\ worker[w].job \in Job /\ d \in Documents
      /\ document[d] \in CodeDocument /\ worker[w].at = "respond"
      /\ Running(w) /\ v <= document[d].latest /\ Pending(worker[w].job)
      /\ r \in Requests /\ worker[w].job = Completion(d, r)
  <2>1. Running(w) /\ worker[w].at = "respond"
    BY DEF Respond
  <2>2. ~Analyzing(w)
    BY <2>1 DEF Core, Suits
  <2>. QED
    BY <2>1, <2>2, Working DEF Core
<1>1. /\ new \in Place /\ new.job = worker[w].job /\ new.at = "release" /\ new.version = 0
  <2>1. 0 \in Version
    BY Bounds DEF Version
  <2>. QED
    BY <1>0, <2>1 DEF Place, WorkerStates
<1>2. v \in Version /\ v \in Nat /\ Reply(d, v, v) \in Answer
      /\ Reply(d, v, v).code = v /\ Reply(d, v, v).meta = v /\ Reply(d, v, v).doc = d
  BY <1>0 DEF Place, Version, Reply, Answer
<1>3. asked[r].doc = d /\ asked[r].version <= v /\ answer[r] = None /\ r <= made
      /\ asked[r].version \in Nat
  <2>1. asked[r].doc = d /\ answer[r] = None /\ r <= made
    BY <1>0 DEF Core, CompletionWaits
  <2>2. ~Analyzing(w)
    BY <1>0 DEF Core, Suits
  <2>. QED
    BY <2>1, <2>2, <1>0 DEF Core, ReadLate, TypeOK, Question, Version
<1>4. \A e \in Documents : r \notin document[e].tasks
  BY <1>0, <1>3 DEF Core, CompletionWaits, TasksWait
<1>5. UNCHANGED <<state, repository, opened, document, jobs, asked, made, shown, overlapped>>
  BY DEF Respond
<1>6. /\ answer' = [answer EXCEPT ![r] = Reply(d, v, v)]
      /\ worker' = [worker EXCEPT ![w] = new]
  BY <1>0 DEF Respond, TypeOK, Place
<1>. HIDE DEF d, v, r, new
<1>7. /\ answer' \in [Requests -> Answer \cup {None}]
      /\ answer'[r] = Reply(d, v, v) /\ \A q \in Requests : q # r => answer'[q] = answer[q]
      /\ worker'[w] = new /\ \A x \in Workers : x # w => worker'[x] = worker[x]
      /\ worker' \in [Workers -> Place]
  BY <1>0, <1>1, <1>2, <1>6 DEF TypeOK
<1>8. TypeOK'
  BY <1>0, <1>5, <1>7 DEF TypeOK
<1>9. Distinct' /\ \A k \in Job : Pending(k)' <=> Pending(k) /\ k # Completion(d, r)
  BY <1>0, <1>1, <1>5, <1>6, Finished DEF Core
<1>10. Suits'
  BY <1>0, <1>1, <1>7, NoJob DEF Core, Suits, Analyzing
<1>11. AnalysisPending'
  BY <1>0, <1>5, <1>9, SomeJobs DEF Core, AnalysisPending
<1>12. CompletionWaits'
  <2>. SUFFICES ASSUME NEW e \in Documents, NEW q \in Requests, Pending(Completion(e, q))'
                PROVE  /\ q <= made /\ answer'[q] = None /\ q \notin document[e].tasks
                       /\ asked[q].doc = e /\ asked[q].version <= document[e].latest
    BY <1>5 DEF CompletionWaits
  <2>1. Pending(Completion(e, q)) /\ Completion(e, q) # Completion(d, r)
    BY <1>9, SomeJobs
  <2>2. /\ q <= made /\ answer[q] = None /\ q \notin document[e].tasks
        /\ asked[q].doc = e /\ asked[q].version <= document[e].latest
    BY <2>1 DEF Core, CompletionWaits
  <2>3. q # r
    BY <2>1, <2>2, <1>3
  <2>. QED
    BY <2>2, <2>3, <1>7
<1>13. ReadLate'
  BY <1>1, <1>5, <1>7 DEF Core, ReadLate, Analyzing
<1>14. Numbered'
  <2>1. \A q \in Requests : q > made => q # r
    BY <1>0, <1>3 DEF TypeOK, Requests
  <2>. QED
    BY <2>1, <1>5, <1>7, <1>9 DEF Core, Numbered
<1>15. KnownWhenIdle'
  BY <1>5 DEF Core, KnownWhenIdle
<1>16. TasksWait'
  BY <1>0, <1>4, <1>5, <1>7 DEF Core, TasksWait, TypeOK, CodeDocument
<1>17. ReadNotAhead'
  <2>. SUFFICES ASSUME NEW x \in Workers, worker'[x].job # None
                PROVE  /\ worker'[x].job.doc <= opened
                       /\ worker'[x].version <= document[worker'[x].job.doc].latest
    BY <1>5 DEF ReadNotAhead, Doc
  <2>1. worker'[x].job = worker[x].job /\ Doc(x) \in Documents
        /\ Doc(x) <= opened /\ worker[x].version <= document[Doc(x)].latest
    BY <1>0, <1>1, <1>7 DEF Core, ReadNotAhead, Doc, TypeOK, Place, Job
  <2>2. worker'[x].version = worker[x].version \/ worker'[x].version = 0
    BY <1>1, <1>7
  <2>3. 0 <= document[Doc(x)].latest
    BY <2>1, <1>0 DEF TypeOK, CodeDocument, Version
  <2>. QED
    BY <2>1, <2>2, <2>3 DEF Doc
<1>18. CacheHeld'
  <2>1. \A e \in Documents : document[e].cache # w
    BY <1>0, Bounds DEF Core, CacheHeld
  <2>. QED
    BY <2>1, <1>0, <1>5, <1>7 DEF Core, CacheHeld, Doc, TypeOK, CodeDocument
<1>19. AnswersMatch'
  <2>. SUFFICES ASSUME NEW q \in Requests, answer'[q] # None
                PROVE  /\ answer'[q].code = answer'[q].meta
                       /\ answer'[q].doc = asked[q].doc /\ answer'[q].code >= asked[q].version
    BY <1>5 DEF AnswersMatch
  <2>1. CASE q = r
    BY <2>1, <1>2, <1>3, <1>7
  <2>2. CASE q # r
    BY <2>2, <1>7 DEF Core, AnswersMatch
  <2>. QED
    BY <2>1, <2>2
<1>. QED
  BY <1>8, <1>9, <1>10, <1>11, <1>12, <1>13, <1>14, <1>15, <1>16, <1>17, <1>18, <1>19 DEF Core

LEMMA EndJobKeeps ==
    ASSUME Core, NEW w \in Workers, EndJob(w)
    PROVE  Core'
<1>0. TypeOK /\ worker[w].at = "release"
      /\ UNCHANGED <<state, repository, opened, document, jobs, asked, answer, made, overlapped>>
  BY DEF Core, EndJob
<1>1. Idle \in Place /\ Idle.job = None /\ Idle.at = "idle"
  BY Bounds DEF Idle, Place, WorkerStates, Version
<1>2. worker' = [worker EXCEPT ![w] = Idle]
  BY DEF EndJob
<1>3. /\ worker'[w] = Idle /\ \A x \in Workers : x # w => worker'[x] = worker[x]
      /\ worker' \in [Workers -> Place]
  BY <1>0, <1>1, <1>2 DEF TypeOK
<1>4. TypeOK'
  <2>1. Nothing \in Question
    BY Bounds DEF Nothing, Question, Version
  <2>2. shown' \in [Uris -> Question]
    <3>1. \A x : [shown EXCEPT ![x] = Nothing] \in [Uris -> Question]
      BY <1>0, <2>1 DEF TypeOK
    <3>. QED
      BY <3>1, <1>0 DEF EndJob, ShownAfter, TypeOK
  <2>. QED
    BY <2>2, <1>0, <1>3 DEF TypeOK
<1>5. Distinct' /\ Same
  BY <1>0, <1>2, Released DEF Core
<1>. HIDE DEF Idle
<1>6. Suits'
  BY <1>0, <1>1, <1>3 DEF Core, Suits, Analyzing
<1>7. AnalysisPending' /\ CompletionWaits'
  BY <1>0, <1>5, SomeJobs DEF Core, AnalysisPending, CompletionWaits, Same
<1>8. ReadLate'
  BY <1>0, <1>1, <1>3 DEF Core, ReadLate, Analyzing
<1>9. Numbered'
  BY <1>0, <1>5 DEF Core, Numbered, Same
<1>10. KnownWhenIdle' /\ TasksWait' /\ AnswersMatch'
  BY <1>0 DEF Core, KnownWhenIdle, TasksWait, AnswersMatch
<1>11. ReadNotAhead'
  BY <1>0, <1>1, <1>3 DEF Core, ReadNotAhead, Doc
<1>12. CacheHeld'
  <2>1. \A e \in Documents : document[e].cache # w
    BY <1>0, Bounds DEF Core, CacheHeld
  <2>. QED
    BY <2>1, <1>0, <1>3 DEF Core, CacheHeld, Doc, TypeOK, CodeDocument
<1>. QED
  BY <1>4, <1>5, <1>6, <1>7, <1>8, <1>9, <1>10, <1>11, <1>12 DEF Core

----------------------------------------------------------------------------

LEMMA InitCore ==
    ASSUME Init PROVE Core
<1>1. TypeOK
  <2>1. NoDocument \in CodeDocument /\ Nothing \in Question /\ Idle \in Place /\ <<>> \in Seq(Job)
    BY Bounds, EmptySeq DEF NoDocument, CodeDocument, Version, Nothing, Question, Idle, Place, WorkerStates
  <2>. HIDE DEF NoDocument, Nothing, Idle
  <2>. QED
    BY <2>1, Bounds DEF Init, TypeOK
<1>2. /\ opened = 0 /\ made = 0 /\ jobs = <<>> /\ Len(jobs) = 0
      /\ \A d \in Documents : document[d] = NoDocument
      /\ \A w \in Workers : worker[w] = Idle
      /\ \A r \in Requests : answer[r] = None
      /\ \A u \in Uris : repository[u] = None
  BY EmptySeq DEF Init
<1>3. \A j \in Job : ~Pending(j)
  BY <1>2, NoJob DEF Pending, Undone, Idle
<1>4. Suits /\ ReadLate /\ ReadNotAhead /\ AnswersMatch
  BY <1>2 DEF Suits, ReadLate, ReadNotAhead, Idle, AnswersMatch
<1>5. Distinct
  BY <1>2, NoJob DEF Distinct, QueuedOnce, QueuedNotTaken, TakenOnce, Undone, Idle
<1>6. AnalysisPending /\ CompletionWaits
  BY <1>2, <1>3, SomeJobs DEF AnalysisPending, CompletionWaits, NoDocument
<1>7. Numbered
  BY <1>2, <1>3 DEF Numbered
<1>8. KnownWhenIdle
  BY <1>2 DEF KnownWhenIdle
<1>9. TasksWait /\ CacheHeld
  BY <1>2 DEF TasksWait, CacheHeld, NoDocument
<1>. QED
  BY <1>1, <1>4, <1>5, <1>6, <1>7, <1>8, <1>9 DEF Core

LEMMA StepCore ==
    ASSUME Core, [Next]_vars PROVE Core'
<1>1. CASE Initialized \/ Shutdown \/ Drained \/ \E u \in Uris : DidClose(u)
  BY <1>1, QuietSteps
<1>2. CASE Exit
  BY <1>2, ExitKeeps
<1>3. CASE \E u \in Uris : DidOpen(u) \/ DidChange(u) \/ CodeTask(u) \/ Complete(u)
  BY <1>3, DidOpenKeeps, DidChangeKeeps, CodeTaskKeeps, CompleteKeeps
<1>4. CASE \E w \in Workers : Work(w)
  BY <1>4, TakeKeeps, ReadKeeps, StartKeeps, CompiledKeeps, CommitMetaKeeps, RespondKeeps,
     EndJobKeeps DEF Work
<1>5. CASE UNCHANGED vars
  <2>1. TypeOK'
    BY <1>5 DEF Core, TypeOK, vars
  <2>2. UNCHANGED <<opened, document, jobs, worker, asked, answer, made>> /\ UNCHANGED repository
    BY <1>5 DEF vars
  <2>. QED
    BY <2>1, <2>2, QuietKeeps
<1>. QED
  BY <1>1, <1>2, <1>3, <1>4, <1>5 DEF Next, Editor

LEMMA CoreInvariance == Spec => []Core
<1>1. Init => Core
  BY InitCore
<1>2. Core /\ [Next]_vars => Core'
  BY StepCore
<1>. QED
  BY <1>1, <1>2, PTL DEF Spec

(* The documents of the language server are consistent: one analysis of    *)
(* each document is queued or running exactly while the document says so,  *)
(* a document not being analysed holds no requests and knows what the      *)
(* compiler says of its text, requests wait where they will be found, and  *)
(* the module cache of a document is used by one compilation at a time     *)
(* (CodeDocument::Update, CommitMeta, InvokeCompiler).                     *)
THEOREM Invariance == Spec => []IInv
<1>1. Core => IInv
  BY Counted DEF Core, IInv
<1>. QED
  BY <1>1, CoreInvariance, PTL

(* The variables of the language server have their types.                  *)
THEOREM TypeCorrect == Spec => []TypeOK
<1>1. Core => TypeOK
  BY DEF Core
<1>. QED
  BY <1>1, CoreInvariance, PTL

(* An answer comes from one text and what the compiler said of that text,  *)
(* never from a text older than the one the question was asked of          *)
(* (CodeDocument::PerformCodeTask, CommitMeta).                            *)
THEOREM AnswersFit == Spec => []AnswersMatch
<1>1. Core => AnswersMatch
  BY DEF Core
<1>. QED
  BY <1>1, CoreInvariance, PTL

\* No step changes an answer that was given.
LEMMA AnswerStands ==
    ASSUME Core, [Next]_vars, NEW r \in Requests, answer[r] # None
    PROVE  answer'[r] = answer[r]
<1>0. TypeOK
  BY DEF Core
<1>1. CASE UNCHANGED answer
  BY <1>1
<1>2. ASSUME NEW u \in Uris, CodeTask(u) PROVE answer'[r] = answer[r]
  <2>1. repository[u] \in Documents /\ NewRequest(repository[u])
    BY <1>2, RegisteredOpened DEF CodeTask
  <2>2. r # made + 1
    BY <2>1, Asking
  <2>. QED
    BY <2>2, <1>0, <1>2 DEF CodeTask, TypeOK
<1>3. ASSUME NEW w \in Workers, CommitMeta(w) PROVE answer'[r] = answer[r]
  <2>1. Doc(w) \in Documents
    BY <1>3, Working DEF CommitMeta
  <2>2. r \notin Ripe(Doc(w), worker[w].version)
    BY <2>1 DEF Core, TasksWait, Ripe
  <2>. QED
    BY <2>2, <1>3 DEF CommitMeta
<1>4. ASSUME NEW w \in Workers, Respond(w) PROVE answer'[r] = answer[r]
  <2>1. Running(w) /\ worker[w].at = "respond" /\ ~Analyzing(w)
    BY <1>4 DEF Respond, Core, Suits
  <2>2. answer[worker[w].job.request] = None
    BY <2>1, Working DEF Core, CompletionWaits
  <2>. QED
    BY <2>2, <1>0, <1>4 DEF Respond, TypeOK
<1>5. CASE UNCHANGED vars
  BY <1>1, <1>5 DEF vars
<1>. QED
  BY <1>1, <1>2, <1>3, <1>4, <1>5 DEF Next, Editor, Work, Initialized, Shutdown, Exit, DidOpen,
     DidChange, DidClose, Complete, Drained, Take, Read, Start, Compiled, EndJob

(* A question is answered once: what was answered stays, also when the     *)
(* document is compiled again, closed or dropped (CommitMeta, and the jobs *)
(* of completion and signatureHelp).                                       *)
THEOREM AnsweredForGood == Spec => AnsweredOnce
<1>1. Core /\ [Next]_vars => [\A r \in Requests : answer[r] # None => answer'[r] = answer[r]]_vars
  BY AnswerStands
<1>. QED
  BY <1>1, CoreInvariance, PTL DEF Spec, AnsweredOnce
=============================================================================

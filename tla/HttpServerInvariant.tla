------------------------ MODULE HttpServerInvariant ------------------------
(***************************************************************************)
(* The inductive invariant behind the promises of the HTTP server.         *)
(***************************************************************************)
EXTENDS HttpServer

Modes == {"head", "body", "chunk", "piece", "work", "answer", "content", "expect"}
Places == {"idle", "procede", "submit", "clode", "exeque", "parse", "init", "errorInit",
           "accept", "errorAccept", "fallen"}
Calls == [to : {"extension", "errors"}, what : {"announced", "asked"}]
Processor ==
    [life : {"unborn", "alive", "dead"}, modus : Modes, io : {"none", "read", "write"},
     failed : BOOLEAN, job : {"none", "parse", "exeque"}, open : BOOLEAN, last : BOOLEAN,
     calls : Seq(Calls)]

TypeOK ==
    /\ phase \in {"open", "raised", "deaf", "waiting", "draining", "returned"}
    /\ listener \in [Listeners -> {"open", "closing", "gone"}]
    /\ labores \in Int
    /\ finished \in BOOLEAN
    /\ canalia \subseteq Connections
    /\ processor \in [Connections -> Processor]
    /\ pool \in Seq(Connections)
    /\ runner \in [Runners -> [p : Connections \cup {None}, at : Places]]

(* A thread is idle or holds a processor; a processor held by a thread or    *)
(* queued as a job waits for no operation and is held by nobody else; who    *)
(* is held by nobody is not alive.                                           *)
Holders ==
    /\ \A a \in Runners : At(a, "idle") <=> Of(a) = None
    /\ \A a, b \in Runners : Of(a) # None /\ Of(a) = Of(b) => a = b
    /\ \A a \in Runners : Of(a) # None => Of(a) \in Alive /\ processor[Of(a)].io = "none"
Jobs ==
    /\ \A i \in 1 .. Len(pool) : /\ pool[i] \in Alive /\ processor[pool[i]].io = "none"
                                 /\ \A a \in Runners : Of(a) # pool[i]
    /\ \A i, j \in 1 .. Len(pool) : pool[i] = pool[j] => i = j
Pending == \A c \in Connections : processor[c].io # "none" => c \in Alive
Found == \A c \in Alive : \/ processor[c].io # "none"
                          \/ \E a \in Runners : Of(a) = c
                          \/ \E i \in 1 .. Len(pool) : pool[i] = c

(* When clode has been through the table, whoever waits for an operation or  *)
(* is about to begin one has lost its channel.                               *)
Submitting(c) == \E a \in Runners : Of(a) = c /\ At(a, "submit")
Reachable ==
    /\ Alive \subseteq canalia
    /\ \A c \in Alive :
         phase \in {"waiting", "draining", "returned"}
            /\ (processor[c].io # "none" \/ Submitting(c)) => ~processor[c].open

(* clode goes on only when everybody is gone.                                *)
Drained == phase \in {"draining", "returned"} => finished

(* Which calls have been made for its request, by where a processor is:      *)
(* none, announcements only, or announcements and one that asks.  After a    *)
(* failure the request is over.                                              *)
OnlyAnnounced(q) == \A i \in 1 .. Len(q) : q[i].what = "announced"
Begun(q) == q # <<>> /\ OnlyAnnounced(q)
AskedOnce(q) == q # <<>> /\ \A i \in 1 .. Len(q) : q[i].what = "asked" <=> i = Len(q)
ByMode(pr) ==
    /\ pr.modus = "head" => pr.calls = <<>>
    /\ pr.modus \in {"body", "chunk", "piece", "work", "expect"} => Begun(pr.calls)
Fits(at, pr) ==
    /\ at = "parse" => pr.calls = <<>>
    /\ at \in {"init", "errorInit"} => Begun(pr.calls)
    /\ at = "accept" => AskedOnce(pr.calls)
    /\ at \in {"procede", "submit"} => ByMode(pr)
    /\ at = "exeque" => pr.failed \/ ByMode(pr)
JobFits(pr) ==
    /\ pr.job \in {"parse", "exeque"}
    /\ Fits(pr.job, pr)
Staged ==
    /\ \A a \in Runners : Of(a) # None => Fits(runner[a].at, processor[Of(a)])
    /\ \A c \in Connections : processor[c].io # "none" => ByMode(processor[c])
    /\ \A i \in 1 .. Len(pool) : JobFits(processor[pool[i]])

HInv == /\ TypeOK /\ Holders /\ Jobs /\ Pending /\ Found /\ Counted /\ Reachable /\ Drained
        /\ Staged
=============================================================================

------------------------ MODULE HttpClientInvariant ------------------------
(***************************************************************************)
(* The inductive invariant of the HTTP client.  A session that nobody      *)
(* resumed twice has one thing going on at a time: the connection being    *)
(* made, a request under way, or somebody about to send the next one.  A   *)
(* download that was never redirected has one request at a time, and its   *)
(* stream holds nothing but what that request was answered.                *)
(***************************************************************************)
EXTENDS HttpClient

Session == [status : {"none", "creating", "active", "failed", "closed"}, waiting : Seq(Requests),
            busy : BOOLEAN, queue : BOOLEAN, channel : {"none", "connecting", "open", "closed"},
            local : BOOLEAN]
Places == {"unmade", "made", "waiting", "head", "proceeding", "content", "told", "lost", "reported",
           "refused"}
Request == [load : Downloads \cup {None}, at : Places, session : Sessions \cup {None},
            code : {"none", "ok", "moved", "unwanted"}, answer : Requests \cup {None},
            taken : Nat]
Load == [state : {"none", "running", "done", "failed", "thrown", "crashed"}, tries : Nat,
         redirected : BOOLEAN, final : Requests \cup {None}, content : SUBSET Requests,
         moved : BOOLEAN]
Stages == {"idle", "ask", "require", "resume", "siste", "clode", "closing"}
Outcomes == {"done", "failed", "cancelled"}

TypeOK ==
    /\ session \in [Sessions -> Session]
    /\ opened \in 0 .. MaxSessions /\ table \subseteq Sessions
    /\ operating \in BOOLEAN /\ lock \in Actors \cup {None}
    /\ request \in [Requests -> Request]
    /\ made \in 0 .. MaxRequests
    /\ reports \in Seq([r : Requests, how : Outcomes])
    /\ load \in [Downloads -> Load]
    /\ call \in [Actors -> [at : Stages, r : Requests \cup {None}, s : Sessions \cup {None}]]
    /\ faults \in Nat /\ raced \subseteq Sessions

(* What was not made or opened yet is blank.                                *)
Blank ==
    /\ \A r \in Requests : r > made => request[r] = NoRequest
    /\ \A r \in Requests : r <= made => request[r].at # "unmade" /\ request[r].load \in Downloads
    /\ \A s \in Sessions : s > opened => session[s] = NoSession
    /\ \A r \in Requests : request[r].session # None => request[r].session <= opened
    /\ \A a \in Actors : call[a].s # None => call[a].s <= opened
    /\ \A s \in table : s <= opened
    /\ \A d \in Downloads : load[d].state = "none" => load[d] = NewLoad

(* Whoever is inside a session is inside one, and a request past require has *)
(* one.                                                                      *)
Inside ==
    /\ \A a \in Actors : call[a].at \in {"require", "resume", "siste", "clode"} => call[a].s \in Sessions
    /\ \A r \in Requests : request[r].at \in {"waiting", "head", "proceeding", "content", "told"} =>
                               request[r].session \in Sessions
    /\ \A s \in Sessions : Living(s) => session[s].queue

(* One thing at a time.                                                      *)
Connecting(s) == session[s].channel = "connecting"
Alone(s) ==
    /\ \A a, b \in Resuming(s) : a = b
    /\ InFlight(s) # {} => session[s].busy /\ Resuming(s) = {}
    /\ Connecting(s) => session[s].busy /\ Resuming(s) = {} /\ InFlight(s) = {}
OneThing == \A s \in Sessions \ raced : Living(s) => Alone(s)

Unanswered == \A r \in Requests : request[r].at \in {"unmade", "made", "waiting"} => request[r].answer = None

(* A session of localhost is asked by those requests, and by no others, of    *)
(* which the manager had already taken the address before.                   *)
Local(s, r) == session[s].local <=> request[r].taken > 1
Hosted ==
    /\ \A a \in Actors : At(a, "require") => Local(call[a].s, call[a].r)
    /\ \A r \in Requests : request[r].session # None => Local(request[r].session, r)
    /\ \A r \in Requests : request[r].at = "made" => request[r].session = None

(* A download that was never redirected.                                     *)
Live == {"made", "waiting", "head", "proceeding", "content", "told"}
Ours(d, r) == request[r].load = d /\ request[r].at \in Live
OneTry(d) == \A q, r \in Requests : Ours(d, q) /\ Ours(d, r) => q = r
TryRuns(d) == \A r \in Requests : Ours(d, r) => load[d].state = "running" /\ load[d].content \subseteq {r}
Well(d) ==
    /\ \A r \in Requests : Ours(d, r) => request[r].at # "proceeding"
                                         /\ (request[r].at = "content" => request[r].code = "ok")
    /\ \A i \in 1 .. Len(reports) : request[reports[i].r].load = d /\ reports[i].how = "done" =>
                                        request[reports[i].r].code = "ok"
Ended(d) ==
    /\ load[d].state # "crashed" /\ ~load[d].redirected
    /\ Over(d) => Sound(d) /\ (load[d].final \in Requests => request[load[d].final].load = d)
Straight(d) == OneTry(d) /\ TryRuns(d) /\ Well(d) /\ Ended(d)
Downloading == \A d \in Downloads : ~load[d].moved => Straight(d)

Base == /\ TypeOK /\ Blank /\ Inside /\ InPlace /\ NobodyForgotten /\ OneThing /\ OneAtATime
        /\ Unanswered /\ AnswersOwn /\ Downloading
IInv == Base /\ Hosted
=============================================================================

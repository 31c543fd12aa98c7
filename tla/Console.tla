------------------------------ MODULE Console ------------------------------
(***************************************************************************)
(* A console window and the programs attached to it: the composition of    *)
(* ConsoleHost and ConsoleClient over their channels.  Programs share a    *)
(* console when one hands the console's address to another that it starts. *)
(***************************************************************************)
EXTENDS ConsoleHost, ConsoleClient

CONSTANT UsedSettings   \* the settings the programs of an instance change

ASSUME SettingsAssumption == UsedSettings \subseteq Settings
ASSUME KindsAssumption ==
    Kinds \cap (Settings \cup {"key", "resize", "read", "close", "eof", "eos", None}) = {}

vars == <<channelVars, hostVars, clientVars>>

TypeOK == ChannelTypeOK /\ HostTypeOK /\ ClientTypeOK

Init == ChannelInit /\ HostInit /\ ClientInit

User == RawKey \/ Char \/ Return \/ Back \/ Delete \/ MoveCaret \/ Resize \/ CloseWindow

WindowThread == RunTask \/ EmitPick \/ EmitSend \/ Exit

HostThread(c) == ReadRequest(c) \/ Leave(c)

Host == (User \/ WindowThread \/ Accept \/ \E c \in Clients : HostThread(c)) /\ UNCHANGED clientVars

\* The window accepts connections from the moment its listener runs.
Calls(c) ==
    \/ Open /\ Connect(c)
    \/ ReadEvent(c, HostClosed(c))
    \/ \E k \in Kinds : Ask(c, k, HostClosed(c))
    \/ \E v \in UsedSettings : Set(c, v, HostClosed(c))
    \/ Close(c)
    \/ Die(c)

Returns(c) == EventRead(c) \/ Answered(c) \/ Closed(c)

InputThread(c) == Sort(c) \/ EndOfInput(c, HostClosed(c))

Program(c) == (Calls(c) \/ Returns(c) \/ InputThread(c)) /\ UNCHANGED hostVars

Next == Host \/ \E c \in Clients : Program(c)

\* Threads that can run do: the window system runs its tasks, every reading
\* thread reads, every waiting call returns.  Nothing makes a user press a key
\* or a program send a request.
Fairness ==
    /\ WF_vars(WindowThread /\ UNCHANGED clientVars)
    /\ WF_vars(Accept /\ UNCHANGED clientVars)
    /\ \A c \in Clients :
        /\ WF_vars(HostThread(c) /\ UNCHANGED clientVars)
        /\ WF_vars(InputThread(c) /\ UNCHANGED hostVars)
        /\ WF_vars(EventRead(c) /\ UNCHANGED hostVars)
        /\ WF_vars(Answered(c) /\ UNCHANGED hostVars)
        /\ WF_vars(Closed(c) /\ UNCHANGED hostVars)

Spec     == Init /\ [][Next]_vars
FairSpec == Spec /\ Fairness
-----------------------------------------------------------------------------
(* Safety.                                                                 *)

\* No key is kept while an attached program is on record as waiting for one
\* (_emit_event and verb 21 decide this in separate critical sections, with
\* programs coming and going in between).
NobodyWaitsInVain == events # <<>> => \A c \in Attached : readReq[c] = 0

\* A program reads keys in the order they were pressed, none that another one
\* reads too, though each passes a queue, a channel and a list with a lock each.
ReadInOrder ==
    /\ \A c \in Clients : \A i, j \in DOMAIN received[c] :
        i < j => received[c][i] < received[c][j]
    /\ \A c, d \in Clients : c # d =>
        \A i \in DOMAIN received[c], j \in DOMAIN received[d] : received[c][i] # received[d][j]

\* The keys c has been assigned, those it has read, those of a list of inputs,
\* and the one that is just being sent to c.
Assigned(c) == {given[c][i] : i \in DOMAIN given[c]}
Had(c)      == {received[c][i] : i \in DOMAIN received[c]}
KeysOf(q)   == {q[i].n : i \in {k \in DOMAIN q : q[k].type = "key"}}
Leaving(c)  == IF ui.at = "send" /\ ui.to = c THEN {ui.key} ELSE {}

Before(A, B)  == \A a \in A, b \in B : a < b
Increasing(q) == \A i, j \in DOMAIN q : i < j => q[i] < q[j]
KeysIncreasing(q) ==
    \A i, j \in DOMAIN q :
        i < j /\ q[i].type = "key" /\ q[j].type = "key" => q[i].n < q[j].n

\* On the way of a key to its program nothing overtakes, and none is doubled.
PipelineInv(c) ==
    /\ Had(c) \cup KeysOf(inputs[c]) \cup KeysOf(toClient[c]) \cup Leaving(c) \subseteq Assigned(c)
    /\ Increasing(received[c])
    /\ KeysIncreasing(inputs[c])
    /\ KeysIncreasing(toClient[c])
    /\ Before(Had(c), KeysOf(inputs[c]) \cup KeysOf(toClient[c]) \cup Leaving(c))
    /\ Before(KeysOf(inputs[c]), KeysOf(toClient[c]) \cup Leaving(c))
    /\ Before(KeysOf(toClient[c]), Leaving(c))

AllKept(c) ==
    thread[c] = "running" /\ ~HostClosed(c) =>
        Assigned(c) \subseteq
            Had(c) \cup KeysOf(inputs[c]) \cup KeysOf(toClient[c]) \cup Leaving(c)

\* What a program has read, what waits in its list, what is on its way to it and
\* the key just being sent are, in this order, the keys the window has assigned to
\* it: none is doubled and, as long as both ends are there, none is lost.
NothingLost == \A c \in Clients : PipelineInv(c) /\ AllKept(c)

\* The window has c's request to read, or has answered it, or is going away.
OnRecord(c) ==
    \/ "read" \in ToSet(toHost[c])
    \/ Task("read", c) \in ToSet(tasks)
    \/ c \in Attached /\ readReq[c] > 0
    \/ ui.at = "send" /\ ui.to = c
    \/ \E m \in ToSet(toClient[c]) : m.type \in {"key", "resize", "close"}
    \/ inputs[c] # <<>>
    \/ host # "running"

\* A program blocked in ReadEvent is never forgotten (verb 21, "ready to accept
\* an input").
ReadersOnRecord == \A c \in Clients : reading[c] => OnRecord(c)

\* The answer a program's thread finds is the answer to its question, whatever
\* inputs and resizes are sent in between.
AnswersMatch ==
    \A c \in Clients :
        asking[c] # None /\ answerable[c] > 0 => Head(answers[c]) \in {asking[c], "eof"}

\* The window survives programs that come and go while the user types.
NoCrash == host # "crashed"

Stream == INSTANCE InputStream WITH pending <- events

\* Keys are numbered, kept and assigned as InputStream says.
ImplementsInputStream == Stream!Spec
-----------------------------------------------------------------------------
(* Liveness, of FairSpec.                                                  *)

\* The destructor of Console waits for a thread that ends only when the window
\* drops the last reference to the channel: it always does.
DestructorEnds == \A c \in Clients : program[c] = "closing" ~> program[c] = "gone"

\* A call that waits for a key returns when there is one it has not read, and
\* when the window goes away.
ReaderWakes ==
    \A c \in Clients :
        reading[c] /\ (Len(received[c]) < emitted \/ host # "running") ~> ~reading[c]

\* A question is always answered.
QuestionAnswered == \A c \in Clients : asking[c] # None ~> asking[c] = None

\* When the last program has gone the window learns of it, however many leave
\* at once.
DetachNoticed == (\A c \in Clients : program[c] = "gone") ~> (eos \/ host # "running")
=============================================================================

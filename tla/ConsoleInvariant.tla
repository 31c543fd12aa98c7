-------------------------- MODULE ConsoleInvariant --------------------------
(***************************************************************************)
(* The inductive invariant of the console.  It follows a key from the      *)
(* queue through the channel and the program's list: wherever it is, the   *)
(* keys ahead of it were pressed before it.  And it follows a question     *)
(* through the channel and the window's tasks, and its answer back: there  *)
(* is one of it, in one place.                                             *)
(***************************************************************************)
EXTENDS Console

\* A question's counter never promises more answers than the list holds.
CounterInv == \A c \in Clients : answerable[c] <= Len(answers[c])

\* The window's thread has something left to emit, or someone to send a key to.
UiInv ==
    /\ ui.at = "emit" => ui.left > 0
    /\ ui.at = "send" => ui.to \in Clients

\* A program is in the backlog, or on the window's list, at most once, and has
\* nothing on record before it is accepted.
AttachInv ==
    /\ \A i, j \in DOMAIN backlog : backlog[i] = backlog[j] => i = j
    /\ \A i \in DOMAIN backlog : io[backlog[i]] = "none" /\ program[backlog[i]] # "out"
    /\ \A c \in Clients :
        /\ program[c] = "out" => io[c] = "none"
        /\ io[c] = "none" => c \notin Attached /\ readReq[c] = 0

\* Keys are queued and assigned in the order of their numbers, each to one
\* program at most.
OrderInv ==
    /\ \A i \in DOMAIN events : events[i] \in 1 .. emitted
    /\ \A i, j \in DOMAIN events : i < j => events[i] < events[j]
    /\ \A c \in Clients : \A i \in DOMAIN given[c] :
        /\ given[c][i] \in 1 .. emitted
        /\ \A j \in DOMAIN events : given[c][i] < events[j]
        /\ \A j \in DOMAIN given[c] : i < j => given[c][i] < given[c][j]
    /\ \A c, d \in Clients : c # d =>
        \A i \in DOMAIN given[c], j \in DOMAIN given[d] : given[c][i] # given[d][j]

\* Only programs that were accepted have tasks and are assigned keys.
KnownInv ==
    /\ \A i \in DOMAIN tasks : tasks[i].from \in Clients => io[tasks[i].from] # "none"
    /\ ui.at = "send" => io[ui.to] # "none"
    /\ \A c \in Clients : io[c] = "none" => given[c] = <<>>

\* No member of S is in q; x is the one member of S in q.
Free(q, S) == \A i \in DOMAIN q : q[i] \notin S
Single(q, S, x) == \E i \in DOMAIN q : q[i] = x /\ \A j \in DOMAIN q : q[j] \in S => j = i

\* The question of a program is in one place, until its thread has the answer:
\* in the channel, with the window's tasks, in the channel back or on the list.
Questions(c) == {Task(k, c) : k \in Kinds}
Replies == {Plain(k) : k \in Kinds}
NoQuestion(c) ==
    /\ Free(toHost[c], Kinds) /\ Free(tasks, Questions(c)) /\ Free(toClient[c], Replies)
    /\ answers[c] = <<>>
OneQuestion(c, k) ==
    \/ /\ Single(toHost[c], Kinds, k) /\ Free(tasks, Questions(c)) /\ Free(toClient[c], Replies)
       /\ answers[c] = <<>>
    \/ /\ Free(toHost[c], Kinds) /\ Single(tasks, Questions(c), Task(k, c))
       /\ Free(toClient[c], Replies) /\ answers[c] = <<>>
    \/ /\ Free(toHost[c], Kinds) /\ Free(tasks, Questions(c))
       /\ Single(toClient[c], Replies, Plain(k)) /\ answers[c] = <<>>
    \/ /\ Free(toHost[c], Kinds) /\ Free(tasks, Questions(c)) /\ Free(toClient[c], Replies)
       /\ answers[c] = <<k>>
Asked(c) == IF asking[c] = None THEN NoQuestion(c) ELSE OneQuestion(c, asking[c])

\* A question that was on its way when the input thread ended is not answered:
\* the end of file is, and stays, the last answer.
QuestionInv(c) ==
    /\ program[c] = "out" => thread[c] = "none"
    /\ thread[c] # "ended" => Asked(c)
    /\ thread[c] = "ended" =>
        \/ program[c] = "gone" /\ asking[c] = None
        \/ answers[c] = <<"eof">>
        \/ asking[c] # None /\ answers[c] = <<asking[c], "eof">>

IInv ==
    /\ TypeOK
    /\ CounterInv
    /\ UiInv
    /\ AttachInv
    /\ NobodyWaitsInVain
    /\ OrderInv
    /\ \A c \in Clients : PipelineInv(c)
    /\ KnownInv
    /\ \A c \in Clients : AllKept(c) /\ QuestionInv(c)
=============================================================================

---------------------------- MODULE ConsoleHost ----------------------------
(***************************************************************************)
(* The window's side of a console: class AttachIO of xcon/xc_io.cxx.       *)
(* Three kinds of threads touch it: the window system's thread, which runs *)
(* the user's input and every request of a program as a task; the          *)
(* listener; and one reading thread per program.  _sync protects _clients  *)
(* and _events; it is held for one step at a time, so each of the code's   *)
(* critical sections is one step and what follows it is another.           *)
(***************************************************************************)
EXTENDS ConsoleChannel

CONSTANT MaxInput   \* bound: keys pressed and windows resized by the user

ASSUME InputAssumption == MaxInput \in Nat

VARIABLES
    host,       \* "running", "closing" (the main loop ended), "exited" or "crashed"
    clients,    \* _clients: the attached programs, in the order they were accepted
    readReq,    \* readReq[c]: c's read_req
    io,         \* io[c]: the reading thread of c
    events,     \* _events: keys nobody has asked for yet
    tasks,      \* the window system's task queue
    ui,         \* what the window system's thread is in the middle of
    mode,       \* _current_state._mode
    line,       \* length of _current_state._buffer
    caret,      \* _current_state._caret_index
    eos,        \* _current_state._eos
    detach,     \* _close_on_eos of the console: TRUE closes the window
    typed,      \* number of keys and resizes so far, for the bound
    emitted,    \* number of keys sent or queued so far: numbers the keys
    given       \* given[c]: keys _emit_event and verb 21 have assigned to c

editVars == <<mode, line, caret>>
hostVars == <<host, clients, readReq, io, events, tasks, ui, mode, line, caret,
              eos, detach, typed, emitted, given>>

Idle       == [at |-> "idle", left |-> 0, to |-> None, key |-> 0, holds |-> None]
Emit(left) == IF left = 0 THEN Idle
              ELSE [at |-> "emit", left |-> left, to |-> None, key |-> 0, holds |-> None]

\* Key n is to be sent to c, and left more are to be emitted; holds is the
\* program whose channel the task that is run refers to.
Send(c, n, left, holds) ==
    [at |-> "send", left |-> left, to |-> c, key |-> n, holds |-> holds]

Task(v, c) == [verb |-> v, from |-> c]
EosTask    == Task("eos", None)

UiType == [at : {"idle", "emit", "send"}, left : Nat, to : Clients \cup {None},
           key : Nat, holds : Clients \cup {None}]

HostTypeOK ==
    /\ host \in {"running", "closing", "exited", "crashed"}
    /\ clients \in Seq(Clients)
    /\ readReq \in [Clients -> Nat]
    /\ io \in [Clients -> {"none", "reading", "leaving", "ended"}]
    /\ events \in Seq(Nat)
    /\ tasks \in Seq([verb : Verbs, from : Clients] \cup {EosTask})
    /\ ui \in UiType
    /\ mode \in {"raw", "echo"}
    /\ line \in Nat /\ caret \in 0 .. line
    /\ eos \in BOOLEAN /\ detach \in BOOLEAN
    /\ typed \in 0 .. MaxInput
    /\ emitted \in Nat
    /\ given \in [Clients -> Seq(Nat)]

HostInit ==
    /\ host = "running"
    /\ clients = <<>>
    /\ readReq = [c \in Clients |-> 0]
    /\ io = [c \in Clients |-> "none"]
    /\ events = <<>>
    /\ tasks = <<>>
    /\ ui = Idle
    /\ mode = "echo"
    /\ line = 0 /\ caret = 0
    /\ eos = FALSE /\ detach \in BOOLEAN
    /\ typed = 0 /\ emitted = 0
    /\ given = [c \in Clients |-> <<>>]

Attached == ToSet(clients)
Open     == host \in {"running", "closing"}

\* Someone holds a reference to the window's end of c's channel: _clients, the
\* reading thread, a task of c, or the task being run.
Alive(c) ==
    \/ c \in Attached
    \/ io[c] \in {"reading", "leaving"}
    \/ \E i \in DOMAIN tasks : tasks[i].from = c
    \/ ui.holds = c

\* The window's end of c's channel is closed: its last reference is gone, or
\* the process is.
HostClosed(c) == ~Open \/ (io[c] = "ended" /\ ~Alive(c))
-----------------------------------------------------------------------------
(* The listener and the reading threads.                                   *)

Accept ==
    /\ Open
    /\ backlog # <<>>
    /\ backlog' = Tail(backlog)
    /\ clients' = Append(clients, Head(backlog))
    /\ io' = [io EXCEPT ![Head(backlog)] = "reading"]
    /\ UNCHANGED <<host, readReq, events, tasks, ui, editVars, eos, detach,
                   typed, emitted, given, toHost, toClient>>

\* ReadRequest: close connection, or the end of the stream, ends the thread's
\* loop; everything else becomes a task, which holds the channel.
ReadRequest(c) ==
    /\ Open
    /\ io[c] = "reading"
    /\ toHost[c] # <<>>
    /\ toHost' = [toHost EXCEPT ![c] = Tail(@)]
    /\ \/ /\ Head(toHost[c]) = "close"
          /\ io' = [io EXCEPT ![c] = "leaving"]
          /\ UNCHANGED tasks
       \/ /\ Head(toHost[c]) # "close"
          /\ tasks' = Append(tasks, Task(Head(toHost[c]), c))
          /\ UNCHANGED io
    /\ UNCHANGED <<host, clients, readReq, events, ui, editVars, eos, detach,
                   typed, emitted, given, backlog, toClient>>

(* Mutant: the list is looked at before the program is taken off it.       *)
LeaveLookingFirst(c) ==
    /\ Open
    /\ io[c] = "leaving"
    /\ io' = [io EXCEPT ![c] = "ended"]
    /\ \E i \in DOMAIN clients : clients[i] = c /\ clients' = RemoveAt(clients, i)
    /\ tasks' = IF clients = <<>> THEN Append(tasks, EosTask) ELSE tasks
    /\ UNCHANGED <<host, readReq, events, ui, editVars, eos, detach, typed,
                   emitted, given, channelVars>>

(* Mutant: the program stays on the list.                                  *)
LeaveKeepingEntry(c) ==
    /\ Open
    /\ io[c] = "leaving"
    /\ io' = [io EXCEPT ![c] = "ended"]
    /\ UNCHANGED <<host, clients, readReq, events, tasks, ui, editVars, eos, detach,
                   typed, emitted, given, channelVars>>

\* The end of the thread: under _sync it takes its program off the list and,
\* when the list is empty, submits the end of the stream; then it returns and
\* drops its reference to the channel.
Leave(c) ==
    /\ Open
    /\ io[c] = "leaving"
    /\ io' = [io EXCEPT ![c] = "ended"]
    /\ \E i \in DOMAIN clients : clients[i] = c /\ clients' = RemoveAt(clients, i)
    /\ tasks' = IF clients' = <<>> THEN Append(tasks, EosTask) ELSE tasks
    /\ UNCHANGED <<host, readReq, events, ui, editVars, eos, detach, typed,
                   emitted, given, channelVars>>
-----------------------------------------------------------------------------
(* The window system's thread.                                             *)

Ready == host = "running" /\ ui.at = "idle"

(* Mutant: the search ends after the first program.                        *)
WaitingFirst == {i \in DOMAIN clients : i = 1 /\ readReq[clients[i]] > 0}

Waiting == {i \in DOMAIN clients : readReq[clients[i]] > 0}

\* _emit_event, under _sync: every program that is waiting has one request
\* taken off its record, and the last of them gets the key; a key nobody waits
\* for is queued.
EmitPick ==
    /\ host = "running"
    /\ ui.at = "emit"
    /\ emitted' = emitted + 1
    /\ \/ /\ Waiting = {}
          /\ events' = Append(events, emitted')
          /\ ui' = Emit(ui.left - 1)
          /\ UNCHANGED <<readReq, given>>
       \/ \E last \in Waiting :
          /\ \A i \in Waiting : i <= last
          /\ readReq' = [c \in Clients |->
                IF c \in Attached /\ readReq[c] > 0 THEN readReq[c] - 1 ELSE readReq[c]]
          /\ given' = [given EXCEPT ![clients[last]] = Append(@, emitted')]
          /\ ui' = Send(clients[last], emitted', ui.left - 1, None)
          /\ UNCHANGED events
    /\ UNCHANGED <<host, clients, io, tasks, editVars, eos, detach, typed, channelVars>>

\* The key is sent after _sync is released.  _emit_event keeps no reference to
\* the channel: when its last one is gone the window may crash, or the write
\* fails and the key is lost.
EmitSend ==
    /\ host = "running"
    /\ ui.at = "send"
    /\ ui' = Emit(ui.left)
    /\ \/ Alive(ui.to) /\ SendResponse(ui.to, Key(ui.key)) /\ UNCHANGED host
       \/ ~Alive(ui.to) /\ UNCHANGED toClient /\ host' \in {host, "crashed"}
    /\ UNCHANGED <<clients, readReq, io, events, tasks, editVars, eos, detach,
                   typed, emitted, given, backlog, toHost>>

(* Mutant: the newest key goes to the program that asks.                   *)
RunReadNewest(c) ==
    \/ /\ events # <<>>
       /\ events' = Front(events)
       /\ given' = [given EXCEPT ![c] = Append(@, Last(events))]
       /\ ui' = Send(c, Last(events), 0, c)
       /\ UNCHANGED readReq
    \/ /\ events = <<>>
       /\ readReq' = IF c \in Attached THEN [readReq EXCEPT ![c] = @ + 1] ELSE readReq
       /\ UNCHANGED <<events, given, ui>>

(* Mutant: the key that is sent stays in the queue.                        *)
RunReadKeeping(c) ==
    \/ /\ events # <<>>
       /\ given' = [given EXCEPT ![c] = Append(@, Head(events))]
       /\ ui' = Send(c, Head(events), 0, c)
       /\ UNCHANGED <<events, readReq>>
    \/ /\ events = <<>>
       /\ readReq' = IF c \in Attached THEN [readReq EXCEPT ![c] = @ + 1] ELSE readReq
       /\ UNCHANGED <<events, given, ui>>

\* A task of verb 21: the oldest queued key goes to the program that asks; with
\* none queued the request is put on the program's record, if it is attached.
RunRead(c) ==
    \/ /\ events # <<>>
       /\ events' = Tail(events)
       /\ given' = [given EXCEPT ![c] = Append(@, Head(events))]
       /\ ui' = Send(c, Head(events), 0, c)
       /\ UNCHANGED readReq
    \/ /\ events = <<>>
       /\ readReq' = IF c \in Attached THEN [readReq EXCEPT ![c] = @ + 1] ELSE readReq
       /\ UNCHANGED <<events, given, ui>>

\* _set_io_mode: a change of mode drops the line being edited.
SetMode(m) ==
    /\ mode' = m
    /\ line' = IF m = mode THEN line ELSE 0
    /\ caret' = IF m = mode THEN caret ELSE 0

\* The end of the stream: with "close on detach" the window closes at once, and
\* Terminate has nobody to tell.
EndOfStream ==
    /\ eos' = TRUE
    /\ host' = IF detach THEN "closing" ELSE host

RunTask ==
    /\ Ready
    /\ tasks # <<>>
    /\ tasks' = Tail(tasks)
    /\ LET t == Head(tasks)
       IN  \/ /\ t.verb = "read" /\ RunRead(t.from)
              /\ UNCHANGED <<host, editVars, eos, detach, toClient>>
           \/ /\ t.verb \in Kinds /\ SendResponse(t.from, Plain(t.verb))
              /\ UNCHANGED <<host, readReq, events, given, ui, editVars, eos, detach>>
           \/ /\ t.verb \in {"raw", "echo"} /\ SetMode(t.verb)
              /\ UNCHANGED <<host, readReq, events, given, ui, eos, detach, toClient>>
           \/ /\ t.verb \in {"close on detach", "stay on detach"}
              /\ detach' = (t.verb = "close on detach")
              /\ UNCHANGED <<host, readReq, events, given, ui, editVars, eos, toClient>>
           \/ /\ t = EosTask /\ EndOfStream
              /\ UNCHANGED <<readReq, events, given, ui, editVars, detach, toClient>>
    /\ UNCHANGED <<clients, io, typed, emitted, backlog, toHost>>
-----------------------------------------------------------------------------
(* The user.  OutputKey and OutputText return at once after the end of the *)
(* stream; in the echo mode a line is edited here and sent when it ends.   *)

Press(edit) ==
    /\ Ready
    /\ ~eos
    /\ typed < MaxInput
    /\ typed' = typed + 1
    /\ edit
    /\ UNCHANGED <<host, clients, readReq, io, events, tasks, mode, eos, detach,
                   emitted, given, channelVars>>

RawKey == Press(mode = "raw" /\ ui' = Emit(1) /\ UNCHANGED <<line, caret>>)

Char == Press(mode = "echo" /\ line' = line + 1 /\ caret' = caret + 1 /\ UNCHANGED ui)

\* The characters of the line and the new-line are emitted one by one.  The
\* code clears the line when it has sent them; nothing looks at it before.
Return == Press(mode = "echo" /\ ui' = Emit(line + 1) /\ line' = 0 /\ caret' = 0)

Back == Press(mode = "echo" /\ caret > 0 /\ line' = line - 1 /\ caret' = caret - 1 /\ UNCHANGED ui)

Delete == Press(mode = "echo" /\ caret < line /\ line' = line - 1 /\ UNCHANGED <<caret, ui>>)

MoveCaret ==
    Press(/\ mode = "echo"
          /\ caret' \in {0, line} \cup ({caret - 1, caret + 1} \cap 0 .. line)
          /\ caret' # caret
          /\ UNCHANGED <<line, ui>>)

\* ScreenBufferResize: in the raw mode every program is told, asked or not; in
\* the echo mode the line is printed again.
Resize ==
    /\ Ready
    /\ ~eos
    /\ mode = "raw"
    /\ typed < MaxInput
    /\ typed' = typed + 1
    /\ Broadcast(Attached, Plain("resize"))
    /\ UNCHANGED <<host, clients, readReq, io, events, tasks, ui, editVars, eos,
                   detach, emitted, given, backlog, toHost>>

\* WindowClose: every attached program is told to close, then the main loop ends.
CloseWindow ==
    /\ Ready
    /\ host' = "closing"
    /\ IF eos THEN UNCHANGED toClient ELSE Broadcast(Attached, Plain("close"))
    /\ UNCHANGED <<clients, readReq, io, events, tasks, ui, editVars, eos, detach,
                   typed, emitted, given, backlog, toHost>>

\* CloseService and ExitProcess: the listener, the reading threads and every
\* channel are gone.
Exit ==
    /\ host = "closing"
    /\ host' = "exited"
    /\ UNCHANGED <<clients, readReq, io, events, tasks, ui, editVars, eos, detach,
                   typed, emitted, given, channelVars>>
=============================================================================

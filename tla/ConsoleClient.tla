--------------------------- MODULE ConsoleClient ---------------------------
(***************************************************************************)
(* A program attached to a console: class Console of                       *)
(* xcon/client/xc_api.cxx.  Its input thread sorts what the window sends   *)
(* into inputs and answers; _counter and _sys_counter count what may be    *)
(* taken.  One thread of the program reads events and one asks questions,  *)
(* at the same time if they like; the class has no lock that would let two *)
(* threads ask.  "closed" says that the window's end is closed.            *)
(***************************************************************************)
EXTENDS ConsoleChannel

CONSTANT MaxCalls   \* bound: requests a program sends besides the last one

ASSUME CallsAssumption == MaxCalls \in Nat

VARIABLES
    program,    \* program[c]: "out", "in", "closing" (in the destructor) or "gone"
    thread,     \* thread[c]: the input thread
    reading,    \* reading[c]: a thread of c is inside ReadEvent
    asking,     \* asking[c]: the question a thread of c waits for, or None
    inputs,     \* _inputs; _counter is its length, for the end of file stays
    answers,    \* _sys_inputs
    answerable, \* _sys_counter
    received,   \* received[c]: the keys ReadEvent has returned to c
    calls       \* calls[c]: requests sent so far, for the bound

clientVars == <<program, thread, reading, asking, inputs, answers, answerable,
                received, calls>>

EndOfFile == Plain("eof")

ClientTypeOK ==
    /\ program \in [Clients -> {"out", "in", "closing", "gone"}]
    /\ thread \in [Clients -> {"none", "running", "ended"}]
    /\ reading \in [Clients -> BOOLEAN]
    /\ asking \in [Clients -> Kinds \cup {None}]
    /\ inputs \in [Clients -> Seq(Responses \cup {EndOfFile})]
    /\ answers \in [Clients -> Seq(Kinds \cup {"eof"})]
    /\ answerable \in [Clients -> Nat]
    /\ received \in [Clients -> Seq(Nat)]
    /\ calls \in [Clients -> 0 .. MaxCalls]

ClientInit ==
    /\ program = [c \in Clients |-> "out"]
    /\ thread = [c \in Clients |-> "none"]
    /\ reading = [c \in Clients |-> FALSE]
    /\ asking = [c \in Clients |-> None]
    /\ inputs = [c \in Clients |-> <<>>]
    /\ answers = [c \in Clients |-> <<>>]
    /\ answerable = [c \in Clients |-> 0]
    /\ received = [c \in Clients |-> <<>>]
    /\ calls = [c \in Clients |-> 0]

\* The constructor: the connection waits in the listener's backlog; the input
\* thread starts.
Connect(c) ==
    /\ program[c] = "out"
    /\ program' = [program EXCEPT ![c] = "in"]
    /\ thread' = [thread EXCEPT ![c] = "running"]
    /\ backlog' = Append(backlog, c)
    /\ UNCHANGED <<reading, asking, inputs, answers, answerable, received, calls,
                   toHost, toClient>>

\* A call that sends a request; on a closed channel it throws, or does nothing.
Request(c, v, closed) ==
    /\ program[c] = "in"
    /\ ~closed
    /\ calls[c] < MaxCalls
    /\ calls' = [calls EXCEPT ![c] = @ + 1]
    /\ SendVerb(c, v)
    /\ UNCHANGED <<program, thread, inputs, answers, answerable, received,
                   backlog, toClient>>

ReadEvent(c, closed) ==
    /\ ~reading[c]
    /\ reading' = [reading EXCEPT ![c] = TRUE]
    /\ Request(c, "read", closed)
    /\ UNCHANGED asking

Ask(c, k, closed) ==
    /\ asking[c] = None
    /\ asking' = [asking EXCEPT ![c] = k]
    /\ Request(c, k, closed)
    /\ UNCHANGED reading

Set(c, v, closed) == Request(c, v, closed) /\ UNCHANGED <<reading, asking>>

(* Mutant: the list is cleared with the input that is taken.               *)
EventReadClearing(c) ==
    /\ reading[c]
    /\ inputs[c] # <<>>
    /\ reading' = [reading EXCEPT ![c] = FALSE]
    /\ LET e == Head(inputs[c])
       IN  /\ inputs' = IF e = EndOfFile THEN inputs ELSE [inputs EXCEPT ![c] = <<>>]
           /\ received' = IF e.type = "key" THEN [received EXCEPT ![c] = Append(@, e.n)]
                          ELSE received
    /\ UNCHANGED <<program, thread, asking, answers, answerable, calls, channelVars>>

\* ReadEvent takes the first input; the end of file stays where it is.
EventRead(c) ==
    /\ reading[c]
    /\ inputs[c] # <<>>
    /\ reading' = [reading EXCEPT ![c] = FALSE]
    /\ LET e == Head(inputs[c])
       IN  /\ inputs' = IF e = EndOfFile THEN inputs ELSE [inputs EXCEPT ![c] = Tail(@)]
           /\ received' = IF e.type = "key" THEN [received EXCEPT ![c] = Append(@, e.n)]
                          ELSE received
    /\ UNCHANGED <<program, thread, asking, answers, answerable, calls, channelVars>>

(* Mutant: the answer is left on the list.                                 *)
AnsweredKeeping(c) ==
    /\ asking[c] # None
    /\ answerable[c] > 0
    /\ asking' = [asking EXCEPT ![c] = None]
    /\ answerable' = IF Head(answers[c]) = "eof" THEN answerable
                     ELSE [answerable EXCEPT ![c] = @ - 1]
    /\ UNCHANGED <<program, thread, reading, inputs, answers, received, calls, channelVars>>

\* The first answer is taken when it is the one asked for; an answer to another
\* question stays and the call throws, though the counter has gone down.
Answered(c) ==
    /\ asking[c] # None
    /\ answerable[c] > 0
    /\ asking' = [asking EXCEPT ![c] = None]
    /\ LET a == Head(answers[c])
       IN  /\ answers' = IF a = asking[c] THEN [answers EXCEPT ![c] = Tail(@)] ELSE answers
           /\ answerable' = IF a = "eof" THEN answerable
                            ELSE [answerable EXCEPT ![c] = @ - 1]
    /\ UNCHANGED <<program, thread, reading, inputs, received, calls, channelVars>>

(* Mutant: the counter of answers is not opened.                           *)
SortSilently(c) ==
    /\ thread[c] = "running"
    /\ toClient[c] # <<>>
    /\ Head(toClient[c]).type # "close"
    /\ toClient' = [toClient EXCEPT ![c] = Tail(@)]
    /\ LET m == Head(toClient[c])
       IN  IF m.type \in {"key", "resize"}
           THEN inputs' = [inputs EXCEPT ![c] = Append(@, m)] /\ UNCHANGED answers
           ELSE answers' = [answers EXCEPT ![c] = Append(@, m.type)] /\ UNCHANGED inputs
    /\ UNCHANGED <<program, thread, reading, asking, answerable, received, calls,
                   backlog, toHost>>

\* The input thread sorts one request of the window.
Sort(c) ==
    /\ thread[c] = "running"
    /\ toClient[c] # <<>>
    /\ Head(toClient[c]).type # "close"
    /\ toClient' = [toClient EXCEPT ![c] = Tail(@)]
    /\ LET m == Head(toClient[c])
       IN  IF m.type \in {"key", "resize"}
           THEN /\ inputs' = [inputs EXCEPT ![c] = Append(@, m)]
                /\ UNCHANGED <<answers, answerable>>
           ELSE /\ answers' = [answers EXCEPT ![c] = Append(@, m.type)]
                /\ answerable' = [answerable EXCEPT ![c] = @ + 1]
                /\ UNCHANGED inputs
    /\ UNCHANGED <<program, thread, reading, asking, received, calls, backlog, toHost>>

(* Mutant: no end of file is left for ReadEvent.                           *)
EndOfInputQuietly(c, closed) ==
    /\ thread[c] = "running"
    /\ \/ toClient[c] # <<>> /\ Head(toClient[c]).type = "close"
       \/ toClient[c] = <<>> /\ closed
    /\ thread' = [thread EXCEPT ![c] = "ended"]
    /\ answers' = [answers EXCEPT ![c] = Append(@, "eof")]
    /\ answerable' = [answerable EXCEPT ![c] = @ + 1]
    /\ UNCHANGED <<program, reading, asking, inputs, received, calls, channelVars>>

\* It ends at "close connection", or when everything sent before the window's
\* end was closed has been read, and leaves an end of file on both lists.
EndOfInput(c, closed) ==
    /\ thread[c] = "running"
    /\ \/ toClient[c] # <<>> /\ Head(toClient[c]).type = "close"
       \/ toClient[c] = <<>> /\ closed
    /\ thread' = [thread EXCEPT ![c] = "ended"]
    /\ inputs' = [inputs EXCEPT ![c] = Append(@, EndOfFile)]
    /\ answers' = [answers EXCEPT ![c] = Append(@, "eof")]
    /\ answerable' = [answerable EXCEPT ![c] = @ + 1]
    /\ UNCHANGED <<program, reading, asking, received, calls, channelVars>>

\* The destructor: the last request, then it waits for the input thread.
Close(c) ==
    /\ program[c] = "in"
    /\ ~reading[c] /\ asking[c] = None
    /\ program' = [program EXCEPT ![c] = "closing"]
    /\ SendVerb(c, "close")
    /\ UNCHANGED <<thread, reading, asking, inputs, answers, answerable, received,
                   calls, backlog, toClient>>

Closed(c) ==
    /\ program[c] = "closing"
    /\ thread[c] = "ended"
    /\ program' = [program EXCEPT ![c] = "gone"]
    /\ UNCHANGED <<thread, reading, asking, inputs, answers, answerable, received,
                   calls, channelVars>>

\* The process ends at any moment without its destructors: the window reads the
\* end of the stream, which it treats as "close connection".
Die(c) ==
    /\ program[c] = "in"
    /\ program' = [program EXCEPT ![c] = "gone"]
    /\ thread' = [thread EXCEPT ![c] = "ended"]
    /\ reading' = [reading EXCEPT ![c] = FALSE]
    /\ asking' = [asking EXCEPT ![c] = None]
    /\ SendVerb(c, "close")
    /\ UNCHANGED <<inputs, answers, answerable, received, calls, backlog, toClient>>
=============================================================================

-------------------------- MODULE ConsoleChannel --------------------------
(***************************************************************************)
(* The channels between a console window (XC) and the programs attached to *)
(* it: one local socket per program, a stream of requests each way         *)
(* (xcon/common/xc_channel.cxx, the Unix half).  A request is a verb and   *)
(* data; of the data the model keeps the number of a key.  A write never   *)
(* blocks here: each end has a thread that does nothing but read.          *)
(***************************************************************************)
EXTENDS Naturals, Sequences, SequencesExt, FiniteSets

CONSTANTS
    Clients,    \* the programs that may attach; each attaches at most once
    Kinds,      \* the questions a program may ask: caret (14), size (15), backbuffer (47)
    None

ASSUME NoneAssumption == None \notin Clients

VARIABLES
    backlog,    \* connections the listener has not accepted yet, oldest first
    toHost,     \* toHost[c]: verbs c has sent and the window's thread has not read
    toClient    \* toClient[c]: requests sent to c that its input thread has not read

channelVars == <<backlog, toHost, toClient>>

\* What a program sends: ready to accept an input (21), set IO mode (20), set
\* close on detach (31), a question, or close connection (0).  The verbs that
\* only change what the window shows are left out.
Settings == {"raw", "echo", "close on detach", "stay on detach"}
Verbs    == {"read", "close"} \cup Settings \cup Kinds

\* What a window sends: an input (22 or 23) with the number of the key, a
\* resize (24), the answer to a question (13, 16 or 48), or close connection.
Key(n)    == [type |-> "key", n |-> n]
Plain(t)  == [type |-> t, n |-> 0]
Responses == [type : {"key"}, n : Nat] \cup {Plain(t) : t \in {"resize", "close"} \cup Kinds}

ChannelTypeOK ==
    /\ backlog \in Seq(Clients)
    /\ toHost \in [Clients -> Seq(Verbs)]
    /\ toClient \in [Clients -> Seq(Responses)]

ChannelInit ==
    /\ backlog = <<>>
    /\ toHost = [c \in Clients |-> <<>>]
    /\ toClient = [c \in Clients |-> <<>>]

SendVerb(c, v)      == toHost' = [toHost EXCEPT ![c] = Append(@, v)]
SendResponse(c, m)  == toClient' = [toClient EXCEPT ![c] = Append(@, m)]

\* A request sent to every channel of a list while _sync is held.
Broadcast(cs, m) == 
    toClient' = [c \in Clients |-> IF c \in cs THEN Append(toClient[c], m) ELSE toClient[c]]
=============================================================================

-------------------------- MODULE ExtensionProtocol --------------------------
(***************************************************************************)
(* What the author of an extension of the HTTP server may count on.  On    *)
(* one connection one request is served at a time.  Its head is announced  *)
(* to the extension of its path, once, or to the handler of errors, which  *)
(* may also be announced a request an extension has, and one it has        *)
(* already, any number of times.  Whoever heard of it last is asked for    *)
(* the answer; if it throws, the handler of errors is asked in its place,  *)
(* whether or not it ever heard of the request, and even if it is the one  *)
(* that threw.  Thus an extension is announced a request and asked for its *)
(* answer at most once, the handler of errors asked at most twice; nobody  *)
(* is announced a request whose answer has been asked for, and nobody is   *)
(* called once the server is closed.                                       *)
(***************************************************************************)
EXTENDS Naturals, Sequences

CONSTANTS Connections

VARIABLES calls,   \* [Connections -> the calls made for the request so far]
          closed   \* the server is closed

evars == <<calls, closed>>

Init == /\ calls = [c \in Connections |-> <<>>]
        /\ closed = FALSE

Asked(c) == {i \in 1 .. Len(calls[c]) : calls[c][i].what = "asked"}
Latest(c) == calls[c][Len(calls[c])]

Call(c, to, what) ==
    /\ ~closed
    /\ calls' = [calls EXCEPT ![c] = Append(@, [to |-> to, what |-> what])]
    /\ UNCHANGED closed

Announce(c) == calls[c] = <<>> /\ Call(c, "extension", "announced")
AnnounceError(c) == Asked(c) = {} /\ Call(c, "errors", "announced")
Ask(c) == calls[c] # <<>> /\ Asked(c) = {} /\ Call(c, Latest(c).to, "asked")
AskInPlace(c) == Asked(c) = {Len(calls[c])} /\ Call(c, "errors", "asked")
Finish(c) == calls' = [calls EXCEPT ![c] = <<>>] /\ UNCHANGED closed
Close == closed' = TRUE /\ UNCHANGED calls

Next == \/ \E c \in Connections : \/ Announce(c) \/ AnnounceError(c)
                                  \/ Ask(c) \/ AskInPlace(c) \/ Finish(c)
        \/ Close

Spec == Init /\ [][Next]_evars
=============================================================================

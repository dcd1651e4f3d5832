---------------------------- MODULE FileService -----------------------------
(***************************************************************************)
(* What the file server promises to its clients, without descriptors,      *)
(* slots, events and buffers: requests are served one after another, each  *)
(* at most once and only when it is complete, and what the server writes   *)
(* for a request goes to the client that made it.  A request that cannot   *)
(* be served gets a status.  A file is a header and then its chunks from   *)
(* the first to the last, and nothing else is done meanwhile.  What a      *)
(* connection does not take, the whole of an item or the end of it, is     *)
(* lost and never sent again.                                              *)
(***************************************************************************)
EXTENDS Naturals, Sequences

CONSTANTS
    Clients,
    Request,    \* what a client asks for
    Chunks,     \* the chunks of the file it asks for
    None

VARIABLES
    complete,   \* the clients whose request is complete
    serving,    \* the client whose file is under way, or None
    next,       \* the chunk that is next
    stream,     \* what a client's connection has taken
    lost        \* what was written for a client and not taken whole

vars == <<complete, serving, next, stream, lost>>

Init ==
    /\ complete = {}
    /\ serving  = None
    /\ next     = 1
    /\ stream   = [c \in Clients |-> <<>>]
    /\ lost     = [c \in Clients |-> {}]

Answered(c) == stream[c] # <<>> \/ lost[c] # {}

\* A file is refused when the server cannot open it.
Refusal(k) == CASE k = "missing" -> 404
                [] k = "post"    -> 501
                [] OTHER         -> 403

\* An item for c, and for nobody else: taken whole, lost, or cut short.
Put(c, item) ==
    LET Takes == stream' = [stream EXCEPT ![c] = Append(@, item)]
        Loses == lost' = [lost EXCEPT ![c] = @ \cup {item}]
    IN  \/ Takes /\ UNCHANGED lost
        \/ Loses /\ UNCHANGED stream
        \/ Takes /\ Loses

Ask(c) ==
    /\ c \notin complete
    /\ complete' = complete \cup {c}
    /\ UNCHANGED <<serving, next, stream, lost>>

\* A request's turn comes when no file is under way, in any order.
Turn(c) == serving = None /\ c \in complete /\ ~Answered(c)

Refuse(c) ==
    /\ Turn(c)
    /\ Put(c, Refusal(Request[c]))
    /\ UNCHANGED <<complete, serving, next>>

Begin(c) ==
    /\ Turn(c) /\ Request[c] = "file"
    /\ Put(c, 200)
    /\ serving' = c
    /\ UNCHANGED <<complete, next>>

Chunk ==
    /\ serving # None /\ next <= Chunks[serving]
    /\ Put(serving, next)
    /\ next' = next + 1
    /\ UNCHANGED <<complete, serving>>

End ==
    /\ serving # None /\ next > Chunks[serving]
    /\ serving' = None
    /\ next'    = 1
    /\ UNCHANGED <<complete, stream, lost>>

Next ==
    \/ \E c \in Clients : Ask(c) \/ Refuse(c) \/ Begin(c)
    \/ Chunk \/ End

Spec == Init /\ [][Next]_vars
=============================================================================

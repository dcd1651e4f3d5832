------------------------------- MODULE Figlet -------------------------------
(***************************************************************************)
(* HW11-Network/src/convertor.c: connect to the first address that works,  *)
(* read the greeting, ask, read and print the answer.  read_msg knows no   *)
(* lengths: a message is over when the last character in the buffer is a   *)
(* full stop, and the buffer is cleared once, not before every read.       *)
(***************************************************************************)
EXTENDS Integers, Sequences

CONSTANTS
    Messages,   \* what the server may say: sequences of "x" and ".", which end
                \* with the prompt, a "."
    BufSize,    \* BUF_SIZE
    Addresses   \* how many addresses the name has

VARIABLES
    greeting, answer,   \* the server's messages
    pc,         \* "connect", "greet", "ask", "answer", "done", "failed", "killed"
    tried,      \* the addresses tried
    wire,       \* what the server has sent and the client not read
    peer,       \* the server: "none", "greeted", "answered", "gone"
    buffer,     \* of the read_msg that runs, 0 in the cells not written
    longest,    \* its longest read
    shrunk,     \* it has had a read shorter than one before
    whole,      \* every read has taken a whole message
    shown       \* printed: "nothing", the "answer" alone, or "other" text

vars == <<greeting, answer, pc, tried, wire, peer, buffer, longest, shrunk, whole, shown>>

Cleared == [k \in 1 .. BufSize |-> "0"]

Init ==
    /\ greeting \in Messages /\ answer \in Messages
    /\ pc = "connect" /\ tried = 0
    /\ wire = <<>> /\ peer = "none"
    /\ buffer = Cleared /\ longest = 0 /\ shrunk = FALSE /\ whole = TRUE
    /\ shown = "nothing"

\* print_message: the name may have no address, and each address may fail at
\* socket or connect.
Connect ==
    /\ pc = "connect"
    /\ \/ /\ tried < Addresses
          /\ tried' = tried + 1
          /\ \/ pc' = "greet" /\ peer' = "greeted" /\ wire' = greeting
             \/ UNCHANGED <<pc, peer, wire>>
       \/ /\ tried \in {0, Addresses}
          /\ pc' = "failed" /\ UNCHANGED <<tried, peer, wire>>
    /\ UNCHANGED <<greeting, answer, buffer, longest, shrunk, whole, shown>>

Strlen(b) == CHOOSE n \in 0 .. BufSize : /\ \A k \in 1 .. n : b[k] # "0"
                                         /\ n = BufSize \/ b[n + 1] = "0"

\* A slip: the character behind the last one.
LooksBehind(b) == LET n == Strlen(b) IN {n < BufSize /\ b[n + 1] = "."}

\* The test of line 26.  Of an empty buffer it looks at the byte before it, and
\* the length of a full one includes bytes behind it: either may be a stop.
AtStop(b) ==
    LET n == Strlen(b) IN IF n \in {0, BufSize} THEN BOOLEAN ELSE {b[n] = "."}

\* One turn of read_msg with the n bytes that read has brought.
Turn(n) ==
    LET b == [k \in 1 .. BufSize |-> IF k <= n THEN wire[k] ELSE buffer[k]]
    IN  /\ wire' = SubSeq(wire, n + 1, Len(wire))
        /\ whole' = (whole /\ wire = (IF pc = "greet" THEN greeting ELSE answer)
                           /\ n = Len(wire))
        /\ shown' = IF pc = "greet" THEN shown
                    ELSE IF shown = "nothing" /\ SubSeq(b, 1, Strlen(b)) = answer
                         THEN "answer" ELSE "other"
        /\ \E stop \in AtStop(b) :
              IF stop
                THEN /\ pc' = IF pc = "greet" THEN "ask" ELSE "done"
                     /\ buffer' = Cleared /\ longest' = 0 /\ shrunk' = FALSE
                ELSE /\ buffer' = b /\ longest' = IF n > longest THEN n ELSE longest
                     /\ shrunk' = (shrunk \/ n < longest) /\ UNCHANGED pc
        /\ UNCHANGED <<greeting, answer, tried, peer>>

ReadSome ==
    /\ pc \in {"greet", "answer"} /\ wire # <<>>
    /\ \E n \in 1 .. BufSize : n <= Len(wire) /\ Turn(n)

\* End of file: the loop goes on with what it has.
ReadNothing ==
    /\ pc \in {"greet", "answer"} /\ wire = <<>> /\ peer = "gone"
    /\ Turn(0)

\* If the server has gone, write raises SIGPIPE when that is known here, and is
\* lost otherwise: the first one after its FIN succeeds.
Ask ==
    /\ pc = "ask"
    /\ \/ peer = "gone" /\ pc' \in {"killed", "answer"} /\ UNCHANGED <<wire, peer>>
       \/ peer # "gone" /\ pc' = "answer" /\ wire' = wire \o answer /\ peer' = "answered"
    /\ UNCHANGED <<greeting, answer, tried, buffer, longest, shrunk, whole, shown>>

HangUp ==
    /\ peer \in {"greeted", "answered"} /\ pc \notin {"done", "killed"}
    /\ peer' = "gone"
    /\ UNCHANGED <<greeting, answer, pc, tried, wire, buffer, longest, shrunk, whole, shown>>

Next == Connect \/ ReadSome \/ ReadNothing \/ Ask \/ HangUp

Spec == Init /\ [][Next]_vars

\* A client that waits for ever, all messages read and the server waiting too,
\* has had a read shorter than one before, the end of which was still in the
\* buffer, or one that filled it; and a client whose reads take whole messages
\* prints the answer and nothing else.
FramingHolds ==
    /\ pc \in {"greet", "answer"} /\ wire = <<>> /\ peer \in {"greeted", "answered"}
          => shrunk \/ longest = BufSize
    /\ pc = "done" /\ whole => shown = "answer"
=============================================================================

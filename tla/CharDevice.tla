----------------------------- MODULE CharDevice -----------------------------
(***************************************************************************)
(* What the mouse driver promises to the programs that hold /dev/mouselog  *)
(* open: the device is a bounded FIFO queue of bytes, and every call on it *)
(* is atomic.  A write appends as long a prefix of the caller's bytes as   *)
(* fits, a read removes as many bytes as were asked for or are there, and  *)
(* neither ever waits for room or for data.  A fault on the user's memory  *)
(* ends a call early: the bytes moved before it stay moved, but the call   *)
(* reports only the error.                                                 *)
(***************************************************************************)
EXTENDS Naturals, Sequences

CONSTANTS
    Producers,  \* who appends: the writing processes and the timer callback
    Consumers,  \* who removes: the reading processes
    Kernel,     \* the producers whose bytes are in kernel memory: no fault
    Byte,       \* what a cell of the queue holds
    Capacity,   \* the most bytes the queue holds
    Fault       \* the result -EFAULT, different from every count

VARIABLES
    queue,      \* the bytes in the device, oldest first
    busy,       \* the callers inside a call
    src,        \* the bytes a producer's running call was given
    len,        \* the number of bytes a consumer's running call asks for
    out,        \* the user's buffer of a consumer's last call
    ret         \* the result of a user's last call

vars == <<queue, busy, src, len, out, ret>>

Users == (Producers \ Kernel) \cup Consumers

Smaller(a, b) == IF a < b THEN a ELSE b

Init ==
    /\ queue = <<>>
    /\ busy  = {}
    /\ src   = [p \in Producers |-> <<>>]
    /\ len   = [c \in Consumers |-> 0]
    /\ out   = [c \in Consumers |-> <<>>]
    /\ ret   = [u \in Users |-> 0]

CallWrite(p) ==
    /\ p \notin busy
    /\ busy' = busy \cup {p}
    /\ src'[p] \in Seq(Byte)
    /\ src' = [src EXCEPT ![p] = src'[p]]
    /\ UNCHANGED <<queue, len, out, ret>>

CallRead(c) ==
    /\ c \notin busy
    /\ busy' = busy \cup {c}
    /\ len'[c] \in Nat
    /\ len' = [len EXCEPT ![c] = len'[c]]
    /\ out' = [out EXCEPT ![c] = <<>>]
    /\ UNCHANGED <<queue, src, ret>>

\* The first n bytes of p's call enter the queue, and the call ends with r.
Accept(p, n, r) ==
    /\ queue' = queue \o SubSeq(src[p], 1, n)
    /\ ret'   = [u \in Users |-> IF u = p THEN r ELSE ret[u]]
    /\ busy'  = busy \ {p}
    /\ src'   = [src EXCEPT ![p] = <<>>]
    /\ UNCHANGED <<len, out>>

\* The n oldest bytes leave the queue for c's buffer, and the call ends with r.
Remove(c, n, r) ==
    /\ queue' = SubSeq(queue, n + 1, Len(queue))
    /\ out'   = [out EXCEPT ![c] = SubSeq(queue, 1, n)]
    /\ ret'   = [u \in Users |-> IF u = c THEN r ELSE ret[u]]
    /\ busy'  = busy \ {c}
    /\ len'   = [len EXCEPT ![c] = 0]
    /\ UNCHANGED src

Write(p) ==
    /\ p \in busy
    /\ LET n == Smaller(Len(src[p]), Capacity - Len(queue))
       IN  Accept(p, n, n)

Read(c) ==
    /\ c \in busy
    /\ LET n == Smaller(len[c], Len(queue))
       IN  Remove(c, n, n)

\* The driver touches the user's byte before it looks for room, so a write may
\* fault with the queue just filled, but not when all its bytes are stored.
WriteFaults(p) ==
    /\ p \in busy \ Kernel
    /\ \E n \in 0 .. Smaller(Len(src[p]), Capacity - Len(queue)) :
          n < Len(src[p]) /\ Accept(p, n, Fault)

\* A read touches the user's memory only when there is a byte to store there.
ReadFaults(c) ==
    /\ c \in busy
    /\ \E n \in 0 .. Len(queue) :
          n < Smaller(len[c], Len(queue)) /\ Remove(c, n, Fault)

Next ==
    \/ \E p \in Producers : CallWrite(p) \/ Write(p) \/ WriteFaults(p)
    \/ \E c \in Consumers : CallRead(c) \/ Read(c) \/ ReadFaults(c)

Spec == Init /\ [][Next]_vars

=============================================================================

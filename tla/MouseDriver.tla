----------------------------- MODULE MouseDriver ----------------------------
(***************************************************************************)
(* The ring buffer of HW14-driver/mouse_driv.c and the three kinds of code *)
(* that run on it at once: the timer callback that simulates the mouse,    *)
(* and the read and write handlers of the character device.  The handlers  *)
(* move one byte per step under mouse_mutex; sysfs changes display_mode at *)
(* any moment, without the mutex.                                          *)
(***************************************************************************)
EXTENDS Naturals, Sequences

CONSTANTS
    Writers, Readers,   \* the processes that have the device open
    Timer,              \* the timer callback
    Byte,               \* a character, as far as the driver tells them apart
    BufferSize,         \* DEFAULT_BUFFER_SIZE
    XLine, YLine,       \* the text of a MOUSE_X and of a MOUSE_Y event
    Data,               \* the byte strings writers pass
    Lengths,            \* the lengths readers pass
    Junk,               \* what kmalloc leaves in a cell: not a byte of anyone
    Nobody,             \* the holder of a free mutex
    Fault               \* -EFAULT

Users     == Writers \cup Readers
Producers == Writers \cup {Timer}
Callers   == Producers \cup Readers
Slots     == 0 .. BufferSize - 1

ASSUME BufferAssumption == BufferSize \in Nat \ {0}
ASSUME CallerAssumption ==
    /\ Timer \notin Writers \cup Readers
    /\ Writers \cap Readers = {}
    /\ Nobody \notin Callers
ASSUME DataAssumption ==
    /\ XLine \in Seq(Byte) /\ YLine \in Seq(Byte)
    /\ Data \subseteq Seq(Byte)
    /\ Lengths \subseteq Nat
    /\ Junk \notin Byte
    /\ Fault \notin Nat

VARIABLES
    buf, head, tail,    \* mouse_buffer and its two cursors
    mutex,              \* mouse_mutex: its holder or Nobody
    mode,               \* display_mode; 2 stands for every other number too
    pc,                 \* where a caller is: "idle", "lock" or "loop"
    src,                \* the bytes of a producer's call (event_str or buf)
    len,                \* the len of a read
    moved,              \* the loop variable i or copied
    out,                \* the user's buffer of a reader
    ret                 \* the result of a user's last call

ring == <<buf, head, tail>>
vars == <<buf, head, tail, mutex, mode, pc, src, len, moved, out, ret>>

Succ(i)  == (i + 1) % BufferSize
BufEmpty == head = tail
BufFull  == Succ(head) = tail

\* The text the callback formats for the mode it has read.
Event(m) == CASE m = 0 -> XLine
              [] m = 1 -> YLine
              [] OTHER -> XLine \o YLine

Init ==
    /\ buf   = [i \in Slots |-> Junk]
    /\ head  = 0
    /\ tail  = 0
    /\ mutex = Nobody
    /\ mode  = 0
    /\ pc    = [p \in Callers |-> "idle"]
    /\ src   = [p \in Producers |-> <<>>]
    /\ len   = [r \in Readers |-> 0]
    /\ moved = [p \in Callers |-> 0]
    /\ out   = [r \in Readers |-> <<>>]
    /\ ret   = [u \in Users |-> 0]

-----------------------------------------------------------------------------
(* Entering a handler, up to mutex_lock, and leaving it.                   *)

Enter(p) ==
    /\ pc[p] = "idle"
    /\ pc' = [pc EXCEPT ![p] = "lock"]
    /\ UNCHANGED <<buf, head, tail, mutex, mode, moved, ret>>

\* The timer is armed exactly when the callback is not running: mod_timer is
\* its last call, so two callbacks never overlap.  display_mode is read here,
\* once, before the mutex is taken.
TimerFires ==
    /\ Enter(Timer)
    /\ src' = [src EXCEPT ![Timer] = Event(mode)]
    /\ UNCHANGED <<len, out>>

CallWrite(w) ==
    /\ Enter(w)
    /\ \E d \in Data : src' = [src EXCEPT ![w] = d]
    /\ UNCHANGED <<len, out>>

CallRead(r) ==
    /\ Enter(r)
    /\ \E n \in Lengths : len' = [len EXCEPT ![r] = n]
    /\ out' = [out EXCEPT ![r] = <<>>]
    /\ UNCHANGED src

Lock(p) ==
    /\ pc[p] = "lock"
    /\ mutex = Nobody
    /\ mutex' = p
    /\ pc'    = [pc EXCEPT ![p] = "loop"]
    /\ UNCHANGED <<buf, head, tail, mode, src, len, moved, out, ret>>

\* mutex_unlock and the return of r, with which the arguments and the local
\* variables of the call are gone.  The callback returns nothing and calls
\* mod_timer.
Leave(p, r) ==
    /\ mutex' = Nobody
    /\ pc'    = [pc EXCEPT ![p] = "idle"]
    /\ moved' = [moved EXCEPT ![p] = 0]
    /\ ret'   = [u \in Users |-> IF u = p THEN r ELSE ret[u]]
    /\ UNCHANGED <<buf, head, tail, mode, out>>

LeaveWrite(p, r) ==
    /\ Leave(p, r)
    /\ src' = [src EXCEPT ![p] = <<>>]
    /\ UNCHANGED len

LeaveRead(p, r) ==
    /\ Leave(p, r)
    /\ len' = [len EXCEPT ![p] = 0]
    /\ UNCHANGED src

-----------------------------------------------------------------------------
(* The loops, one iteration per step.                                      *)

MoreToWrite(p) == moved[p] < Len(src[p])
MoreToRead(r)  == moved[r] < len[r] /\ ~BufEmpty

StoreByte(p) ==
    /\ pc[p] = "loop"
    /\ MoreToWrite(p) /\ ~BufFull
    /\ buf'   = [buf EXCEPT ![head] = src[p][moved[p] + 1]]
    /\ head'  = Succ(head)
    /\ moved' = [moved EXCEPT ![p] = @ + 1]
    /\ UNCHANGED <<tail, mutex, mode, pc, src, len, out, ret>>

\* Slips: a write that reports what it was asked for and not what it stored,
\* and one that waits for room with the mutex held.
ReportsAll(p) ==
    /\ pc[p] = "loop"
    /\ ~MoreToWrite(p) \/ BufFull
    /\ LeaveWrite(p, Len(src[p]))
WaitsForRoom(p) ==
    /\ pc[p] = "loop"
    /\ ~MoreToWrite(p)
    /\ LeaveWrite(p, moved[p])

WriteReturns(p) ==
    /\ pc[p] = "loop"
    /\ ~MoreToWrite(p) \/ BufFull
    /\ LeaveWrite(p, moved[p])

\* copy_from_user comes before the test for room; the callback has none.
WriteFaults(w) ==
    /\ pc[w] = "loop"
    /\ MoreToWrite(w)
    /\ LeaveWrite(w, Fault)

ReadByte(r) ==
    /\ pc[r] = "loop"
    /\ MoreToRead(r)
    /\ out'   = [out EXCEPT ![r] = Append(@, buf[tail])]
    /\ tail'  = Succ(tail)
    /\ moved' = [moved EXCEPT ![r] = @ + 1]
    /\ UNCHANGED <<buf, head, mutex, mode, pc, src, len, ret>>

ReadReturns(r) ==
    /\ pc[r] = "loop"
    /\ ~MoreToRead(r)
    /\ LeaveRead(r, moved[r])

ReadFaults(r) ==
    /\ pc[r] = "loop"
    /\ MoreToRead(r)
    /\ LeaveRead(r, Fault)

\* mode_store accepts 0, 1 and 2 only, but the module parameter of the same
\* name is writable too and takes any number: the switch takes those for 2.
ChangeMode ==
    /\ \E m \in 0 .. 2 : mode' = m
    /\ UNCHANGED <<buf, head, tail, mutex, pc, src, len, moved, out, ret>>

Next ==
    \/ TimerFires
    \/ \E p \in Callers : Lock(p)
    \/ \E p \in Producers : StoreByte(p) \/ WriteReturns(p)
    \/ \E w \in Writers : CallWrite(w) \/ WriteFaults(w)
    \/ \E r \in Readers : CallRead(r) \/ ReadByte(r)
                            \/ ReadReturns(r) \/ ReadFaults(r)
    \/ ChangeMode

Spec == Init /\ [][Next]_vars

\* The callback has come to a mutex that a process holds.  It runs in a softirq,
\* where it may not sleep, and the holder may be the very process that it has
\* interrupted: nothing makes either of them go on.
Caught == pc[Timer] = "lock" /\ mutex # Nobody

\* A kernel mutex hands itself over to a process that has waited too long, so that
\* taking it is strongly fair for the processes; the callback only takes one that
\* stays free.  Inside the loop the handler simply runs on.
Fairness ==
    /\ \A u \in Users : SF_vars(Lock(u))
    /\ WF_vars(Lock(Timer))
    /\ \A p \in Producers : /\ WF_vars(~Caught /\ StoreByte(p))
                            /\ WF_vars(~Caught /\ WriteReturns(p))
    /\ \A r \in Readers : /\ WF_vars(~Caught /\ ReadByte(r))
                          /\ WF_vars(~Caught /\ ReadReturns(r))

FairSpec == Spec /\ Fairness

-----------------------------------------------------------------------------
(* Properties.                                                             *)

TypeOK ==
    /\ buf   \in [Slots -> Byte \cup {Junk}]
    /\ head  \in Slots
    /\ tail  \in Slots
    /\ mutex \in Callers \cup {Nobody}
    /\ mode  \in 0 .. 2
    /\ pc    \in [Callers -> {"idle", "lock", "loop"}]
    /\ src   \in [Producers -> Seq(Byte)]
    /\ len   \in [Readers -> Nat]
    /\ moved \in [Callers -> Nat]
    /\ out   \in [Readers -> Seq(Byte \cup {Junk})]
    /\ ret   \in [Users -> Nat \cup {Fault}]

\* How many bytes lie between the cursors, and those bytes, oldest first.
Count    == IF tail <= head THEN head - tail ELSE BufferSize - tail + head
Contents == [i \in 1 .. Count |-> buf[(tail + i - 1) % BufferSize]]

\* The mutex does its work: whoever is in a loop holds it, so no two callers
\* are ever in the loops of simulate_mouse_data, mouse_read and mouse_write.
MutexInv == \A p \in Callers : pc[p] = "loop" <=> mutex = p

\* Every cell a reader may reach has been written since kmalloc: the reader of
\* mouse_read never sees what the allocation left in the buffer.
NoJunk == /\ Contents \in Seq(Byte)
          /\ out \in [Readers -> Seq(Byte)]

\* What a call in progress has done so far.  Before its loop it has moved
\* nothing; in its loop the youngest bytes of the buffer are the ones a writer
\* has stored, and a reader has received exactly the bytes it has counted.
CallInv ==
    /\ \A p \in Producers :
          /\ pc[p] = "idle" => src[p] = <<>>
          /\ pc[p] # "loop" => moved[p] = 0
          /\ moved[p] <= Len(src[p]) /\ moved[p] <= Count
          /\ \A i \in 1 .. moved[p] :
                Contents[Count - moved[p] + i] = src[p][i]
    /\ \A r \in Readers :
          /\ pc[r] = "idle" => len[r] = 0
          /\ pc[r] # "loop" => moved[r] = 0
          /\ pc[r] # "idle" => Len(out[r]) = moved[r]
          /\ moved[r] <= len[r]

\* The handlers implement the atomic device: seen from its callers, a call
\* moves all its bytes at once, at mutex_unlock.  Until then the bytes a
\* writer has stored are not yet in the queue, and the bytes a reader has
\* taken are still in it.
Queue ==
    IF mutex \in Readers THEN out[mutex] \o Contents
    ELSE IF mutex \in Producers THEN SubSeq(Contents, 1, Count - moved[mutex])
    ELSE Contents

Device == INSTANCE CharDevice WITH
    Consumers <- Readers,
    Kernel    <- {Timer},
    Capacity  <- BufferSize - 1,
    queue     <- Queue,
    busy      <- {p \in Callers : pc[p] # "idle"},
    out       <- [r \in Readers |-> IF mutex = r THEN <<>> ELSE out[r]]

AtomicCalls == Device!Spec

\* Every read, write and callback returns, even with the buffer full or empty,
\* unless the callback is caught: nothing else in the driver waits, neither for
\* room nor for data.
CallsReturn == \A p \in Callers : pc[p] = "lock" ~> pc[p] = "idle" \/ Caught

=============================================================================

------------------------- MODULE MouseDriver_proofs -------------------------
(* Proofs about MouseDriver, for every buffer size and any set of callers. *)
EXTENDS MouseDriver, SequenceTheorems, TLAPS

USE BufferAssumption

-----------------------------------------------------------------------------
(* Arithmetic of the cursors.                                              *)

\* Taking a cursor modulo the buffer size, up to one turn ahead, subtracts
\* the size once at most.
LEMMA ModOneTurn ==
    \A i \in 0 .. 2 * BufferSize - 1 :
        i % BufferSize = IF i < BufferSize THEN i ELSE i - BufferSize
  OBVIOUS

\* A cursor moves to the next cell, and from the last cell to the first.
LEMMA SuccOfSlot ==
    ASSUME NEW i \in Slots
    PROVE  /\ Succ(i) = IF i = BufferSize - 1 THEN 0 ELSE i + 1
           /\ Succ(i) \in Slots
  BY ModOneTurn DEF Succ, Slots

\* The text of an event is a string of bytes in every mode.
LEMMA EventIsText == \A m \in 0 .. 2 : Event(m) \in Seq(Byte)
  BY DataAssumption DEF Event

-----------------------------------------------------------------------------
(* Types and the mutex.                                                    *)

\* Every variable keeps its type: in particular the cursors stay inside the
\* buffer, so StoreByte and ReadByte never leave mouse_buffer.
THEOREM TypeCorrect == Spec => []TypeOK
<1>1. Init => TypeOK
  BY DataAssumption, CallerAssumption
     DEF Init, TypeOK, Slots, Callers, Producers, Users
<1>2. TypeOK /\ [Next]_vars => TypeOK'
  <2> SUFFICES ASSUME TypeOK, [Next]_vars PROVE TypeOK'
    OBVIOUS
  <2> USE CallerAssumption, DataAssumption DEF TypeOK, Callers, Producers
  <2>1. CASE TimerFires
    BY <2>1, EventIsText DEF TimerFires, Enter
  <2>2. ASSUME NEW p \in Callers, Lock(p) PROVE TypeOK'
    BY <2>2 DEF Lock
  <2>3. ASSUME NEW p \in Producers, StoreByte(p) PROVE TypeOK'
    <3>1. src[p][moved[p] + 1] \in Byte
      BY <2>3 DEF StoreByte, MoreToWrite
    <3>2. Succ(head) \in Slots
      BY SuccOfSlot
    <3>3. QED
      BY <2>3, <3>1, <3>2 DEF StoreByte
  <2>4. ASSUME NEW p \in Producers, WriteReturns(p) PROVE TypeOK'
    BY <2>4 DEF WriteReturns, LeaveWrite, Leave, Users
  <2>5. ASSUME NEW w \in Writers, CallWrite(w) PROVE TypeOK'
    BY <2>5 DEF CallWrite, Enter
  <2>6. ASSUME NEW w \in Writers, WriteFaults(w) PROVE TypeOK'
    BY <2>6 DEF WriteFaults, LeaveWrite, Leave, Users
  <2>7. ASSUME NEW r \in Readers, CallRead(r) PROVE TypeOK'
    BY <2>7 DEF CallRead, Enter
  <2>8. ASSUME NEW r \in Readers, ReadByte(r) PROVE TypeOK'
    <3>1. Append(out[r], buf[tail]) \in Seq(Byte \cup {Junk})
      OBVIOUS
    <3>2. Succ(tail) \in Slots
      BY SuccOfSlot
    <3>3. out' \in [Readers -> Seq(Byte \cup {Junk})] /\ moved' \in [Callers -> Nat]
      BY <2>8, <3>1 DEF ReadByte
    <3>4. QED
      BY <2>8, <3>2, <3>3 DEF ReadByte
  <2>9. ASSUME NEW r \in Readers, ReadReturns(r) PROVE TypeOK'
    BY <2>9 DEF ReadReturns, LeaveRead, Leave, Users
  <2>10. ASSUME NEW r \in Readers, ReadFaults(r) PROVE TypeOK'
    BY <2>10 DEF ReadFaults, LeaveRead, Leave, Users
  <2>11. CASE ChangeMode
    BY <2>11 DEF ChangeMode
  <2>12. CASE UNCHANGED vars
    BY <2>12 DEF vars
  <2>13. QED
    BY <2>1, <2>2, <2>3, <2>4, <2>5, <2>6, <2>7, <2>8, <2>9, <2>10, <2>11,
       <2>12 DEF Next
<1>3. QED
  BY <1>1, <1>2, PTL DEF Spec

\* Only the holder of mouse_mutex is in a loop, and it holds it there.
THEOREM MutexHeldInLoops == Spec => []MutexInv
<1>1. Init => MutexInv
  BY CallerAssumption DEF Init, MutexInv
<1>2. TypeOK /\ MutexInv /\ [Next]_vars => MutexInv'
  <2> SUFFICES ASSUME TypeOK, MutexInv, [Next]_vars PROVE MutexInv'
    OBVIOUS
  <2> USE CallerAssumption DEF TypeOK, MutexInv
  <2>1. ASSUME NEW p \in Callers, Enter(p) PROVE MutexInv'
    BY <2>1 DEF Enter
  <2>2. ASSUME NEW p \in Callers, Lock(p) PROVE MutexInv'
    BY <2>2 DEF Lock
  <2>3. ASSUME NEW p \in Callers, pc[p] = "loop", NEW r, Leave(p, r)
        PROVE  MutexInv'
    BY <2>3 DEF Leave
  <2>4. ASSUME UNCHANGED <<mutex, pc>> PROVE MutexInv'
    BY <2>4
  <2>5. QED
    BY <2>1, <2>2, <2>3, <2>4
       DEF Next, vars, TimerFires, CallWrite, CallRead, StoreByte,
           WriteReturns, WriteFaults, LeaveWrite, ReadByte, ReadReturns,
           ReadFaults, LeaveRead, ChangeMode, Callers, Producers
<1>3. QED
  BY <1>1, <1>2, TypeCorrect, PTL DEF Spec

-----------------------------------------------------------------------------
(* The ring as a sequence.                                                 *)

\* The cell of the i-th oldest byte.
Cell(i) == (tail + i - 1) % BufferSize

\* The bytes between the cursors are never more than BufferSize - 1, and the
\* tests of the code say exactly whether they are none or that many.
LEMMA CountBounds ==
    ASSUME TypeOK
    PROVE  /\ Count \in 0 .. BufferSize - 1
           /\ BufEmpty <=> Count = 0
           /\ BufFull <=> Count = BufferSize - 1
           /\ Len(Contents) = Count
  <1>1. head \in 0 .. BufferSize - 1 /\ tail \in 0 .. BufferSize - 1
    BY DEF TypeOK, Slots
  <1>2. Succ(head) = IF head = BufferSize - 1 THEN 0 ELSE head + 1
    BY SuccOfSlot DEF TypeOK
  <1>3. Count \in 0 .. BufferSize - 1
    BY <1>1 DEF Count
  <1>4. BufEmpty <=> Count = 0
    BY <1>1 DEF Count, BufEmpty
  <1>5. BufFull <=> Count = BufferSize - 1
    BY <1>1, <1>2 DEF Count, BufFull
  <1>6. Len(Contents) = Count
    BY <1>3 DEF Contents
  <1>7. QED
    BY <1>3, <1>4, <1>5, <1>6

\* The cells in use are distinct slots, and head is none of them.
LEMMA CellsInUse ==
    ASSUME TypeOK, NEW i \in 1 .. Count
    PROVE  /\ Cell(i) \in Slots
           /\ Cell(i) # head
           /\ Contents[i] = buf[Cell(i)]
  <1>1. head \in 0 .. BufferSize - 1 /\ tail \in 0 .. BufferSize - 1
    BY DEF TypeOK, Slots
  <1>2. i \in 1 .. BufferSize - 1
    BY CountBounds
  <1>3. tail + i - 1 \in 0 .. 2 * BufferSize - 1
    BY <1>1, <1>2
  <1>4. Cell(i) = IF tail + i - 1 < BufferSize
                    THEN tail + i - 1 ELSE tail + i - 1 - BufferSize
    BY <1>1, <1>2, <1>3 DEF Cell
  <1>5. Cell(i) \in Slots
    BY <1>1, <1>2, <1>4 DEF Slots
  <1>6. Cell(i) # head
    BY <1>1, <1>2, <1>4 DEF Count
  <1>7. Contents[i] = buf[Cell(i)]
    BY DEF Contents, Cell
  <1>8. QED
    BY <1>5, <1>6, <1>7

\* StoreByte appends the caller's next byte to the contents.
LEMMA StoreAppends ==
    ASSUME TypeOK, NEW p \in Producers, StoreByte(p)
    PROVE  /\ Count' = Count + 1
           /\ \A i \in 1 .. Count : Contents'[i] = Contents[i]
           /\ Contents'[Count + 1] = src[p][moved[p] + 1]
  <1>1. head \in 0 .. BufferSize - 1 /\ tail \in 0 .. BufferSize - 1
    BY DEF TypeOK, Slots
  <1>2. /\ Count \in 0 .. BufferSize - 1 /\ Count # BufferSize - 1
        /\ tail' = tail /\ head' = Succ(head)
        /\ buf' = [buf EXCEPT ![head] = src[p][moved[p] + 1]]
    BY CountBounds DEF StoreByte
  <1>3. Count' = Count + 1
    <2>1. head' = IF head = BufferSize - 1 THEN 0 ELSE head + 1
      BY <1>2, SuccOfSlot DEF TypeOK
    <2>2. QED
      BY <1>1, <1>2, <2>1 DEF Count
  <1>4. ASSUME NEW i \in 1 .. Count PROVE Contents'[i] = Contents[i]
    <2>1. Contents'[i] = buf'[Cell(i)]
      BY <1>2, <1>3 DEF Contents, Cell
    <2>2. buf'[Cell(i)] = buf[Cell(i)]
      BY <1>2, CellsInUse DEF TypeOK
    <2>3. QED
      BY <2>1, <2>2, CellsInUse
  <1>5. Contents'[Count + 1] = src[p][moved[p] + 1]
    <2>1. (tail + Count) % BufferSize = head
      <3>1. tail + Count \in 0 .. 2 * BufferSize - 1
        BY <1>1, <1>2
      <3>2. (tail + Count) % BufferSize =
               IF tail + Count < BufferSize
                 THEN tail + Count ELSE tail + Count - BufferSize
        BY <1>1, <1>2, <3>1
      <3>3. QED
        BY <1>1, <3>2 DEF Count
    <2>2. Contents'[Count + 1] = buf'[(tail + (Count + 1) - 1) % BufferSize]
      BY <1>2, <1>3 DEF Contents
    <2>3. tail + (Count + 1) - 1 = tail + Count
      BY <1>1, <1>2
    <2>4. QED
      BY <1>2, <2>1, <2>2, <2>3 DEF TypeOK
  <1>6. QED
    BY <1>3, <1>4, <1>5

\* ReadByte takes the oldest byte off the contents.
LEMMA ReadTakes ==
    ASSUME TypeOK, NEW r \in Readers, ReadByte(r)
    PROVE  /\ Count \in 1 .. BufferSize - 1 /\ Count' = Count - 1
           /\ Contents[1] = buf[tail]
           /\ \A i \in 1 .. Count' : Contents'[i] = Contents[i + 1]
  <1>1. head \in 0 .. BufferSize - 1 /\ tail \in 0 .. BufferSize - 1
    BY DEF TypeOK, Slots
  <1>2. /\ Count \in 1 .. BufferSize - 1
        /\ head' = head /\ tail' = Succ(tail) /\ buf' = buf
    BY CountBounds DEF ReadByte, MoreToRead
  <1>3. tail' = IF tail = BufferSize - 1 THEN 0 ELSE tail + 1
    BY <1>2, SuccOfSlot DEF TypeOK
  <1>4. Count' = Count - 1
    BY <1>1, <1>2, <1>3 DEF Count
  <1>5. Contents[1] = buf[tail]
    <2>1. tail + 1 - 1 = tail /\ tail \in 0 .. 2 * BufferSize - 1
      BY <1>1
    <2>2. Cell(1) = tail
      BY <1>1, <2>1, ModOneTurn DEF Cell
    <2>3. QED
      BY <1>2, <2>2, CellsInUse
  <1>6. ASSUME NEW i \in 1 .. Count' PROVE Contents'[i] = Contents[i + 1]
    <2>1. i \in 1 .. Count - 1 /\ i + 1 \in 1 .. Count
      BY <1>2, <1>4
    <2>2. Contents'[i] = buf[(tail' + i - 1) % BufferSize]
      BY <1>2 DEF Contents
    <2>3. (tail' + i - 1) % BufferSize = Cell(i + 1)
      <3>1. /\ tail' + i - 1 \in 0 .. 2 * BufferSize - 1
            /\ tail + (i + 1) - 1 \in 0 .. 2 * BufferSize - 1
        BY <1>1, <1>2, <1>3, <2>1
      <3>2. (tail' + i - 1) % BufferSize =
               IF tail' + i - 1 < BufferSize
                 THEN tail' + i - 1 ELSE tail' + i - 1 - BufferSize
        BY <1>1, <1>2, <1>3, <2>1, <3>1
      <3>3. Cell(i + 1) =
               IF tail + (i + 1) - 1 < BufferSize
                 THEN tail + (i + 1) - 1 ELSE tail + (i + 1) - 1 - BufferSize
        BY <1>1, <1>2, <2>1, <3>1 DEF Cell
      <3>4. QED
        BY <1>1, <1>2, <1>3, <2>1, <3>2, <3>3
    <2>4. QED
      BY <2>1, <2>2, <2>3, CellsInUse
  <1>7. QED
    BY <1>2, <1>4, <1>5, <1>6

\* The contents are a sequence of bytes and of junk.
LEMMA ContentsSeq ==
    ASSUME TypeOK
    PROVE  Contents \in Seq(Byte \cup {Junk})
  <1>1. \A i \in 1 .. Count : buf[Cell(i)] \in Byte \cup {Junk}
    BY CellsInUse DEF TypeOK
  <1>2. Contents \in [1 .. Count -> Byte \cup {Junk}]
    BY <1>1 DEF Contents, Cell
  <1>3. QED
    BY <1>2, CountBounds, SeqDef

\* A step that leaves the ring alone leaves the contents alone.
LEMMA ContentsUnchanged ==
    ASSUME UNCHANGED ring
    PROVE  Contents' = Contents /\ Count' = Count
  BY DEF ring, Contents, Count

-----------------------------------------------------------------------------
(* What a reader may see.                                                  *)

\* No cell is read before it has been written since kmalloc, whatever the
\* size of the buffer and however often the cursors have gone round.
THEOREM ReadersNeverSeeJunk == Spec => []NoJunk
<1>1. Init => NoJunk
  <2> SUFFICES ASSUME Init PROVE NoJunk
    OBVIOUS
  <2>1. Count = 0
    BY DEF Init, Count
  <2>2. Contents = <<>>
    BY <2>1 DEF Contents
  <2>3. QED
    BY <2>2 DEF Init, NoJunk
<1>2. TypeOK /\ TypeOK' /\ NoJunk /\ [Next]_vars => NoJunk'
  <2> SUFFICES ASSUME TypeOK, TypeOK', NoJunk, [Next]_vars PROVE NoJunk'
    OBVIOUS
  <2>1. Contents \in Seq(Byte) /\ out \in [Readers -> Seq(Byte)]
    BY DEF NoJunk
  <2>2. \A i \in 1 .. Count : Contents[i] \in Byte
    BY <2>1, CountBounds
  <2>3. ASSUME UNCHANGED ring, UNCHANGED out PROVE NoJunk'
    BY <2>1, <2>3, ContentsUnchanged DEF NoJunk
  <2>4. ASSUME NEW p \in Producers, StoreByte(p) PROVE NoJunk'
    <3>1. src[p][moved[p] + 1] \in Byte
      BY <2>4 DEF StoreByte, MoreToWrite, TypeOK, Callers
    <3>2. Count' = Count + 1
      BY <2>4, StoreAppends
    <3>3. \A i \in 1 .. Count' : Contents'[i] \in Byte
      BY <2>2, <2>4, <3>1, <3>2, StoreAppends, CountBounds
    <3>4. Contents' \in Seq(Byte)
      <4>1. Contents' \in [1 .. Count' -> Byte]
        BY <3>3 DEF Contents
      <4>2. Count' \in Nat
        BY <3>2, CountBounds
      <4>3. QED
        BY <4>1, <4>2, SeqDef
    <3>5. QED
      BY <2>1, <2>4, <3>4 DEF StoreByte, NoJunk
  <2>5. ASSUME NEW r \in Readers, ReadByte(r) PROVE NoJunk'
    <3>1. /\ Count \in 1 .. BufferSize - 1 /\ Count' = Count - 1
          /\ Contents[1] = buf[tail]
          /\ \A i \in 1 .. Count' : Contents'[i] = Contents[i + 1]
      BY <2>5, ReadTakes
    <3>2. \A i \in 1 .. Count' : Contents'[i] \in Byte
      BY <2>2, <3>1
    <3>3. Contents' \in Seq(Byte)
      <4>1. Contents' \in [1 .. Count' -> Byte]
        BY <3>2 DEF Contents
      <4>2. Count' \in Nat
        BY <3>1
      <4>3. QED
        BY <4>1, <4>2, SeqDef
    <3>4. buf[tail] \in Byte
      BY <2>2, <3>1
    <3>5. out' \in [Readers -> Seq(Byte)]
      BY <2>1, <2>5, <3>4, AppendProperties DEF ReadByte
    <3>6. QED
      BY <3>3, <3>5 DEF NoJunk
  <2>6. ASSUME NEW r \in Readers, CallRead(r) PROVE NoJunk'
    <3>1. out' \in [Readers -> Seq(Byte)]
      BY <2>1, <2>6 DEF CallRead
    <3>2. UNCHANGED ring
      BY <2>6 DEF CallRead, Enter, ring
    <3>3. QED
      BY <2>1, <3>1, <3>2, ContentsUnchanged DEF NoJunk
  <2>7. QED
    BY <2>3, <2>4, <2>5, <2>6
       DEF Next, vars, ring, TimerFires, CallWrite, Enter, Lock, Leave,
           WriteReturns, WriteFaults, LeaveWrite, ReadReturns, ReadFaults,
           LeaveRead, ChangeMode
<1>3. QED
  BY <1>1, <1>2, TypeCorrect, PTL DEF Spec

-----------------------------------------------------------------------------
(* The ring buffer implements the atomic device of CharDevice, for every   *)
(* buffer size and any set of callers.                                     *)

USE CallerAssumption

-----------------------------------------------------------------------------
(* The calls in progress.                                                  *)

\* CallInv is what the refinement rests on, and is inductive with the types
\* and the mutex: while one caller is in its loop nobody else touches the ring.
THEOREM CallsTrackTheRing == Spec => []CallInv
<1>1. Init => CallInv
  BY DEF Init, CallInv, Callers, Producers, Count
<1>2. TypeOK /\ TypeOK' /\ MutexInv /\ CallInv /\ [Next]_vars => CallInv'
  <2> SUFFICES ASSUME TypeOK, TypeOK', MutexInv, CallInv, [Next]_vars
               PROVE  CallInv'
    OBVIOUS
  <2> DEFINE
        PInv(p) == /\ pc[p] = "idle" => src[p] = <<>>
                   /\ pc[p] # "loop" => moved[p] = 0
                   /\ moved[p] <= Len(src[p]) /\ moved[p] <= Count
                   /\ \A i \in 1 .. moved[p] :
                         Contents[Count - moved[p] + i] = src[p][i]
        RInv(r) == /\ pc[r] = "idle" => len[r] = 0
                   /\ pc[r] # "loop" => moved[r] = 0
                   /\ pc[r] # "idle" => Len(out[r]) = moved[r]
                   /\ moved[r] <= len[r]
  <2>1. /\ \A p \in Producers : PInv(p)
        /\ \A r \in Readers : RInv(r)
    BY DEF CallInv
  <2>3. Count \in Nat /\ Count' \in Nat
    <3>1. /\ head \in 0 .. BufferSize - 1 /\ tail \in 0 .. BufferSize - 1
          /\ head' \in 0 .. BufferSize - 1 /\ tail' \in 0 .. BufferSize - 1
      BY DEF TypeOK, Slots
    <3>2. Count \in Nat
      BY CountBounds
    <3>3. \A h, t \in 0 .. BufferSize - 1 :
             (IF t <= h THEN h - t ELSE BufferSize - t + h) \in Nat
      OBVIOUS
    <3>4. Count' \in Nat
      BY <3>1, <3>3 DEF Count
    <3>5. QED
      BY <3>2, <3>4
  <2>4. ASSUME UNCHANGED ring,
               \A p \in Producers :
                  \/ UNCHANGED <<pc[p], src[p], moved[p]>>
                  \/ /\ moved'[p] = 0 /\ src'[p] \in Seq(Byte)
                     /\ pc'[p] = "idle" => src'[p] = <<>>
        PROVE  \A p \in Producers : PInv(p)'
    <3> SUFFICES ASSUME NEW p \in Producers PROVE PInv(p)'
      OBVIOUS
    <3>1. Contents' = Contents /\ Count' = Count
      BY <2>4, ContentsUnchanged
    <3>2. CASE UNCHANGED <<pc[p], src[p], moved[p]>>
      BY <2>1, <3>1, <3>2
    <3>3. CASE /\ moved'[p] = 0 /\ src'[p] \in Seq(Byte)
               /\ pc'[p] = "idle" => src'[p] = <<>>
      BY <2>3, <3>1, <3>3
    <3>4. QED
      BY <2>4, <3>2, <3>3
  <2>5. ASSUME NEW p \in Callers, Enter(p),
               \A q \in Producers \ {p} : src'[q] = src[q],
               \A r \in Readers \ {p} : len'[r] = len[r] /\ out'[r] = out[r],
               p \in Readers => len'[p] \in Nat /\ out'[p] = <<>>
        PROVE  CallInv'
    <3>1. \A q \in Producers : PInv(q)'
      <4>1. UNCHANGED ring
        BY <2>5 DEF Enter, ring
      <4>2. \A q \in Producers : src'[q] \in Seq(Byte)
        BY DEF TypeOK
      <4>3. QED
        BY <2>1, <2>4, <2>5, <4>1, <4>2 DEF Enter, TypeOK, Callers
    <3>2. \A r \in Readers : RInv(r)'
      BY <2>1, <2>5 DEF Enter, TypeOK, Callers
    <3>3. QED
      BY <3>1, <3>2 DEF CallInv
  <2>6. ASSUME NEW p \in Callers, Lock(p) PROVE CallInv'
    <3>1. \A q \in Producers : PInv(q)'
      <4>1. UNCHANGED ring /\ UNCHANGED src /\ UNCHANGED moved
        BY <2>6 DEF Lock, ring
      <4>2. Contents' = Contents /\ Count' = Count
        BY <4>1, ContentsUnchanged
      <4>3. QED
        BY <2>1, <2>6, <4>1, <4>2 DEF Lock, TypeOK, Callers
    <3>2. \A r \in Readers : RInv(r)'
      BY <2>1, <2>6 DEF Lock, TypeOK, Callers
    <3>3. QED
      BY <3>1, <3>2 DEF CallInv
  <2>7. ASSUME NEW p \in Producers, StoreByte(p) PROVE CallInv'
    <3>1. \A q \in Producers : q # p => moved[q] = 0 /\ pc[q] # "loop"
      BY <2>1, <2>7 DEF StoreByte, MutexInv, Callers
    <3>2. /\ Count' = Count + 1
          /\ \A i \in 1 .. Count : Contents'[i] = Contents[i]
          /\ Contents'[Count + 1] = src[p][moved[p] + 1]
      BY <2>7, StoreAppends
    <3>3. \A q \in Producers : q # p => PInv(q)'
      BY <2>1, <2>3, <2>7, <3>1, <3>2 DEF StoreByte, TypeOK, Callers
    <3>4. PInv(p)'
      <4>1. moved[p] \in Nat /\ moved'[p] = moved[p] + 1
        BY <2>7 DEF StoreByte, TypeOK, Callers
      <4>2. src'[p] = src[p] /\ pc'[p] = "loop" /\ moved'[p] <= Len(src[p])
        BY <2>7, <4>1 DEF StoreByte, MoreToWrite, TypeOK, Callers
      <4>3. moved'[p] <= Count'
        BY <2>1, <2>3, <3>2, <4>1
      <4>4. ASSUME NEW i \in 1 .. moved'[p]
            PROVE  Contents'[Count' - moved'[p] + i] = src'[p][i]
        <5>1. Count' - moved'[p] + i = Count - moved[p] + i
          BY <2>3, <3>2, <4>1
        <5>2. CASE i \in 1 .. moved[p]
          <6>1. Count - moved[p] + i \in 1 .. Count
            BY <2>1, <2>3, <4>1, <5>2
          <6>2. Contents[Count - moved[p] + i] = src[p][i]
            BY <2>1, <5>2
          <6>3. QED
            BY <3>2, <4>2, <5>1, <6>1, <6>2
        <5>3. CASE i = moved[p] + 1
          <6>1. Count - moved[p] + i = Count + 1
            BY <2>3, <4>1, <5>3
          <6>2. QED
            BY <3>2, <4>2, <5>1, <5>3, <6>1
        <5>4. QED
          BY <4>1, <5>2, <5>3
      <4>5. QED
        BY <4>2, <4>3, <4>4
    <3>5. \A r \in Readers : RInv(r)'
      BY <2>1, <2>7 DEF StoreByte, TypeOK, Callers, Producers
    <3>6. QED
      BY <3>3, <3>4, <3>5 DEF CallInv
  <2>8. ASSUME NEW r \in Readers, ReadByte(r) PROVE CallInv'
    <3>1. \A p \in Producers : moved[p] = 0 /\ pc[p] # "loop"
      BY <2>1, <2>8 DEF ReadByte, MutexInv, Callers, Producers
    <3>2. \A p \in Producers : PInv(p)'
      BY <2>1, <2>3, <2>8, <3>1 DEF ReadByte, TypeOK, Callers, Producers
    <3>3. ASSUME NEW q \in Readers PROVE RInv(q)'
      <4>1. Len(Append(out[r], buf[tail])) = Len(out[r]) + 1
        BY DEF TypeOK
      <4>2. QED
        BY <2>1, <2>8, <4>1 DEF ReadByte, MoreToRead, TypeOK, Callers
    <3>4. QED
      BY <3>2, <3>3 DEF CallInv
  <2>9. ASSUME NEW p \in Callers, NEW x, Leave(p, x),
               p \in Producers => src'[p] = <<>>,
               p \in Readers => len'[p] = 0,
               \A q \in Producers \ {p} : src'[q] = src[q],
               \A r \in Readers \ {p} : len'[r] = len[r]
        PROVE  CallInv'
    <3>1. \A q \in Producers : PInv(q)'
      <4>1. UNCHANGED ring
        BY <2>9 DEF Leave, ring
      <4>2. \A q \in Producers : src'[q] \in Seq(Byte)
        BY DEF TypeOK
      <4>3. QED
        BY <2>4, <2>9, <4>1, <4>2 DEF Leave, TypeOK, Callers
    <3>2. \A r \in Readers : RInv(r)'
      BY <2>1, <2>9 DEF Leave, TypeOK, Callers
    <3>3. QED
      BY <3>1, <3>2 DEF CallInv
  <2>10. CASE TimerFires
    BY <2>5, <2>10 DEF TimerFires, TypeOK, Callers, Producers
  <2>11. ASSUME NEW w \in Writers, CallWrite(w) PROVE CallInv'
    BY <2>5, <2>11 DEF CallWrite, TypeOK, Callers, Producers
  <2>12. ASSUME NEW r \in Readers, CallRead(r) PROVE CallInv'
    <3>1. len'[r] \in Nat /\ out'[r] = <<>>
      BY <2>12 DEF CallRead, TypeOK
    <3>2. QED
      BY <2>5, <2>12, <3>1 DEF CallRead, TypeOK, Callers, Producers
  <2>13. ASSUME NEW p \in Producers, NEW x, LeaveWrite(p, x) PROVE CallInv'
    BY <2>9, <2>13 DEF LeaveWrite, TypeOK, Callers, Producers
  <2>14. ASSUME NEW r \in Readers, NEW x, LeaveRead(r, x) PROVE CallInv'
    BY <2>9, <2>14 DEF LeaveRead, TypeOK, Callers, Producers
  <2>15. ASSUME UNCHANGED <<buf, head, tail, pc, src, len, moved, out>>
         PROVE  CallInv'
    <3>1. Contents' = Contents /\ Count' = Count
      BY <2>15, ContentsUnchanged DEF ring
    <3>2. QED
      BY <2>15, <3>1 DEF CallInv
  <2>16. QED
    BY <2>6, <2>7, <2>8, <2>10, <2>11, <2>12, <2>13, <2>14, <2>15
       DEF Next, vars, WriteReturns, WriteFaults, ReadReturns, ReadFaults,
           ChangeMode, Producers
<1>3. QED
  BY <1>1, <1>2, TypeCorrect, MutexHeldInLoops, PTL DEF Spec

-----------------------------------------------------------------------------
(* Cutting sequences in two.                                               *)

\* A concatenation is cut back into its halves.
LEMMA ConcatSplit ==
    ASSUME NEW S, NEW s \in Seq(S), NEW t \in Seq(S)
    PROVE  /\ Len(s \o t) = Len(s) + Len(t)
           /\ SubSeq(s \o t, 1, Len(s)) = s
           /\ SubSeq(s \o t, Len(s) + 1, Len(s) + Len(t)) = t
  <1>1. /\ Len(s) \in Nat /\ Len(t) \in Nat
        /\ s \o t \in Seq(S) /\ Len(s \o t) = Len(s) + Len(t)
        /\ \A i \in 1 .. Len(s) + Len(t) :
              (s \o t)[i] = IF i <= Len(s) THEN s[i] ELSE t[i - Len(s)]
    BY ConcatProperties, LenProperties
  <1>2. \A i \in 1 .. Len(s) + Len(t) : (s \o t)[i] \in S
    BY <1>1, ElementOfSeq
  <1>3. SubSeq(s \o t, 1, Len(s)) = s
    <2>1. \A i \in 1 .. Len(s) : (s \o t)[i] \in S
      BY <1>1, <1>2
    <2>2. /\ SubSeq(s \o t, 1, Len(s)) \in Seq(S)
          /\ Len(SubSeq(s \o t, 1, Len(s))) = Len(s)
          /\ \A i \in 1 .. Len(s) : SubSeq(s \o t, 1, Len(s))[i] = s[i]
      BY <1>1, <2>1, SubSeqProperties
    <2>3. QED
      BY <2>2, SeqEqual
  <1>4. SubSeq(s \o t, Len(s) + 1, Len(s) + Len(t)) = t
    <2>1. \A i \in Len(s) + 1 .. Len(s) + Len(t) : (s \o t)[i] \in S
      BY <1>1, <1>2
    <2>2. /\ SubSeq(s \o t, Len(s) + 1, Len(s) + Len(t)) \in Seq(S)
          /\ Len(SubSeq(s \o t, Len(s) + 1, Len(s) + Len(t))) = Len(t)
          /\ \A i \in 1 .. Len(t) :
                SubSeq(s \o t, Len(s) + 1, Len(s) + Len(t))[i] = t[i]
      BY <1>1, <2>1, SubSeqProperties
    <2>3. QED
      BY <2>2, SeqEqual
  <1>5. QED
    BY <1>1, <1>3, <1>4

\* An element moved from the front of one sequence to the end of the sequence
\* before it leaves their concatenation as it was.
LEMMA MoveElement ==
    ASSUME NEW S, NEW s \in Seq(S), NEW t \in Seq(S), NEW u \in Seq(S),
           Len(t) = Len(u) + 1, \A i \in 1 .. Len(u) : u[i] = t[i + 1]
    PROVE  Append(s, t[1]) \o u = s \o t
  <1>1. Len(u) \in Nat /\ Len(t) \in Nat /\ t[1] \in S /\ <<t[1]>> \in Seq(S)
    BY LenProperties, ElementOfSeq
  <1>2. <<t[1]>> \o u = t
    <2>1. /\ <<t[1]>> \o u \in Seq(S)
          /\ Len(<<t[1]>> \o u) = 1 + Len(u)
          /\ \A i \in 1 .. 1 + Len(u) : (<<t[1]>> \o u)[i] =
                IF i <= 1 THEN <<t[1]>>[i] ELSE u[i - 1]
      BY <1>1, ConcatProperties
    <2>2. ASSUME NEW i \in 1 .. 1 + Len(u) PROVE (<<t[1]>> \o u)[i] = t[i]
      <3>1. CASE i = 1
        BY <1>1, <2>1, <3>1
      <3>2. CASE i # 1
        <4>1. i - 1 \in 1 .. Len(u) /\ (i - 1) + 1 = i
          BY <1>1, <3>2
        <4>2. (<<t[1]>> \o u)[i] = u[i - 1]
          BY <1>1, <2>1, <3>2
        <4>3. QED
          BY <4>1, <4>2
      <3>3. QED
        BY <3>1, <3>2
    <2>3. QED
      BY <1>1, <2>1, <2>2, SeqEqual
  <1>3. Append(s, t[1]) = s \o <<t[1]>>
    BY <1>1, AppendIsConcat
  <1>4. (s \o <<t[1]>>) \o u = s \o (<<t[1]>> \o u)
    BY <1>1, ConcatAssociative
  <1>5. QED
    BY <1>2, <1>3, <1>4

\* The youngest bytes of the ring are the ones a writer in its loop has
\* stored: taken off and put back on they make up the contents.
LEMMA StoredBytesLast ==
    ASSUME TypeOK, CallInv, NEW p \in Producers
    PROVE  /\ Count - moved[p] \in 0 .. Count
           /\ moved[p] \in 0 .. Len(src[p])
           /\ Len(SubSeq(Contents, 1, Count - moved[p])) = Count - moved[p]
           /\ Contents = SubSeq(Contents, 1, Count - moved[p])
                            \o SubSeq(src[p], 1, moved[p])
  <1> DEFINE k == Count - moved[p]
             S == Byte \cup {Junk}
  <1>1. /\ Count \in Nat /\ moved[p] \in Nat /\ k \in 0 .. Count
        /\ moved[p] \in 0 .. Len(src[p])
    BY CountBounds DEF TypeOK, CallInv, Callers
  <1>2. Contents \in Seq(S) /\ Len(Contents) = Count
    BY ContentsSeq, CountBounds
  <1>3. src[p] \in Seq(S)
    BY SeqMonotonic DEF TypeOK
  <1>4. \A i \in 1 .. moved[p] : Contents[k + i] = src[p][i]
    BY DEF CallInv
  <1>5. SubSeq(Contents, k + 1, Count) = SubSeq(src[p], 1, moved[p])
    <2>1. /\ \A i \in k + 1 .. Count : Contents[i] \in S
          /\ \A i \in 1 .. moved[p] : src[p][i] \in S
      BY <1>1, <1>2, <1>3, ElementOfSeq
    <2>2. /\ SubSeq(Contents, k + 1, Count) \in Seq(S)
          /\ Len(SubSeq(Contents, k + 1, Count)) = moved[p]
          /\ \A i \in 1 .. moved[p] :
                SubSeq(Contents, k + 1, Count)[i] = Contents[k + i]
      BY <1>1, <2>1, SubSeqProperties
    <2>3. /\ SubSeq(src[p], 1, moved[p]) \in Seq(S)
          /\ Len(SubSeq(src[p], 1, moved[p])) = moved[p]
          /\ \A i \in 1 .. moved[p] : SubSeq(src[p], 1, moved[p])[i] = src[p][i]
      BY <1>1, <2>1, SubSeqProperties
    <2>4. QED
      BY <1>4, <2>2, <2>3, SeqEqual
  <1>6. SubSeq(Contents, 1, k) \o SubSeq(Contents, k + 1, Count) = Contents
    <2>1. SubSeq(Contents, 1, k) \o SubSeq(Contents, k + 1, Count)
            = SubSeq(Contents, 1, Count)
      <3>1. /\ 1 \in 1 .. Len(Contents) + 1
            /\ k \in 1 - 1 .. Len(Contents) /\ Count \in k .. Len(Contents)
        BY <1>1, <1>2
      <3>2. QED
        BY <1>2, <3>1, ConcatAdjacentSubSeq
    <2>2. QED
      BY <1>2, <2>1, SubSeqFull
  <1>7. Len(SubSeq(Contents, 1, k)) = k
    <2>1. \A i \in 1 .. k : Contents[i] \in S
      BY <1>1, <1>2, ElementOfSeq
    <2>2. QED
      BY <1>1, <2>1, SubSeqProperties
  <1>8. QED
    BY <1>1, <1>5, <1>6, <1>7

-----------------------------------------------------------------------------
(* The end of a call is the whole call of the abstract device.             *)

\* The users of the abstract device are those of the driver.
LEMMA DeviceUsers == Device!Users = Users
  BY DEF Device!Users, Users, Producers

\* The end of a write hands the abstract queue, at once, the bytes that the
\* call has stored one by one.
LEMMA LeaveWriteAccepts ==
    ASSUME TypeOK, MutexInv, CallInv,
           NEW p \in Producers, NEW x, pc[p] = "loop", LeaveWrite(p, x)
    PROVE  /\ Len(Queue) = Count - moved[p]
           /\ Device!Accept(p, moved[p], x)
  <1>1. mutex = p /\ mutex' = Nobody /\ p \notin Readers
    BY DEF MutexInv, Callers, Producers, LeaveWrite, Leave
  <1>2. Contents' = Contents
    BY ContentsUnchanged DEF LeaveWrite, Leave, ring
  <1>3. Queue = SubSeq(Contents, 1, Count - moved[p])
    BY <1>1 DEF Queue
  <1>4. Queue' = Contents'
    BY <1>1 DEF Queue, Callers
  <1>5. Queue' = Queue \o SubSeq(src[p], 1, moved[p])
    BY <1>2, <1>3, <1>4, StoredBytesLast
  <1>6. {q \in Callers : pc'[q] # "idle"}
          = {q \in Callers : pc[q] # "idle"} \ {p}
    BY DEF LeaveWrite, Leave, TypeOK
  <1>7. [r \in Readers |-> IF mutex' = r THEN <<>> ELSE out'[r]]
          = [r \in Readers |-> IF mutex = r THEN <<>> ELSE out[r]]
    BY <1>1 DEF LeaveWrite, Leave, Callers
  <1>8. Device!Accept(p, moved[p], x)
    BY <1>5, <1>6, <1>7, DeviceUsers DEF Device!Accept, LeaveWrite, Leave
  <1>9. QED
    BY <1>3, <1>8, StoredBytesLast

\* The end of a read takes from the abstract queue, at once, the bytes that
\* the call has taken one by one.
LEMMA LeaveReadRemoves ==
    ASSUME TypeOK, MutexInv, CallInv,
           NEW r \in Readers, NEW x, pc[r] = "loop", LeaveRead(r, x)
    PROVE  /\ Len(Queue) = moved[r] + Count
           /\ Device!Remove(r, moved[r], x)
  <1>1. mutex = r /\ mutex' = Nobody /\ r \notin Producers
    BY DEF MutexInv, Callers, Producers, LeaveRead, Leave
  <1>2. Contents' = Contents
    BY ContentsUnchanged DEF LeaveRead, Leave, ring
  <1>3. Queue = out[r] \o Contents
    BY <1>1 DEF Queue
  <1>4. Queue' = Contents
    BY <1>1, <1>2 DEF Queue, Callers
  <1>5. Len(out[r]) = moved[r] /\ Len(Contents) = Count
    BY CountBounds DEF CallInv
  <1>6. /\ Len(Queue) = moved[r] + Count
        /\ SubSeq(Queue, 1, moved[r]) = out[r]
        /\ SubSeq(Queue, moved[r] + 1, Len(Queue)) = Contents
    <2>1. out[r] \in Seq(Byte \cup {Junk}) /\ Contents \in Seq(Byte \cup {Junk})
      BY ContentsSeq DEF TypeOK
    <2>2. /\ Len(out[r] \o Contents) = Len(out[r]) + Len(Contents)
          /\ SubSeq(out[r] \o Contents, 1, Len(out[r])) = out[r]
          /\ SubSeq(out[r] \o Contents, Len(out[r]) + 1,
                    Len(out[r]) + Len(Contents)) = Contents
      BY <2>1, ConcatSplit, ZenonT(60)
    <2>3. QED
      BY <1>3, <1>5, <2>2
  <1>7. {q \in Callers : pc'[q] # "idle"}
          = {q \in Callers : pc[q] # "idle"} \ {r}
    BY DEF LeaveRead, Leave, TypeOK
  <1>8. [q \in Readers |-> IF mutex' = q THEN <<>> ELSE out'[q]]
          = [[q \in Readers |-> IF mutex = q THEN <<>> ELSE out[q]]
               EXCEPT ![r] = out[r]]
    BY <1>1 DEF LeaveRead, Leave, Callers, TypeOK
  <1>9. Device!Remove(r, moved[r], x)
    BY <1>4, <1>6, <1>7, <1>8, DeviceUsers
       DEF Device!Remove, LeaveRead, Leave
  <1>10. QED
    BY <1>6, <1>9

-----------------------------------------------------------------------------
(* The refinement.                                                         *)

\* The values of the abstract variables busy and out.
Busy   == {p \in Callers : pc[p] # "idle"}
Return == [r \in Readers |-> IF mutex = r THEN <<>> ELSE out[r]]

\* The driver implements the atomic device: a call that moves its bytes one by
\* one is, seen from its callers, a single step at mutex_unlock.
THEOREM CallsAreAtomic == Spec => AtomicCalls
<1>1. Init => Device!Init
  <2> SUFFICES ASSUME Init PROVE Device!Init
    OBVIOUS
  <2>1. Contents = <<>>
    <3>1. Count = 0
      BY DEF Init, Count
    <3>2. QED
      BY <3>1 DEF Contents
  <2>2. Queue = <<>>
    BY <2>1 DEF Init, Queue, Callers
  <2>3. Busy = {} /\ Return = [r \in Readers |-> <<>>]
    BY DEF Init, Busy, Return, Callers
  <2>4. QED
    BY <2>2, <2>3, DeviceUsers DEF Init, Device!Init, Busy, Return
<1>2. TypeOK /\ TypeOK' /\ MutexInv /\ CallInv /\ [Next]_vars
         => [Device!Next]_(Device!vars)
  <2> SUFFICES ASSUME TypeOK, TypeOK', MutexInv, CallInv, [Next]_vars
               PROVE  Device!Next \/ UNCHANGED Device!vars
    OBVIOUS
  <2>1. ASSUME UNCHANGED <<buf, head, tail, mutex, moved, src>>,
               \A r \in Readers : mutex = r => out'[r] = out[r]
        PROVE  Queue' = Queue
    <3>1. Contents' = Contents /\ Count' = Count
      BY <2>1, ContentsUnchanged DEF ring
    <3>2. QED
      BY <2>1, <3>1 DEF Queue
  <2>2. ASSUME NEW p \in Callers, Enter(p),
               \A r \in Readers \ {p} : out'[r] = out[r]
        PROVE  /\ p \notin Busy /\ Busy' = Busy \cup {p}
               /\ Queue' = Queue /\ UNCHANGED ret /\ mutex # p
               /\ UNCHANGED mutex
    <3>1. mutex # p
      BY <2>2 DEF Enter, MutexInv
    <3>2. p \notin Busy /\ Busy' = Busy \cup {p}
      BY <2>2 DEF Enter, Busy, TypeOK
    <3>3. Queue' = Queue
      <4>1. Contents' = Contents /\ Count' = Count
        BY <2>2, ContentsUnchanged DEF Enter, ring
      <4>2. QED
        BY <2>2, <3>1, <4>1 DEF Enter, Queue
    <3>4. QED
      BY <2>2, <3>1, <3>2, <3>3 DEF Enter
  <2>3. ASSUME NEW p \in Producers, Enter(p), UNCHANGED <<len, out>>,
               src'[p] \in Seq(Byte), src' = [src EXCEPT ![p] = src'[p]]
        PROVE  Device!CallWrite(p)
    <3>1. p \in Callers
      BY DEF Callers
    <3>2. /\ p \notin Busy /\ Busy' = Busy \cup {p}
          /\ Queue' = Queue /\ UNCHANGED <<ret, mutex>>
      BY <2>2, <2>3, <3>1
    <3>3. Return' = Return
      BY <2>3, <3>2 DEF Return
    <3>4. QED
      BY <2>3, <3>2, <3>3 DEF Device!CallWrite, Busy, Return
  <2>4. ASSUME NEW r \in Readers, CallRead(r)
        PROVE  Device!CallRead(r)
    <3>1. r \in Callers
      BY DEF Callers
    <3>2. /\ r \notin Busy /\ Busy' = Busy \cup {r}
          /\ Queue' = Queue /\ UNCHANGED <<ret, mutex>> /\ mutex # r
      BY <2>2, <2>4, <3>1 DEF CallRead, TypeOK
    <3>3. Return' = [Return EXCEPT ![r] = <<>>]
      BY <2>4, <3>2 DEF Return, CallRead, TypeOK
    <3>4. len'[r] \in Nat /\ len' = [len EXCEPT ![r] = len'[r]]
      BY <2>4 DEF CallRead, TypeOK
    <3>5. QED
      BY <2>4, <3>2, <3>3, <3>4 DEF Device!CallRead, CallRead, Busy, Return
  <2>5. ASSUME NEW p \in Callers, Lock(p) PROVE UNCHANGED Device!vars
    <3>1. Contents' = Contents /\ Count' = Count
      BY <2>5, ContentsUnchanged DEF Lock, ring
    <3>2. moved'[p] = 0 /\ mutex = Nobody /\ mutex' = p
      BY <2>5 DEF Lock, CallInv, Callers
    <3>3. p \in Readers => out'[p] = <<>> /\ out[p] = <<>>
      <4>1. p \in Readers => out[p] \in Seq(Byte \cup {Junk}) /\ Len(out[p]) = 0
        BY <2>5, <3>2 DEF Lock, CallInv, TypeOK
      <4>2. QED
        BY <2>5, <4>1, EmptySeq DEF Lock
    <3>4. Queue' = Queue
      <4>1. Queue = Contents
        BY <3>2 DEF Queue, Callers
      <4>2. CASE p \in Readers
        BY <3>1, <3>2, <3>3, <4>1, <4>2, ContentsSeq, ConcatEmptySeq DEF Queue
      <4>3. CASE p \in Producers
        <5>1. Queue' = SubSeq(Contents, 1, Count - 0) /\ Count - 0 = Count
          BY <3>1, <3>2, <4>3, CountBounds DEF Queue, Callers, Producers
        <5>2. QED
          BY <4>1, <5>1, ContentsSeq, CountBounds, SubSeqFull
      <4>4. QED
        BY <4>2, <4>3 DEF Callers
    <3>5. Busy' = Busy
      BY <2>5 DEF Lock, Busy, TypeOK
    <3>6. Return' = Return
      BY <2>5, <3>2, <3>3 DEF Return, Callers, Lock
    <3>7. QED
      BY <2>5, <3>4, <3>5, <3>6 DEF Device!vars, Busy, Return, Lock
  <2>6. ASSUME NEW p \in Producers, StoreByte(p)
        PROVE  UNCHANGED Device!vars
    <3>1. mutex = p /\ mutex' = p /\ p \notin Readers
      BY <2>6 DEF StoreByte, MutexInv, Callers, Producers
    <3>2. Queue' = Queue
      <4> DEFINE k == Count - moved[p]
                 S == Byte \cup {Junk}
      <4>1. /\ Count' = Count + 1
            /\ \A i \in 1 .. Count : Contents'[i] = Contents[i]
        BY <2>6, StoreAppends
      <4>2. k \in 0 .. Count /\ Count \in Nat /\ moved[p] \in Nat
        BY StoredBytesLast, CountBounds
      <4>3. moved'[p] = moved[p] + 1 /\ Count' - moved'[p] = k
        BY <2>6, <4>1, <4>2 DEF StoreByte, TypeOK, Callers
      <4>4. Queue = SubSeq(Contents, 1, k) /\ Queue' = SubSeq(Contents', 1, k)
        BY <3>1, <4>3 DEF Queue
      <4>5. \A i \in 1 .. k : Contents[i] \in S /\ Contents'[i] = Contents[i]
        BY <4>1, <4>2, ContentsSeq, CountBounds, ElementOfSeq
      <4>6. /\ SubSeq(Contents, 1, k) \in Seq(S)
            /\ Len(SubSeq(Contents, 1, k)) = k
            /\ \A i \in 1 .. k : SubSeq(Contents, 1, k)[i] = Contents[i]
        BY <4>2, <4>5, SubSeqProperties
      <4>7. /\ SubSeq(Contents', 1, k) \in Seq(S)
            /\ Len(SubSeq(Contents', 1, k)) = k
            /\ \A i \in 1 .. k : SubSeq(Contents', 1, k)[i] = Contents'[i]
        BY <4>2, <4>5, SubSeqProperties
      <4>8. QED
        BY <4>4, <4>5, <4>6, <4>7, SeqEqual
    <3>3. Return' = Return /\ Busy' = Busy
      BY <2>6, <3>1 DEF Return, Busy, StoreByte
    <3>4. QED
      BY <2>6, <3>2, <3>3 DEF Device!vars, Busy, Return, StoreByte
  <2>7. ASSUME NEW r \in Readers, ReadByte(r)
        PROVE  UNCHANGED Device!vars
    <3>1. mutex = r /\ mutex' = r
      BY <2>7 DEF ReadByte, MutexInv, Callers
    <3>2. Queue' = Queue
      <4> DEFINE S == Byte \cup {Junk}
      <4>1. /\ Count \in 1 .. BufferSize - 1 /\ Count' = Count - 1
            /\ Contents[1] = buf[tail]
            /\ \A i \in 1 .. Count' : Contents'[i] = Contents[i + 1]
        BY <2>7, ReadTakes
      <4>2. /\ Contents \in Seq(S) /\ Len(Contents) = Count
            /\ out[r] \in Seq(S) /\ buf[tail] \in S
        BY ContentsSeq, CountBounds DEF TypeOK
      <4>3. Contents' \in Seq(S) /\ Len(Contents') = Count'
        <5>1. \A i \in 1 .. Count' : i + 1 \in 1 .. Count
          BY <4>1
        <5>2. \A i \in 1 .. Count' : Contents'[i] \in S
          BY <4>1, <4>2, <5>1, ElementOfSeq
        <5>3. Contents' \in [1 .. Count' -> S]
          BY <5>2 DEF Contents
        <5>4. Count' \in Nat /\ DOMAIN Contents' = 1 .. Count'
          BY <4>1 DEF Contents
        <5>5. Contents' \in Seq(S)
          BY <5>3, <5>4, SeqDef
        <5>6. QED
          BY <5>4, <5>5, LenProperties
      <4>4. Queue = out[r] \o Contents
        BY <3>1 DEF Queue
      <4>5. Queue' = Append(out[r], Contents[1]) \o Contents'
        BY <2>7, <3>1, <4>1 DEF Queue, ReadByte, TypeOK
      <4>6. Len(Contents) = Len(Contents') + 1
        BY <4>1, <4>2, <4>3
      <4>7. \A i \in 1 .. Len(Contents') : Contents'[i] = Contents[i + 1]
        BY <4>1, <4>3
      <4>8. /\ out[r] \in Seq(S) /\ Contents \in Seq(S) /\ Contents' \in Seq(S)
        BY <4>2, <4>3
      <4>9. Append(out[r], Contents[1]) \o Contents' = out[r] \o Contents
        <5> PICK s, t, u : s = out[r] /\ t = Contents /\ u = Contents'
          OBVIOUS
        <5>1. /\ s \in Seq(S) /\ t \in Seq(S) /\ u \in Seq(S)
              /\ Len(t) = Len(u) + 1 /\ \A i \in 1 .. Len(u) : u[i] = t[i + 1]
          BY <4>6, <4>7, <4>8
        <5>2. Append(s, t[1]) \o u = s \o t
          BY <5>1, MoveElement, SMTT(30)
        <5>3. QED
          BY <5>2
      <4>10. QED
        BY <4>4, <4>5, <4>9
    <3>3. Return' = Return /\ Busy' = Busy
      BY <2>7, <3>1 DEF Return, Busy, ReadByte, TypeOK
    <3>4. QED
      BY <2>7, <3>2, <3>3 DEF Device!vars, Busy, Return, ReadByte
  <2>8. ASSUME NEW p \in Producers, WriteReturns(p) PROVE Device!Write(p)
    <3> PICK n : n = moved[p]
      OBVIOUS
    <3>1. pc[p] = "loop" /\ LeaveWrite(p, n) /\ p \in Callers
      BY <2>8 DEF WriteReturns, Callers, LeaveWrite, Leave
    <3>2. /\ Len(Queue) = Count - moved[p]
          /\ Device!Accept(p, moved[p], n)
      BY <3>1, LeaveWriteAccepts
    <3>3. n = Device!Smaller(Len(src[p]), (BufferSize - 1) - Len(Queue))
      <4>1. /\ Count \in 0 .. BufferSize - 1 /\ moved[p] \in 0 .. Len(src[p])
            /\ Len(src[p]) \in Nat
            /\ moved[p] = Len(src[p]) \/ Count = BufferSize - 1
        BY <2>8, StoredBytesLast, CountBounds
           DEF WriteReturns, MoreToWrite, TypeOK
      <4>2. QED
        BY <3>2, <4>1 DEF Device!Smaller
    <3>4. p \in Busy
      BY <3>1 DEF Busy
    <3>5. QED
      BY <3>2, <3>3, <3>4 DEF Device!Write, Device!Accept, Busy
  <2>9. ASSUME NEW w \in Writers, WriteFaults(w) PROVE Device!WriteFaults(w)
    <3>1. /\ pc[w] = "loop" /\ LeaveWrite(w, Fault)
          /\ w \in Callers /\ w \in Producers
      BY <2>9 DEF WriteFaults, Callers, Producers
    <3>2. /\ Len(Queue) = Count - moved[w]
          /\ Device!Accept(w, moved[w], Fault)
      BY <3>1, LeaveWriteAccepts
    <3>3. /\ moved[w] < Len(src[w])
          /\ moved[w] \in
               0 .. Device!Smaller(Len(src[w]), (BufferSize - 1) - Len(Queue))
      <4>1. /\ Count \in 0 .. BufferSize - 1 /\ moved[w] \in 0 .. Len(src[w])
            /\ Len(src[w]) \in Nat /\ moved[w] < Len(src[w])
        BY <2>9, <3>1, StoredBytesLast, CountBounds
           DEF WriteFaults, MoreToWrite, TypeOK
      <4>2. QED
        BY <3>2, <4>1 DEF Device!Smaller
    <3>4. w \in Busy \ {Timer}
      BY <3>1 DEF Busy
    <3>5. QED
      BY <3>2, <3>3, <3>4 DEF Device!WriteFaults, Busy
  <2>10. ASSUME NEW r \in Readers, ReadReturns(r) PROVE Device!Read(r)
    <3> PICK n : n = moved[r]
      OBVIOUS
    <3>1. pc[r] = "loop" /\ LeaveRead(r, n) /\ r \in Callers
      BY <2>10 DEF ReadReturns, Callers, LeaveRead, Leave
    <3>2. /\ Len(Queue) = moved[r] + Count
          /\ Device!Remove(r, moved[r], n)
      BY <3>1, LeaveReadRemoves
    <3>3. n = Device!Smaller(len[r], Len(Queue))
      <4>1. /\ Count \in Nat /\ moved[r] \in Nat /\ len[r] \in Nat
            /\ moved[r] <= len[r]
            /\ moved[r] = len[r] \/ Count = 0
        BY <2>10, <3>1, CountBounds DEF ReadReturns, MoreToRead, TypeOK, CallInv
      <4>2. QED
        BY <3>2, <4>1 DEF Device!Smaller
    <3>4. r \in Busy
      BY <3>1 DEF Busy
    <3>5. QED
      BY <3>2, <3>3, <3>4 DEF Device!Read, Device!Remove, Busy
  <2>11. ASSUME NEW r \in Readers, ReadFaults(r) PROVE Device!ReadFaults(r)
    <3>1. pc[r] = "loop" /\ LeaveRead(r, Fault) /\ r \in Callers
      BY <2>11 DEF ReadFaults, Callers
    <3>2. /\ Len(Queue) = moved[r] + Count
          /\ Device!Remove(r, moved[r], Fault)
      BY <3>1, LeaveReadRemoves
    <3>3. /\ moved[r] < Device!Smaller(len[r], Len(Queue))
          /\ moved[r] \in 0 .. Len(Queue)
      <4>1. /\ Count \in Nat \ {0} /\ moved[r] \in Nat /\ len[r] \in Nat
            /\ moved[r] < len[r]
        BY <2>11, <3>1, CountBounds DEF ReadFaults, MoreToRead, TypeOK
      <4>2. QED
        BY <3>2, <4>1 DEF Device!Smaller
    <3>4. r \in Busy
      BY <3>1 DEF Busy
    <3>5. QED
      BY <3>2, <3>3, <3>4 DEF Device!ReadFaults, Busy
  <2>12. ASSUME UNCHANGED <<buf, head, tail, mutex, pc, src, len, moved, out, ret>>
         PROVE  UNCHANGED Device!vars
    <3>1. Queue' = Queue
      BY <2>1, <2>12
    <3>2. QED
      BY <2>12, <3>1 DEF Device!vars
  <2>13. CASE TimerFires
    <3>1. Timer \in Producers /\ Timer \in Callers
      BY DEF Producers, Callers
    <3>2. src'[Timer] \in Seq(Byte) /\ src' = [src EXCEPT ![Timer] = src'[Timer]]
      BY <2>13, <3>1 DEF TimerFires, TypeOK
    <3>3. Device!CallWrite(Timer)
      BY <2>3, <2>13, <3>1, <3>2 DEF TimerFires
    <3>4. QED
      BY <3>1, <3>3 DEF Device!Next
  <2>14. ASSUME NEW w \in Writers, CallWrite(w) PROVE Device!CallWrite(w)
    <3>1. w \in Producers
      BY DEF Producers
    <3>2. src'[w] \in Seq(Byte) /\ src' = [src EXCEPT ![w] = src'[w]]
      BY <2>14, <3>1 DEF CallWrite, TypeOK
    <3>3. QED
      BY <2>3, <2>14, <3>1, <3>2 DEF CallWrite
  <2>15. QED
    <3>1. CASE \E p \in Callers : Lock(p)
      BY <2>5, <3>1
    <3>2. CASE \E p \in Producers : StoreByte(p) \/ WriteReturns(p)
      BY <2>6, <2>8, <3>2 DEF Device!Next
    <3>3. CASE \E w \in Writers : CallWrite(w) \/ WriteFaults(w)
      BY <2>9, <2>14, <3>3 DEF Device!Next, Producers
    <3>4. CASE \E r \in Readers : CallRead(r) \/ ReadByte(r)
                                    \/ ReadReturns(r) \/ ReadFaults(r)
      BY <2>4, <2>7, <2>10, <2>11, <3>4 DEF Device!Next
    <3>5. CASE ChangeMode \/ UNCHANGED vars
      BY <2>12, <3>5 DEF ChangeMode, vars
    <3>6. QED
      BY <2>13, <3>1, <3>2, <3>3, <3>4, <3>5 DEF Next
<1>3. QED
  BY <1>1, <1>2, TypeCorrect, MutexHeldInLoops, CallsTrackTheRing, PTL
     DEF Spec, AtomicCalls, Device!Spec
=============================================================================

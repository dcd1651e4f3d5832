------------------------------- MODULE Crc32 -------------------------------
(***************************************************************************)
(* HW09-CRC32/src: the checksum of a file that is mapped piece by piece,   *)
(* while others may lengthen or shorten it.  The checksum is free: it is   *)
(* the sequence of the bytes that have gone into it.                       *)
(***************************************************************************)
EXTENDS Integers, Sequences, SequencesExt

CONSTANTS
    BUF_SIZE,   \* what is mapped at a time, 16 MB
    PageSize,   \* of the machine, a divisor of BUF_SIZE
    Bytes,      \* what a file may hold
    MaxSize     \* no file is longer

VARIABLES
    file,       \* what it holds now
    cut,        \* it has been shortened since the program began
    pc,         \* "start", "stat", "map", "fold", "close", "shown", "refused", "killed"
    fd,         \* "none", "open", "closed"
    file_size, offset, size, crc,   \* those of get_crc32
    fault       \* a call of the loop has failed

vars == <<file, cut, pc, fd, file_size, offset, size, crc, fault>>

Init ==
    /\ file \in BoundedSeq(Bytes, MaxSize) /\ cut = FALSE
    /\ pc = "start" /\ fd = "none"
    /\ file_size = 0 /\ offset = 0 /\ size = 0 /\ crc = <<>> /\ fault = FALSE

\* A failed open makes the result 0, and 0 is an error to main.
Open ==
    /\ pc = "start"
    /\ \/ pc' = "stat" /\ fd' = "open"
       \/ pc' = "refused" /\ UNCHANGED fd
    /\ UNCHANGED <<file, cut, file_size, offset, size, crc, fault>>

\* get_file_size.  After a failure it has closed the file, which get_crc32 then maps.
Stat ==
    /\ pc = "stat"
    /\ pc' = "map"
    /\ \/ file_size' = Len(file) /\ UNCHANGED <<fd, fault>>
       \/ file_size' = 0 /\ fd' = "closed" /\ fault' = TRUE
    /\ UNCHANGED <<file, cut, offset, size, crc>>

\* A slip: only whole pieces.
OnlyWhole(s, off)  == off + BUF_SIZE > s
PastTheEnd(s, off) == off > s

\* The bytes of the piece that are the file's.
InPiece(s, off) == IF s - off > BUF_SIZE THEN BUF_SIZE ELSE s - off

\* mmap may fail at any piece, and must where there is no descriptor.  Either way
\* what has been read so far is the result.
Map ==
    /\ pc = "map"
    /\ IF PastTheEnd(file_size, offset)
         THEN pc' = "close" /\ UNCHANGED <<size, fault>>
         ELSE \/ /\ fd = "open"
                 /\ pc' = "fold" /\ size' = InPiece(file_size, offset) /\ UNCHANGED fault
              \/ pc' = "close" /\ fault' = TRUE /\ UNCHANGED size
    /\ UNCHANGED <<file, cut, fd, file_size, offset, crc>>

\* One turn of crc32.  A page that the file has still a byte in reads 0 behind the
\* last one; a page that it has not raises SIGBUS.
FoldByte ==
    /\ pc = "fold" /\ size > 0
    /\ LET at == offset + InPiece(file_size, offset) - size + 1
       IN  IF at <= Len(file)
             THEN crc' = Append(crc, file[at]) /\ size' = size - 1 /\ UNCHANGED pc
           ELSE IF Len(file) > (at - 1) - ((at - 1) % PageSize)
             THEN crc' = Append(crc, 0) /\ size' = size - 1 /\ UNCHANGED pc
           ELSE pc' = "killed" /\ UNCHANGED <<crc, size>>
    /\ UNCHANGED <<file, cut, fd, file_size, offset, fault>>

Unmap ==
    /\ pc = "fold" /\ size = 0
    /\ offset' = offset + BUF_SIZE
    /\ pc' = "map"
    /\ UNCHANGED <<file, cut, fd, file_size, size, crc, fault>>

\* close, and main: no bytes give 0, which is refused like the checksum of an
\* unlucky file that is 0.
Finish ==
    /\ pc = "close"
    /\ fd' = "closed"
    /\ pc' \in IF crc = <<>> THEN {"refused"} ELSE {"shown", "refused"}
    /\ UNCHANGED <<file, cut, file_size, offset, size, crc, fault>>

Running == pc \in {"start", "stat", "map", "fold", "close"}

Lengthen ==
    /\ Running /\ Len(file) < MaxSize
    /\ \E b \in Bytes : file' = Append(file, b)
    /\ UNCHANGED <<cut, pc, fd, file_size, offset, size, crc, fault>>

Shorten ==
    /\ Running
    /\ \E n \in 0 .. Len(file) - 1 : file' = SubSeq(file, 1, n)
    /\ cut' = TRUE
    /\ UNCHANGED <<pc, fd, file_size, offset, size, crc, fault>>

Next == Open \/ Stat \/ Map \/ FoldByte \/ Unmap \/ Finish \/ Lengthen \/ Shorten

Spec == Init /\ [][Next]_vars

-----------------------------------------------------------------------------
\* The checksum shown is that of the file up to its size at the start, or, if a
\* piece could not be mapped, of the whole pieces before it, which nothing tells the
\* user.  A file that grows does not change it, the empty piece at the end of
\* a file of whole ones adds nothing, and only a file that has been shortened may
\* end the program or bring bytes that it does not hold.
ChecksumOfAPrefix ==
    /\ ~cut => IsPrefix(crc, file)
    /\ pc \in {"shown", "refused"} =>
          Len(crc) = file_size \/ (fault /\ Len(crc) % BUF_SIZE = 0)
    /\ pc = "killed" => cut
=============================================================================

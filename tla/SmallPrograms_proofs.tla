------------------------ MODULE SmallPrograms_proofs ------------------------
(* Proofs about the small programs: what the checksum of a file covers,    *)
(* how a client that knows no lengths reads its messages, which table the   *)
(* moments of a column are of, what the threads of a logger can spoil, what *)
(* a move of 2048 does to a row and to a board of any size, and that the    *)
(* lister finds every member of an archive of any length.                   *)
EXTENDS SmallPrograms, FiniteSetTheorems, WellFoundedInduction, TLAPS

-----------------------------------------------------------------------------
(* crc32: the checksum runs behind the offset, piece by piece.             *)

Covered(s, off) == IF off < s THEN off ELSE s

CrcTypes ==
    /\ file \in Seq({1, 2}) /\ cut \in BOOLEAN /\ fault \in BOOLEAN
    /\ pc \in {"start", "stat", "map", "fold", "close", "shown", "refused", "killed"}
    /\ file_size \in Nat /\ crc_offset \in Nat /\ size \in Nat
    /\ crc \in Seq({0, 1, 2})

\* How many bytes have gone into the checksum.
CoverInv ==
    /\ pc \in {"start", "stat"} => /\ crc_offset = 0 /\ file_size = 0 /\ Len(crc) = 0
                                   /\ ~fault
    /\ pc \in {"map", "fold"} => crc_offset % PieceSize = 0
    /\ pc = "map" => Len(crc) = Covered(file_size, crc_offset)
    /\ pc = "fold" => /\ crc_offset <= file_size
                      /\ size <= Crc!InPiece(file_size, crc_offset)
                      /\ Len(crc) = crc_offset + Crc!InPiece(file_size, crc_offset) - size
    /\ pc \in {"close", "shown", "refused"} =>
          Len(crc) = file_size \/ (fault /\ Len(crc) % PieceSize = 0)

\* A file that is not shortened keeps every byte that has been read.
PrefixInv ==
    /\ ~cut => /\ file_size <= Len(file) /\ Len(crc) <= Len(file)
               /\ \A k \in 1 .. Len(crc) : crc[k] = file[k]
    /\ pc = "killed" => cut

CrcInv == CrcTypes /\ CoverInv /\ PrefixInv

LEMMA NextPiece ==
  ASSUME NEW o \in Nat, o % PieceSize = 0
  PROVE  (o + PieceSize) % PieceSize = 0
  <1> DEFINE q == o \div PieceSize
             n == o + PieceSize
             r == 0
  <1>1. PieceSize \in Nat \ {0} /\ q \in Nat /\ n \in Nat /\ r \in Nat
    BY BufferAssumption
  <1>2. o = PieceSize * q + (o % PieceSize)
    BY <1>1
  <1>3. n = PieceSize * (q + 1) + r
    BY <1>1, <1>2
  <1>4. ASSUME NEW k \in Int, n = PieceSize * k + r
        PROVE  r = n % PieceSize
    <2> HIDE DEF n, q
    <2> QED  BY <1>1, <1>4
  <1>5. q + 1 \in Int
    BY <1>1
  <1> HIDE DEF n, q
  <1>6. r = n % PieceSize
    BY <1>3, <1>4, <1>5
  <1> QED  BY <1>6 DEF n

LEMMA InPieceFits ==
  ASSUME NEW s \in Nat, NEW off \in Nat, off <= s
  PROVE  /\ Crc!InPiece(s, off) \in Nat /\ off + Crc!InPiece(s, off) <= s
         /\ off + Crc!InPiece(s, off) = Covered(s, off + PieceSize)
         /\ Covered(s, off) = off
  BY BufferAssumption DEF Crc!InPiece, Covered

LEMMA CrcStarts ==
  ASSUME Crc!Init
  PROVE  CrcInv
  <1>1. file \in Seq({1, 2}) /\ Len(file) \in Nat
    <2>1. PICK m \in 0 .. MaxFile : file \in [1 .. m -> {1, 2}]
      BY BufferAssumption DEF Crc!Init, Crc!BoundedSeq, Crc!SeqOf
    <2>2. file \in Seq({1, 2})
      BY <2>1, BufferAssumption
    <2> QED  BY <2>2
  <1>2. /\ pc = "start" /\ cut = FALSE /\ fault = FALSE /\ file_size = 0 /\ crc_offset = 0
        /\ size = 0 /\ crc = <<>> /\ crc \in Seq({0, 1, 2}) /\ Len(crc) = 0
    BY DEF Crc!Init
  <1>3. CrcTypes
    BY <1>1, <1>2 DEF CrcTypes
  <1>4. CoverInv
    BY <1>2 DEF CoverInv
  <1>5. PrefixInv
    BY <1>1, <1>2 DEF PrefixInv
  <1> QED  BY <1>3, <1>4, <1>5 DEF CrcInv

LEMMA CrcSteps ==
  ASSUME CrcInv, Crc!Next
  PROVE  CrcInv'
  <1> USE DEF CrcInv, CrcTypes
  <1>t. /\ Len(file) \in Nat /\ Len(crc) \in Nat /\ PieceSize \in Nat \ {0}
        /\ PageSize \in Nat \ {0}
    BY BufferAssumption
  <1>1. CASE Crc!Open
    BY <1>1, <1>t DEF Crc!Open, CoverInv, PrefixInv
  <1>2. CASE Crc!Stat
    <2>1. 0 % PieceSize = 0
      BY <1>t
    <2>2. UNCHANGED <<crc, crc_offset, file, cut, size>> /\ pc' = "map"
      BY <1>2 DEF Crc!Stat
    <2>3. /\ Len(crc) = 0 /\ crc_offset = 0 /\ fault' \in BOOLEAN
          /\ file_size' \in Nat /\ file_size' <= Len(file)
      <3>1. Len(crc) = 0 /\ crc_offset = 0
        BY <1>2 DEF Crc!Stat, CoverInv
      <3>2. \/ file_size' = Len(file) /\ UNCHANGED fault
            \/ file_size' = 0 /\ fault' = TRUE
        BY <1>2 DEF Crc!Stat
      <3>3. fault' \in BOOLEAN
        BY <3>2, Zenon
      <3>4. file_size' \in Nat /\ file_size' <= Len(file)
        BY <3>2, <1>t
      <3> QED  BY <3>1, <3>3, <3>4
    <2>4. Covered(file_size', 0) = 0
      BY <2>3 DEF Covered
    <2>5. CrcTypes'
      BY <2>2, <2>3
    <2>6. CoverInv'
      BY <2>1, <2>2, <2>3, <2>4 DEF CoverInv
    <2>7. PrefixInv'
      BY <2>2, <2>3, <1>t DEF PrefixInv
    <2> QED  BY <2>5, <2>6, <2>7
  <1>3. CASE Crc!Map
    <2> /\ pc = "map" /\ crc_offset % PieceSize = 0
        /\ Len(crc) = Covered(file_size, crc_offset)
      BY <1>3 DEF Crc!Map, CoverInv
    <2>1. CASE Crc!PastTheEnd(file_size, crc_offset)
      BY <2>1, <1>3, <1>t DEF Crc!Map, Crc!PastTheEnd, CoverInv, PrefixInv, Covered
    <2>2. CASE ~Crc!PastTheEnd(file_size, crc_offset)
      <3>1. crc_offset <= file_size /\ Len(crc) = crc_offset
        BY <2>2, InPieceFits DEF Crc!PastTheEnd
      <3>2. Crc!InPiece(file_size, crc_offset) \in Nat
        BY <3>1, InPieceFits
      <3>3. CASE /\ pc' = "fold" /\ UNCHANGED fault
                 /\ size' = Crc!InPiece(file_size, crc_offset)
        <4>1. UNCHANGED <<file, cut, file_size, crc_offset, crc>>
          BY <1>3 DEF Crc!Map
        <4>2. CoverInv'
          BY <3>1, <3>2, <3>3, <4>1, <1>t DEF CoverInv, Crc!InPiece
        <4> QED  BY <3>2, <3>3, <4>1, <4>2 DEF PrefixInv
      <3>4. CASE pc' = "close" /\ fault' = TRUE /\ UNCHANGED size
        BY <3>1, <3>4, <1>3, <1>t DEF Crc!Map, CoverInv, PrefixInv
      <3> QED  BY <3>3, <3>4, <2>2, <1>3 DEF Crc!Map
    <2> QED  BY <2>1, <2>2
  <1>4. CASE Crc!FoldByte
    <2> DEFINE n  == Crc!InPiece(file_size, crc_offset)
               at == crc_offset + n - size + 1
    <2>1. /\ pc = "fold" /\ size > 0 /\ crc_offset <= file_size /\ size <= n
          /\ at = Len(crc) + 1 /\ n \in Nat /\ at <= file_size
          /\ UNCHANGED <<file, cut, fd, file_size, crc_offset, fault>>
          /\ crc_offset % PieceSize = 0
      <3>1. /\ pc = "fold" /\ size > 0
            /\ UNCHANGED <<file, cut, fd, file_size, crc_offset, fault>>
        BY <1>4 DEF Crc!FoldByte
      <3>2. /\ crc_offset <= file_size /\ size <= n /\ Len(crc) = crc_offset + n - size
            /\ crc_offset % PieceSize = 0
        BY <3>1 DEF CoverInv
      <3>3. n \in Nat /\ crc_offset + n <= file_size
        BY <3>2, InPieceFits
      <3> HIDE DEF n
      <3> QED  BY <3>1, <3>2, <3>3, <1>t
    <2>2. n' = n
      BY <2>1 DEF Crc!InPiece
    <2>3. ASSUME NEW b \in {0, 1, 2}, crc' = Append(crc, b), size' = size - 1, pc' = pc,
                 at <= Len(file) => b = file[at]
          PROVE  CrcInv'
      <3>1. /\ crc' \in Seq({0, 1, 2}) /\ Len(crc') = at /\ size' \in Nat
            /\ \A k \in 1 .. Len(crc) : crc'[k] = crc[k]
            /\ crc'[at] = b
        BY <2>1, <2>3, <1>t
      <3>2. CoverInv'
        BY <3>1, <2>1, <2>2, <2>3, <1>t DEF CoverInv
      <3>3. PrefixInv'
        BY <3>1, <2>1, <2>3, <1>t DEF PrefixInv
      <3> QED  BY <3>1, <3>2, <3>3, <2>1, <2>3
    <2>4. CASE at <= Len(file)
      <3>1. file[at] \in {1, 2}
        BY <2>1, <2>4, <1>t
      <3> QED  BY <3>1, <2>3, <2>4, <1>4 DEF Crc!FoldByte
    <2>5. CASE at > Len(file) /\ pc' # "killed"
      BY <2>1, <2>3, <2>5, <1>4, <1>t DEF Crc!FoldByte
    <2>6. CASE at > Len(file) /\ pc' = "killed"
      <3>1. UNCHANGED <<crc, size>> /\ cut
        BY <2>1, <2>6, <1>4, <1>t DEF Crc!FoldByte, PrefixInv
      <3> QED  BY <3>1, <2>1, <2>6 DEF CoverInv, PrefixInv
    <2> QED  BY <2>1, <2>4, <2>5, <2>6, <1>t
  <1>5. CASE Crc!Unmap
    <2>1. /\ pc = "fold" /\ size = 0 /\ pc' = "map" /\ crc_offset' = crc_offset + PieceSize
          /\ UNCHANGED <<file, cut, file_size, size, crc, fault>>
          /\ crc_offset <= file_size /\ crc_offset % PieceSize = 0
          /\ Len(crc) = crc_offset + Crc!InPiece(file_size, crc_offset) - size
      BY <1>5 DEF Crc!Unmap, CoverInv
    <2>2. crc_offset' % PieceSize = 0 /\ crc_offset' \in Nat
      BY <2>1, <1>t, NextPiece
    <2>3. Len(crc) = Covered(file_size, crc_offset')
      BY <2>1, InPieceFits
    <2> QED  BY <2>1, <2>2, <2>3 DEF CoverInv, PrefixInv
  <1>6. CASE Crc!Finish
    BY <1>6, <1>t DEF Crc!Finish, CoverInv, PrefixInv
  <1>7. CASE Crc!Lengthen
    <2>1. PICK b \in {1, 2} : file' = Append(file, b)
      BY <1>7 DEF Crc!Lengthen
    <2>2. /\ file' \in Seq({1, 2}) /\ Len(file') = Len(file) + 1
          /\ \A k \in 1 .. Len(file) : file'[k] = file[k]
          /\ UNCHANGED <<cut, pc, fd, file_size, crc_offset, size, crc, fault>>
      BY <2>1, <1>7, <1>t DEF Crc!Lengthen
    <2>3. CoverInv'
      BY <2>2 DEF CoverInv, Crc!InPiece
    <2> QED  BY <2>2, <2>3, <1>t DEF PrefixInv
  <1>8. CASE Crc!Shorten
    <2>1. PICK n \in 0 .. Len(file) - 1 : file' = SubSeq(file, 1, n)
      BY <1>8 DEF Crc!Shorten
    <2>2. /\ file' \in Seq({1, 2}) /\ cut' = TRUE
          /\ UNCHANGED <<pc, fd, file_size, crc_offset, size, crc, fault>>
      BY <2>1, <1>8, <1>t DEF Crc!Shorten
    <2>3. CoverInv'
      BY <2>2 DEF CoverInv, Crc!InPiece
    <2> QED  BY <2>2, <2>3 DEF PrefixInv
  <1> QED  BY <1>1, <1>2, <1>3, <1>4, <1>5, <1>6, <1>7, <1>8 DEF Crc!Next

LEMMA CoveredIsAPrefix ==
  ASSUME CrcInv
  PROVE  Crc!ChecksumOfAPrefix
  <1>1. ASSUME ~cut
        PROVE  Crc!IsPrefix(crc, file)
    <2>1. SubSeq(crc, 1, Len(crc)) = SubSeq(file, 1, Len(crc)) /\ Len(crc) <= Len(file)
      BY <1>1 DEF CrcInv, CrcTypes, PrefixInv
    <2> QED  BY <2>1 DEF Crc!IsPrefix
  <1> QED  BY <1>1 DEF CrcInv, CoverInv, PrefixInv, Crc!ChecksumOfAPrefix

\* The checksum is that of the file up to its size at the start, or of whole
\* pieces, whatever is written to the file meanwhile: for every size of the pieces
\* and of the pages, which get_crc32 and the kernel agree on.
THEOREM ChecksumIsOfAPrefix == Spec => []ChecksumOfAPrefix
  <1> DEFINE I == program = "crc" => CrcInv
  <1>1. Init => I
    BY CrcStarts DEF Init
  <1>2. I /\ [Next]_vars => I'
    <2> SUFFICES ASSUME I, [Next]_vars, program' = "crc"
                 PROVE  CrcInv'
      OBVIOUS
    <2>1. CASE Checksum
      BY <2>1, CrcSteps DEF Checksum
    <2>2. CASE UNCHANGED vars
      <3>1. /\ program = "crc"
            /\ UNCHANGED <<file, cut, pc, fd, file_size, crc_offset, size, crc, fault>>
        BY <2>2 DEF vars, crcVars
      <3> QED  BY <3>1 DEF CrcInv, CrcTypes, CoverInv, PrefixInv, Crc!InPiece
    <2>3. CASE SlideAgain \/ Play \/ ListZip \/ AskFiglet \/ Summarize \/ WriteLog
      BY <2>3 DEF SlideAgain, Play, ListZip, AskFiglet, Summarize, WriteLog
    <2> QED  BY <2>1, <2>2, <2>3 DEF Next
  <1>3. I => ChecksumOfAPrefix
    BY CoveredIsAPrefix DEF ChecksumOfAPrefix
  <1> QED  BY <1>1, <1>2, <1>3, PTL DEF Spec

-----------------------------------------------------------------------------
(* figlet: what is in the buffer decides when the client stops reading.    *)

MsgTypes ==
    /\ greeting \in Seq({"x", "."}) /\ greeting # <<>> /\ greeting[Len(greeting)] = "."
    /\ answer \in Seq({"x", "."}) /\ answer # <<>> /\ answer[Len(answer)] = "."
    /\ wire \in Seq({"x", "."}) /\ (wire # <<>> => wire[Len(wire)] = ".")
    /\ pc \in {"connect", "greet", "ask", "answer", "done", "failed", "killed"}
    /\ buffer \in [1 .. MsgBuf -> {"0", "x", "."}] /\ longest \in 0 .. MsgBuf
    /\ shrunk \in BOOLEAN /\ whole \in BOOLEAN

\* The longest read is all that the buffer holds.
LongestInv == \A k \in 1 .. MsgBuf : buffer[k] = "0" <=> k > longest

\* A read of the end of a message that does not stop.
StuckInv ==
    pc \in {"greet", "answer"} /\ wire = <<>> /\ peer \in {"greeted", "answered"} =>
       shrunk \/ longest = MsgBuf

\* How far a client has come that reads whole messages.
WholeInv ==
    /\ pc \in {"connect", "ask"} => buffer = Msg!Cleared /\ longest = 0
    /\ whole =>
       /\ pc = "connect" => wire = <<>> /\ shown = "nothing"
       /\ pc = "greet" => wire \in {greeting, <<>>} /\ shown = "nothing"
       /\ pc = "ask" => wire = <<>> /\ shown = "nothing"
       /\ pc = "answer" => \/ wire = <<>>
                           \/ wire = answer /\ longest = 0 /\ shown = "nothing"
       /\ pc = "done" => shown = "answer"

MsgInv == MsgTypes /\ LongestInv /\ StuckInv /\ WholeInv

LEMMA WrittenCells ==
  ASSUME NEW b \in [1 .. MsgBuf -> {"0", "x", "."}], NEW l \in 0 .. MsgBuf,
         \A k \in 1 .. MsgBuf : b[k] = "0" <=> k > l
  PROVE  Msg!Strlen(b) = l
  <1> DEFINE Ends(n) == /\ \A k \in 1 .. n : b[k] # "0"
                        /\ n = MsgBuf \/ b[n + 1] = "0"
  <1>1. MsgBuf \in Nat
    BY BufferAssumption
  <1>2. Ends(l)
    BY <1>1
  <1>3. ASSUME NEW n \in 0 .. MsgBuf, Ends(n)
        PROVE  n = l
    <2>1. ~(n < l)
      <3> SUFFICES ASSUME n < l PROVE FALSE
        OBVIOUS
      <3>1. n + 1 \in 1 .. MsgBuf /\ ~(n + 1 > l) /\ n # MsgBuf
        BY <1>1
      <3> QED  BY <3>1, <1>3
    <2>2. ~(l < n)
      <3> SUFFICES ASSUME l < n PROVE FALSE
        OBVIOUS
      <3>1. l + 1 \in 1 .. n /\ l + 1 \in 1 .. MsgBuf /\ l + 1 > l
        BY <1>1
      <3> QED  BY <3>1, <1>3
    <2> QED  BY <2>1, <2>2, <1>1
  <1>4. Msg!Strlen(b) = CHOOSE n \in 0 .. MsgBuf : Ends(n)
    BY DEF Msg!Strlen
  <1> HIDE DEF Ends
  <1> QED  BY <1>2, <1>3, <1>4

LEMMA MessagesEndInAPrompt ==
  \A m \in Messages : m \in Seq({"x", "."}) /\ m # <<>> /\ m[Len(m)] = "."
  <1> SUFFICES ASSUME NEW s \in BoundedSeq({"x", "."}, 2)
               PROVE  LET m == Append(s, ".")
                      IN  m \in Seq({"x", "."}) /\ m # <<>> /\ m[Len(m)] = "."
    BY DEF Messages
  <1>1. PICK k \in 0 .. 2 : s \in [1 .. k -> {"x", "."}]
    BY DEF BoundedSeq, SeqOf
  <1>2. s \in Seq({"x", "."})
    BY <1>1
  <1>3. "." \in {"x", "."}
    OBVIOUS
  <1> HIDE DEF BoundedSeq
  <1> QED  BY <1>2, <1>3

LEMMA MsgStarts ==
  ASSUME Msg!Init
  PROVE  MsgInv
  <1>1. MsgBuf \in Nat \ {0} /\ greeting \in Messages /\ answer \in Messages
    BY BufferAssumption DEF Msg!Init
  <1>2. /\ pc = "connect" /\ wire = <<>> /\ wire \in Seq({"x", "."}) /\ longest = 0
        /\ buffer = Msg!Cleared /\ shrunk = FALSE /\ whole = TRUE /\ shown = "nothing"
    BY DEF Msg!Init
  <1>3. buffer \in [1 .. MsgBuf -> {"0", "x", "."}] /\ \A k \in 1 .. MsgBuf : buffer[k] = "0"
    BY <1>2 DEF Msg!Cleared
  <1>4. MsgTypes
    <2>1. /\ greeting \in Seq({"x", "."}) /\ greeting # <<>> /\ greeting[Len(greeting)] = "."
          /\ answer \in Seq({"x", "."}) /\ answer # <<>> /\ answer[Len(answer)] = "."
      BY <1>1, MessagesEndInAPrompt
    <2>2. 0 \in 0 .. MsgBuf
      BY <1>1
    <2> QED  BY <1>2, <1>3, <2>1, <2>2 DEF MsgTypes
  <1>5. LongestInv
    BY <1>2, <1>3 DEF LongestInv
  <1> QED  BY <1>2, <1>4, <1>5 DEF MsgInv, StuckInv, WholeInv

\* One turn of read_msg keeps the invariant, whatever the read has brought.
LEMMA TurnSteps ==
  ASSUME MsgInv, pc \in {"greet", "answer"}, NEW n \in 0 .. MsgBuf, n <= Len(wire),
         n = 0 => wire = <<>> /\ peer = "gone", Msg!Turn(n)
  PROVE  MsgInv'
  <1> DEFINE b == [k \in 1 .. MsgBuf |-> IF k <= n THEN wire[k] ELSE buffer[k]]
             l == IF n > longest THEN n ELSE longest
             said == IF pc = "greet" THEN greeting ELSE answer
  <1>1. /\ MsgBuf \in Nat \ {0} /\ Len(wire) \in Nat /\ MsgTypes /\ LongestInv /\ StuckInv
        /\ WholeInv
    BY BufferAssumption DEF MsgInv, MsgTypes
  <1>2. /\ UNCHANGED <<greeting, answer, tried, peer>>
        /\ wire' = SubSeq(wire, n + 1, Len(wire))
        /\ whole' = (whole /\ wire = said /\ n = Len(wire))
        /\ shown' = IF pc = "greet" THEN shown
                    ELSE IF shown = "nothing" /\ SubSeq(b, 1, Msg!Strlen(b)) = answer
                         THEN "answer" ELSE "other"
    BY DEF Msg!Turn
  <1>3. PICK stop \in Msg!AtStop(b) :
              IF stop
                THEN /\ pc' = IF pc = "greet" THEN "ask" ELSE "done"
                     /\ buffer' = Msg!Cleared /\ longest' = 0 /\ shrunk' = FALSE
                ELSE /\ buffer' = b /\ longest' = l
                     /\ shrunk' = (shrunk \/ n < longest) /\ UNCHANGED pc
    BY DEF Msg!Turn
  <1>4. /\ b \in [1 .. MsgBuf -> {"0", "x", "."}] /\ l \in 0 .. MsgBuf
        /\ \A k \in 1 .. MsgBuf : b[k] = "0" <=> k > l
    <2>1. longest \in 0 .. MsgBuf /\ buffer \in [1 .. MsgBuf -> {"0", "x", "."}]
      BY <1>1 DEF MsgTypes
    <2>2. \A k \in 1 .. MsgBuf : k <= n => wire[k] \in {"x", "."}
      BY <1>1 DEF MsgTypes
    <2>3. l \in 0 .. MsgBuf
      BY <2>1
    <2>4. b \in [1 .. MsgBuf -> {"0", "x", "."}]
      BY <2>1, <2>2
    <2>5. ASSUME NEW k \in 1 .. MsgBuf
          PROVE  b[k] = "0" <=> k > l
      <3>1. CASE k <= n
        <4>1. b[k] = wire[k] /\ b[k] # "0"
          BY <3>1, <2>2
        <4>2. ~(k > l)
          BY <3>1, <2>1, <1>1
        <4> QED  BY <4>1, <4>2
      <3>2. CASE ~(k <= n)
        <4>1. b[k] = buffer[k]
          BY <3>2
        <4>2. k > l <=> k > longest
          BY <3>2, <2>1, <1>1
        <4> QED  BY <4>1, <4>2, <1>1 DEF LongestInv
      <3> QED  BY <3>1, <3>2
    <2> QED  BY <2>3, <2>4, <2>5
  <1>5. Msg!Strlen(b) = l
    BY <1>4, WrittenCells
  <1>6. wire' \in Seq({"x", "."}) /\ Len(wire') = Len(wire) - n
    BY <1>1, <1>2 DEF MsgTypes
  <1>7. wire' # <<>> => wire'[Len(wire')] = "."
    <2> SUFFICES ASSUME wire' # <<>>
                 PROVE  wire'[Len(wire')] = "."
      OBVIOUS
    <2>1. Len(wire') # 0 /\ Len(wire') \in Nat
      BY <1>6
    <2>2. wire'[Len(wire) - n] = wire[Len(wire)]
      BY <2>1, <1>6, <1>1, <1>2 DEF MsgTypes
    <2>3. wire # <<>>
      BY <2>1, <1>6, <1>1
    <2> QED  BY <2>2, <2>3, <1>6, <1>1 DEF MsgTypes
  <1>8. MsgTypes' /\ LongestInv'
    <2>1. UNCHANGED <<greeting, answer>> /\ whole' \in BOOLEAN
      BY <1>2
    <2>2. CASE stop
      <3>1. /\ pc' \in {"ask", "done"} /\ buffer' = Msg!Cleared /\ longest' = 0
            /\ shrunk' = FALSE
        BY <1>3, <2>2
      <3>2. /\ buffer' \in [1 .. MsgBuf -> {"0", "x", "."}]
            /\ \A k \in 1 .. MsgBuf : buffer'[k] = "0"
        BY <3>1 DEF Msg!Cleared
      <3>3. longest' \in 0 .. MsgBuf
        BY <3>1, <1>1
      <3>4. MsgTypes'
        BY <3>1, <3>2, <3>3, <2>1, <1>1, <1>6, <1>7 DEF MsgTypes
      <3> QED  BY <3>1, <3>2, <3>4, <1>1 DEF LongestInv
    <2>3. CASE ~stop
      <3>1. /\ buffer' = b /\ longest' = l /\ UNCHANGED pc /\ shrunk' \in BOOLEAN
        BY <1>3, <2>3
      <3> HIDE DEF b, l
      <3> QED  BY <3>1, <2>1, <1>1, <1>4, <1>6, <1>7 DEF MsgTypes, LongestInv
    <2> QED  BY <2>2, <2>3
  <1>9. StuckInv'
    <2> SUFFICES ASSUME pc' \in {"greet", "answer"}, wire' = <<>>,
                        peer' \in {"greeted", "answered"}, ~shrunk'
                 PROVE  longest' = MsgBuf
      BY DEF StuckInv
    <2>1. ~stop /\ longest' = l /\ ~(n < longest) /\ n # 0
      BY <1>2, <1>3
    <2>2. n = Len(wire) /\ wire # <<>>
      BY <1>1, <1>6, <2>1 DEF MsgTypes
    <2>3. l = n /\ b[n] = "."
      <3>1. longest \in 0 .. MsgBuf /\ wire[n] = "."
        BY <2>2, <1>1 DEF MsgTypes
      <3>2. l = n
        BY <3>1, <2>1
      <3>3. n \in 1 .. MsgBuf /\ n <= n
        BY <2>1, <1>1
      <3> QED  BY <3>1, <3>2, <3>3
    <2> HIDE DEF b, l
    <2>4. CASE n # MsgBuf
      <3>1. Msg!AtStop(b) = {TRUE}
        BY <2>1, <2>3, <2>4, <1>5, <1>1 DEF Msg!AtStop
      <3> QED  BY <3>1, <2>1
    <2> QED  BY <2>1, <2>3, <2>4
  <1>10. WholeInv'
    <2>1. pc' \in {"connect", "ask"} => buffer' = Msg!Cleared /\ longest' = 0
      BY <1>3
    <2>2. ASSUME whole'
          PROVE  /\ pc' \in {"greet", "ask", "answer", "done"} /\ wire' = <<>>
                 /\ pc' \in {"greet", "ask"} => shown' = "nothing"
                 /\ pc' = "done" => shown' = "answer"
      <3>1. whole /\ wire = said /\ n = Len(wire)
        BY <2>2, <1>2
      <3>2. wire' = <<>>
        BY <3>1, <1>1, <1>2 DEF MsgTypes
      <3>3. said # <<>>
        BY <1>1 DEF MsgTypes
      <3>4. CASE pc = "greet"
        <4>1. pc' \in {"greet", "ask"} /\ shown = "nothing"
          BY <3>1, <3>4, <1>1, <1>3 DEF WholeInv
        <4> QED  BY <3>2, <3>4, <4>1, <1>2
      <3>5. CASE pc = "answer"
        <4>1. pc' \in {"answer", "done"}
          BY <3>5, <1>3
        <4>2. wire = answer /\ longest = 0 /\ shown = "nothing"
          BY <3>1, <3>3, <3>5, <1>1 DEF WholeInv
        <4>3. Msg!Strlen(b) = n
          BY <4>2, <1>5, <1>1
        <4>4. SubSeq(b, 1, n) = wire
          <5>1. b \in Seq({"0", "x", "."}) /\ Len(b) = MsgBuf
            BY <1>1, <1>4
          <5>2. \A k \in 1 .. n : b[k] = wire[k]
            BY <1>1
          <5>3. wire \in Seq({"x", "."})
            BY <1>1 DEF MsgTypes
          <5> HIDE DEF b
          <5>4. /\ SubSeq(b, 1, n) \in Seq({"0", "x", "."}) /\ Len(SubSeq(b, 1, n)) = n
                /\ \A k \in 1 .. n : SubSeq(b, 1, n)[k] = b[k]
            BY <5>1, <1>1
          <5> QED  BY <5>2, <5>3, <5>4, <3>1, <1>1
        <4>5. shown' = "answer"
          BY <3>5, <4>2, <4>3, <4>4, <1>2
        <4> QED  BY <3>2, <4>1, <4>5
      <3> QED  BY <3>4, <3>5
    <2> QED  BY <2>1, <2>2 DEF WholeInv
  <1> QED  BY <1>8, <1>9, <1>10 DEF MsgInv

LEMMA MsgSteps ==
  ASSUME MsgInv, Msg!Next
  PROVE  MsgInv'
  <1>1. MsgBuf \in Nat \ {0} /\ MsgTypes /\ LongestInv /\ StuckInv /\ WholeInv
    BY BufferAssumption DEF MsgInv
  <1>2. CASE Msg!Connect
    <2>1. /\ pc = "connect" /\ UNCHANGED <<greeting, answer, buffer, longest, shrunk, whole, shown>>
          /\ \/ pc' \in {"connect", "failed"} /\ wire' = wire
             \/ pc' = "greet" /\ wire' = greeting
      BY <1>2 DEF Msg!Connect
    <2>2. MsgTypes'
      BY <2>1, <1>1 DEF MsgTypes
    <2>3. LongestInv'
      BY <2>1, <1>1 DEF LongestInv
    <2>4. StuckInv'
      BY <2>1, <1>1 DEF StuckInv, MsgTypes
    <2>5. WholeInv'
      BY <2>1, <1>1 DEF WholeInv, Msg!Cleared
    <2> QED  BY <2>2, <2>3, <2>4, <2>5 DEF MsgInv
  <1>3. CASE Msg!ReadSome
    <2>1. PICK n \in 1 .. MsgBuf : n <= Len(wire) /\ Msg!Turn(n)
      BY <1>3 DEF Msg!ReadSome
    <2>2. n \in 0 .. MsgBuf /\ n # 0
      BY <1>1
    <2>3. pc \in {"greet", "answer"}
      BY <1>3 DEF Msg!ReadSome
    <2> QED  BY <2>1, <2>2, <2>3, TurnSteps
  <1>4. CASE Msg!ReadNothing
    <2>1. pc \in {"greet", "answer"} /\ wire = <<>> /\ peer = "gone" /\ Msg!Turn(0)
      BY <1>4 DEF Msg!ReadNothing
    <2>2. 0 \in 0 .. MsgBuf /\ 0 <= Len(wire)
      BY <2>1, <1>1
    <2> QED  BY <2>1, <2>2, TurnSteps
  <1>5. CASE Msg!Ask
    <2>1. /\ pc = "ask" /\ UNCHANGED <<greeting, answer, buffer, longest, shrunk, whole, shown>>
          /\ \/ pc' = "killed" /\ wire' = wire
             \/ pc' = "answer" /\ wire' = wire /\ peer' = "gone"
             \/ pc' = "answer" /\ wire' = wire \o answer
      BY <1>5 DEF Msg!Ask
    <2>2. /\ wire \o answer \in Seq({"x", "."})
          /\ wire \o answer # <<>>
          /\ (wire \o answer)[Len(wire \o answer)] = "."
      <3>1. /\ wire \in Seq({"x", "."}) /\ answer \in Seq({"x", "."}) /\ Len(answer) > 0
            /\ answer[Len(answer)] = "."
        BY <1>1 DEF MsgTypes
      <3>2. /\ wire \o answer \in Seq({"x", "."})
            /\ Len(wire \o answer) = Len(wire) + Len(answer)
            /\ (wire \o answer)[Len(wire) + Len(answer)] = answer[Len(answer)]
        BY <3>1
      <3> QED  BY <3>1, <3>2
    <2>3. MsgTypes'
      BY <2>1, <2>2, <1>1 DEF MsgTypes
    <2>4. LongestInv'
      BY <2>1, <1>1 DEF LongestInv
    <2>5. StuckInv'
      BY <2>1, <2>2, <1>1 DEF StuckInv
    <2>6. WholeInv'
      <3>1. answer \in Seq({"x", "."}) /\ <<>> \o answer = answer
        BY <1>1 DEF MsgTypes
      <3> QED  BY <2>1, <3>1, <1>1 DEF WholeInv
    <2> QED  BY <2>3, <2>4, <2>5, <2>6 DEF MsgInv
  <1>6. CASE Msg!HangUp
    <2>1. /\ peer' = "gone"
          /\ UNCHANGED <<greeting, answer, pc, tried, wire, buffer, longest, shrunk, whole, shown>>
      BY <1>6 DEF Msg!HangUp
    <2> QED  BY <2>1, <1>1 DEF MsgInv, MsgTypes, LongestInv, StuckInv, WholeInv, Msg!Cleared
  <1> QED  BY <1>2, <1>3, <1>4, <1>5, <1>6 DEF Msg!Next

\* The figlet client waits for ever only after a shorter read or a full buffer,
\* and prints the answer alone when its reads take whole messages: for every size
\* of the buffer of read_msg.
THEOREM WholeMessagesAreFramed == Spec => []FramingHolds
  <1> DEFINE I == program = "msg" => MsgInv
  <1>1. Init => I
    BY MsgStarts DEF Init
  <1>2. I /\ [Next]_vars => I'
    <2> SUFFICES ASSUME I, [Next]_vars, program' = "msg"
                 PROVE  MsgInv'
      OBVIOUS
    <2>1. CASE AskFiglet
      BY <2>1, MsgSteps DEF AskFiglet
    <2>2. CASE UNCHANGED vars
      <3>1. /\ program = "msg"
            /\ UNCHANGED <<greeting, answer, pc, tried, wire, peer, buffer, longest, shrunk,
                           whole, shown>>
        BY <2>2 DEF vars, msgVars
      <3> QED  BY <3>1 DEF MsgInv, MsgTypes, LongestInv, StuckInv, WholeInv, Msg!Cleared
    <2>3. CASE SlideAgain \/ Play \/ ListZip \/ Checksum \/ Summarize \/ WriteLog
      BY <2>3 DEF SlideAgain, Play, ListZip, Checksum, Summarize, WriteLog
    <2> QED  BY <2>1, <2>2, <2>3 DEF Next
  <1>3. I => FramingHolds
    BY DEF MsgInv, StuckInv, WholeInv, FramingHolds, Msg!FramingHolds
  <1> QED  BY <1>1, <1>2, <1>3, PTL DEF Spec

-----------------------------------------------------------------------------
(* Column statistics: sums over the rows of a table, one row at a time.    *)

Column == Numbers \cup {Word}

Worth(worth, t, n) == IF t[n] = Word THEN 0 ELSE worth[t[n]]

\* f holds the sums of the first rows of t, up to the n-th.
Adds(f, worth, t, n) ==
    f = [k \in 0 .. n |-> IF k = 0 THEN 0 ELSE f[k - 1] + Worth(worth, t, k)]

\* A set of naturals that is not empty has a least element.
LEMMA Smallest ==
  ASSUME NEW T, T \subseteq Nat, T # {}
  PROVE  \E n \in T : \A m \in T : ~(m < n)
  <1> DEFINE LT == {s \in Nat \X Nat : s[1] < s[2]}
  <1>1. LT = OpToRel(<, Nat)
    BY Zenon DEF OpToRel
  <1>2. IsWellFoundedOn(LT, Nat)
    BY <1>1, NatLessThanWellFounded, Zenon
  <1>3. PICK n \in T : \A m \in T : <<m, n>> \notin LT
    <2> HIDE DEF LT
    <2> QED  BY <1>2, WFMin
  <1>4. ASSUME NEW m \in T
        PROVE  ~(m < n)
    <2>1. m \in Nat /\ n \in Nat /\ <<m, n>> \notin LT
      BY <1>3
    <2> QED  BY <2>1
  <1> QED  BY <1>4

\* The recursive definition of Sums has a solution, and so is one.
LEMMA SumsAdd ==
  ASSUME NEW worth \in [Numbers -> Int], NEW t \in Seq(Column)
  PROVE  /\ Adds(Stats!Sums(worth, t), worth, t, Len(t))
         /\ Stats!Sums(worth, t) \in [0 .. Len(t) -> Int]
         /\ Stats!Sums(worth, t)[0] = 0
         /\ \A n \in 1 .. Len(t) :
               Stats!Sums(worth, t)[n] = Stats!Sums(worth, t)[n - 1] + Worth(worth, t, n)
  <1>1. /\ Len(t) \in Nat
        /\ \A n \in 1 .. Len(t) : Worth(worth, t, n) \in Int
    BY DEF Worth, Column
  <1> DEFINE Solved(n) == \E f \in [0 .. n -> Int] : Adds(f, worth, t, n)
             Unsolved == {n \in 0 .. Len(t) : ~Solved(n)}
  <1>2. Solved(0)
    <2>1. [k \in 0 .. 0 |-> 0] \in [0 .. 0 -> Int] /\ Adds([k \in 0 .. 0 |-> 0], worth, t, 0)
      BY DEF Adds
    <2> QED  BY <2>1
  <1>3. ASSUME NEW n \in 1 .. Len(t), Solved(n - 1)
        PROVE  Solved(n)
    <2>1. PICK f \in [0 .. n - 1 -> Int] : Adds(f, worth, t, n - 1)
      BY <1>3
    <2> DEFINE g == [k \in 0 .. n |-> IF k = n THEN f[n - 1] + Worth(worth, t, n) ELSE f[k]]
    <2>2. /\ n \in Nat /\ n > 0 /\ n - 1 \in 0 .. n - 1
          /\ \A k \in 0 .. n : k # n => k \in 0 .. n - 1
      BY <1>1
    <2>3. g \in [0 .. n -> Int]
      BY <1>1, <2>2
    <2>4. ASSUME NEW k \in 0 .. n
          PROVE  g[k] = IF k = 0 THEN 0 ELSE g[k - 1] + Worth(worth, t, k)
      <3>1. CASE k = n
        <4>1. g[k - 1] = f[n - 1]
          BY <3>1, <2>2
        <4> QED  BY <3>1, <4>1, <2>2
      <3>2. CASE k # n
        <4>1. k \in 0 .. n - 1 /\ (k # 0 => k - 1 \in 0 .. n - 1 /\ k - 1 # n /\ k - 1 \in 0 .. n)
          BY <3>2, <2>2
        <4>2. f[k] = IF k = 0 THEN 0 ELSE f[k - 1] + Worth(worth, t, k)
          BY <2>1, <4>1 DEF Adds
        <4> QED  BY <3>2, <4>1, <4>2
      <3> QED  BY <3>1, <3>2
    <2>5. Adds(g, worth, t, n)
      <3> DEFINE h == [k \in 0 .. n |-> IF k = 0 THEN 0 ELSE g[k - 1] + Worth(worth, t, k)]
      <3>1. \A k \in 0 .. n : g[k] = h[k]
        BY <2>4
      <3>2. g = [k \in 0 .. n |-> g[k]] /\ h = [k \in 0 .. n |-> h[k]]
        OBVIOUS
      <3>3. g = h
        <4> HIDE DEF g, h
        <4> QED  BY <3>1, <3>2
      <3> QED  BY <3>3 DEF Adds
    <2> HIDE DEF g
    <2> QED  BY <2>3, <2>5
  <1>4. Unsolved = {}
    <2> SUFFICES ASSUME Unsolved # {}
                 PROVE  FALSE
      OBVIOUS
    <2>1. Unsolved \subseteq Nat
      BY <1>1
    <2>2. PICK n \in Unsolved : \A m \in Unsolved : ~(m < n)
      <3> HIDE DEF Unsolved
      <3> QED  BY <2>1, Smallest
    <2>3. n \in 0 .. Len(t) /\ ~Solved(n)
      OBVIOUS
    <2>4. n \in 1 .. Len(t) /\ n - 1 \in 0 .. Len(t) /\ n - 1 < n
      <3> HIDE DEF Solved
      <3> QED  BY <2>3, <1>1, <1>2
    <2>5. n - 1 \notin Unsolved
      <3> HIDE DEF Unsolved
      <3> QED  BY <2>2, <2>4
    <2>6. Solved(n - 1)
      <3> HIDE DEF Solved
      <3> QED  BY <2>4, <2>5
    <2> HIDE DEF Solved, Unsolved
    <2> QED  BY <1>3, <2>3, <2>4, <2>6
  <1>5. PICK f \in [0 .. Len(t) -> Int] : Adds(f, worth, t, Len(t))
    <2>1. Len(t) \in 0 .. Len(t) /\ Len(t) \notin Unsolved
      <3> HIDE DEF Unsolved
      <3> QED  BY <1>1, <1>4
    <2>2. Solved(Len(t))
      <3> HIDE DEF Solved
      <3> QED  BY <2>1
    <2> QED  BY <2>2
  <1>6. Stats!Sums(worth, t) = CHOOSE g : Adds(g, worth, t, Len(t))
    BY DEF Stats!Sums, Adds, Worth
  <1> DEFINE s == Stats!Sums(worth, t)
  <1>7. Adds(s, worth, t, Len(t))
    <2> HIDE DEF s
    <2> QED  BY <1>5, <1>6 DEF s
  <1> HIDE DEF s
  <1>8. /\ \A n \in 0 .. Len(t) : s[n] = IF n = 0 THEN 0 ELSE s[n - 1] + Worth(worth, t, n)
        /\ s = [n \in 0 .. Len(t) |-> s[n]]
    BY <1>7 DEF Adds
  <1>9. s[0] = 0 /\ \A n \in 1 .. Len(t) : s[n] = s[n - 1] + Worth(worth, t, n)
    <2>1. 0 \in 0 .. Len(t)
      BY <1>1
    <2>2. ASSUME NEW n \in 1 .. Len(t)
          PROVE  n \in 0 .. Len(t) /\ n # 0
      BY <1>1
    <2> QED  BY <1>8, <2>1, <2>2
  <1> DEFINE Bad == {n \in 0 .. Len(t) : s[n] \notin Int}
  <1>10. Bad = {}
    <2> SUFFICES ASSUME Bad # {}
                 PROVE  FALSE
      OBVIOUS
    <2>1. Bad \subseteq Nat
      BY <1>1
    <2>2. PICK n \in Bad : \A m \in Bad : ~(m < n)
      <3> HIDE DEF Bad
      <3> QED  BY <2>1, Smallest
    <2>3. n \in 0 .. Len(t) /\ s[n] \notin Int
      OBVIOUS
    <2>4. n \in 1 .. Len(t) /\ n - 1 \in 0 .. Len(t) /\ n - 1 < n
      BY <1>9, <1>1, <2>3
    <2>5. s[n - 1] \in Int
      <3>1. n - 1 \notin Bad
        <4> HIDE DEF Bad
        <4> QED  BY <2>2, <2>4
      <3> QED  BY <2>4, <3>1
    <2> QED  BY <1>1, <1>9, <2>3, <2>4, <2>5
  <1>11. \A n \in 0 .. Len(t) : s[n] \in Int
    BY <1>10
  <1>12. s \in [0 .. Len(t) -> Int]
    BY <1>8, <1>11
  <1> QED  BY <1>7, <1>9, <1>12 DEF s

\* The rows of a table that hold no number, up to the n-th.
NoNumber(t, n) == \A k \in 1 .. n : t[k] = Word

\* What the first pass knows after n rows of t.
FirstSeen(t, n) ==
    /\ count = Stats!Sums(Stats!One, t)[n]
    /\ sum = Stats!Sums(Stats!Itself, t)[n]
    /\ count = 0 <=> NoNumber(t, n)
    /\ NoNumber(t, n) => min_value = NaN /\ max_value = NaN
    /\ ~NoNumber(t, n) =>
          /\ \E k \in 1 .. n : t[k] # Word /\ t[k] = min_value
          /\ \E k \in 1 .. n : t[k] # Word /\ t[k] = max_value
          /\ \A k \in 1 .. n : t[k] # Word => min_value <= t[k] /\ t[k] <= max_value

\* What the second pass knows after n rows of t.
SecondSeen(t, n) ==
    variance = count * count * Stats!Sums(Stats!Square, t)[n]
               - 2 * count * sum * Stats!Sums(Stats!Itself, t)[n]
               + Stats!Sums(Stats!One, t)[n] * sum * sum

StatsTypes ==
    /\ table \in Seq(Column) /\ seen \in Seq(Seq(Column)) /\ next_row \in Nat \ {0}
    /\ pc \in {"open", "first", "second", "none", "shown", "error"}
    /\ count \in Nat /\ sum \in Int /\ variance \in Int
    /\ min_value \in Numbers \cup {NaN} /\ max_value \in Numbers \cup {NaN}

StatsInv ==
    /\ StatsTypes
    /\ pc = "open" => /\ seen = <<>> /\ count = 0 /\ sum = 0 /\ variance = 0
                      /\ min_value = NaN /\ max_value = NaN
    /\ pc = "first" => /\ Len(seen) = 1 /\ next_row <= Len(seen[1]) + 1 /\ variance = 0
                       /\ FirstSeen(seen[1], next_row - 1)
    /\ pc = "none" => Len(seen) = 1 /\ NoNumber(seen[1], Len(seen[1]))
    /\ pc \in {"second", "shown"} =>
          /\ Len(seen) = 2 /\ next_row <= Len(seen[2]) + 1 /\ count # 0
          /\ FirstSeen(seen[1], Len(seen[1]))
          /\ SecondSeen(seen[2], next_row - 1)
          /\ pc = "shown" => next_row = Len(seen[2]) + 1

LEMMA RowsAdd ==
  ASSUME NEW t \in Seq(Column)
  PROVE  /\ Stats!Sums(Stats!One, t)[0] = 0 /\ Stats!Sums(Stats!Itself, t)[0] = 0
         /\ Stats!Sums(Stats!Square, t)[0] = 0
         /\ \A n \in 0 .. Len(t) : /\ Stats!Sums(Stats!One, t)[n] \in Int
                                   /\ Stats!Sums(Stats!Itself, t)[n] \in Int
                                   /\ Stats!Sums(Stats!Square, t)[n] \in Int
         /\ \A n \in 1 .. Len(t) :
              /\ Stats!Sums(Stats!One, t)[n] =
                    Stats!Sums(Stats!One, t)[n - 1] + IF t[n] = Word THEN 0 ELSE 1
              /\ Stats!Sums(Stats!Itself, t)[n] =
                    Stats!Sums(Stats!Itself, t)[n - 1] + IF t[n] = Word THEN 0 ELSE t[n]
              /\ Stats!Sums(Stats!Square, t)[n] =
                    Stats!Sums(Stats!Square, t)[n - 1] + IF t[n] = Word THEN 0 ELSE t[n] * t[n]
  <1>1. /\ Stats!One \in [Numbers -> Int] /\ Stats!Itself \in [Numbers -> Int]
        /\ Stats!Square \in [Numbers -> Int]
    BY NumbersAssumption DEF Stats!One, Stats!Itself, Stats!Square
  <1>2. ASSUME NEW n \in 1 .. Len(t)
        PROVE  /\ Worth(Stats!One, t, n) = IF t[n] = Word THEN 0 ELSE 1
               /\ Worth(Stats!Itself, t, n) = IF t[n] = Word THEN 0 ELSE t[n]
               /\ Worth(Stats!Square, t, n) = IF t[n] = Word THEN 0 ELSE t[n] * t[n]
    <2>1. t[n] \in Numbers \cup {Word}
      BY DEF Column
    <2> QED  BY <2>1 DEF Worth, Stats!One, Stats!Itself, Stats!Square
  <1>3. ASSUME NEW worth \in {Stats!One, Stats!Itself, Stats!Square}
        PROVE  /\ Stats!Sums(worth, t)[0] = 0
               /\ \A n \in 0 .. Len(t) : Stats!Sums(worth, t)[n] \in Int
               /\ \A n \in 1 .. Len(t) : Stats!Sums(worth, t)[n] =
                                          Stats!Sums(worth, t)[n - 1] + Worth(worth, t, n)
    <2>1. worth \in [Numbers -> Int]
      BY <1>1
    <2>2. /\ Stats!Sums(worth, t) \in [0 .. Len(t) -> Int] /\ Stats!Sums(worth, t)[0] = 0
          /\ \A n \in 1 .. Len(t) : Stats!Sums(worth, t)[n] =
                                     Stats!Sums(worth, t)[n - 1] + Worth(worth, t, n)
      BY <2>1, SumsAdd, Zenon
    <2> QED  BY <2>2
  <1>4. ASSUME NEW n \in 1 .. Len(t)
        PROVE  /\ Stats!Sums(Stats!One, t)[n] =
                     Stats!Sums(Stats!One, t)[n - 1] + Worth(Stats!One, t, n)
               /\ Stats!Sums(Stats!Itself, t)[n] =
                     Stats!Sums(Stats!Itself, t)[n - 1] + Worth(Stats!Itself, t, n)
               /\ Stats!Sums(Stats!Square, t)[n] =
                     Stats!Sums(Stats!Square, t)[n - 1] + Worth(Stats!Square, t, n)
    BY <1>3
  <1> QED  BY <1>2, <1>3, <1>4

LEMMA FirstRow ==
  ASSUME StatsTypes, NEW t \in Seq(Column), NEW n \in 1 .. Len(t), FirstSeen(t, n - 1),
         IF t[n] = Word
           THEN UNCHANGED <<count, sum, min_value, max_value>>
           ELSE /\ count' = count + 1 /\ sum' = sum + t[n]
                /\ min_value' = IF Stats!IsLess(min_value, t[n]) THEN t[n] ELSE min_value
                /\ max_value' = IF Stats!IsGreater(max_value, t[n]) THEN t[n] ELSE max_value
  PROVE  /\ FirstSeen(t, n)'
         /\ count' \in Nat /\ sum' \in Int
         /\ min_value' \in Numbers \cup {NaN} /\ max_value' \in Numbers \cup {NaN}
  <1>1. /\ Len(t) \in Nat /\ n \in Nat /\ \A k \in 1 .. n : k # n => k \in 1 .. n - 1
        /\ n \in 1 .. n /\ \A k \in 1 .. n - 1 : k \in 1 .. n /\ k \in 1 .. Len(t)
    OBVIOUS
  <1>2. /\ \A k \in 1 .. Len(t) : t[k] \in Column
        /\ count \in Nat /\ sum \in Int /\ min_value \in Numbers \cup {NaN}
        /\ max_value \in Numbers \cup {NaN}
    BY DEF StatsTypes
  <1>3. CASE t[n] = Word
    <2>1. /\ NoNumber(t, n) <=> NoNumber(t, n - 1)
          /\ Stats!Sums(Stats!One, t)[n] = Stats!Sums(Stats!One, t)[n - 1] + 0
          /\ Stats!Sums(Stats!Itself, t)[n] = Stats!Sums(Stats!Itself, t)[n - 1] + 0
      BY <1>1, <1>3, RowsAdd DEF NoNumber
    <2>2. n - 1 \in 0 .. Len(t)
      BY <1>1
    <2>3. /\ count' = Stats!Sums(Stats!One, t)[n] /\ sum' = Stats!Sums(Stats!Itself, t)[n]
          /\ UNCHANGED <<count, sum, min_value, max_value>>
      BY <2>1, <2>2, <1>2, <1>3, RowsAdd DEF FirstSeen
    <2> QED  BY <2>1, <2>3, <1>1, <1>2, <1>3 DEF FirstSeen
  <1>4. CASE t[n] # Word
    <2> DEFINE v == t[n]
    <2>1. v \in Numbers /\ v \in Int /\ v # NaN
      BY <1>2, <1>4, NumbersAssumption DEF Column
    <2>2. /\ ~NoNumber(t, n)
          /\ Stats!Sums(Stats!One, t)[n] = Stats!Sums(Stats!One, t)[n - 1] + 1
          /\ Stats!Sums(Stats!Itself, t)[n] = Stats!Sums(Stats!Itself, t)[n - 1] + v
      BY <1>1, <1>4, RowsAdd DEF NoNumber
    <2>3. /\ count' = count + 1 /\ sum' = sum + v
          /\ min_value' = IF Stats!IsLess(min_value, v) THEN v ELSE min_value
          /\ max_value' = IF Stats!IsGreater(max_value, v) THEN v ELSE max_value
      BY <1>4
    <2>4. /\ count' = Stats!Sums(Stats!One, t)[n] /\ sum' = Stats!Sums(Stats!Itself, t)[n]
          /\ count' \in Nat /\ count' # 0 /\ sum' \in Int
      BY <2>1, <2>2, <2>3, <1>2 DEF FirstSeen
    <2>5. CASE NoNumber(t, n - 1)
      <3>1. min_value = NaN /\ max_value = NaN
        BY <2>5 DEF FirstSeen
      <3>2. min_value' = v /\ max_value' = v
        BY <2>3, <3>1 DEF Stats!IsLess, Stats!IsGreater
      <3>3. \A k \in 1 .. n : t[k] # Word => t[k] = v
        BY <2>5, <1>1 DEF NoNumber
      <3>4. /\ \E k \in 1 .. n : t[k] # Word /\ t[k] = min_value'
            /\ \E k \in 1 .. n : t[k] # Word /\ t[k] = max_value'
            /\ \A k \in 1 .. n : t[k] # Word => min_value' <= t[k] /\ t[k] <= max_value'
        BY <3>2, <3>3, <2>1, <1>1, <1>4
      <3> QED  BY <3>2, <3>4, <2>1, <2>2, <2>4 DEF FirstSeen
    <2>6. CASE ~NoNumber(t, n - 1)
      <3>1. /\ \E k \in 1 .. n - 1 : t[k] # Word /\ t[k] = min_value
            /\ \E k \in 1 .. n - 1 : t[k] # Word /\ t[k] = max_value
            /\ \A k \in 1 .. n - 1 : t[k] # Word => min_value <= t[k] /\ t[k] <= max_value
        BY <2>6 DEF FirstSeen
      <3>2. /\ min_value \in Numbers /\ max_value \in Numbers
            /\ min_value # NaN /\ max_value # NaN
            /\ \A k \in 1 .. n - 1 : t[k] # Word => t[k] \in Int
        BY <3>1, <1>1, <1>2, NumbersAssumption DEF Column
      <3>3. /\ min_value' = IF min_value > v THEN v ELSE min_value
            /\ max_value' = IF max_value < v THEN v ELSE max_value
            /\ min_value \in Int /\ max_value \in Int
        BY <3>2, <2>3, NumbersAssumption DEF Stats!IsLess, Stats!IsGreater
      <3>4. /\ min_value' <= v /\ min_value' <= min_value /\ min_value' \in Int
            /\ v <= max_value' /\ max_value <= max_value' /\ max_value' \in Int
            /\ min_value' \in Numbers /\ max_value' \in Numbers
        BY <3>2, <3>3, <2>1
      <3>5. /\ \E k \in 1 .. n : t[k] # Word /\ t[k] = min_value'
            /\ \E k \in 1 .. n : t[k] # Word /\ t[k] = max_value'
        BY <3>1, <3>3, <1>1, <1>4
      <3>6. ASSUME NEW k \in 1 .. n, t[k] # Word
            PROVE  min_value' <= t[k] /\ t[k] <= max_value'
        <4>1. CASE k = n
          BY <4>1, <3>4
        <4>2. CASE k # n
          <5>1. k \in 1 .. n - 1
            BY <4>2, <1>1
          <5>2. t[k] \in Int /\ min_value <= t[k] /\ t[k] <= max_value
            BY <5>1, <3>1, <3>2, <3>6
          <5> QED  BY <5>2, <3>3, <3>4
        <4> QED  BY <4>1, <4>2
      <3> QED  BY <3>4, <3>5, <3>6, <2>2, <2>4 DEF FirstSeen
    <2> QED  BY <2>5, <2>6
  <1> QED  BY <1>3, <1>4

LEMMA SecondRow ==
  ASSUME StatsTypes, NEW t \in Seq(Column), NEW n \in 1 .. Len(t), SecondSeen(t, n - 1),
         UNCHANGED <<count, sum>>,
         variance' = IF t[n] = Word THEN variance
                     ELSE LET diff == count * t[n] - sum IN variance + diff * diff
  PROVE  SecondSeen(t, n)' /\ variance' \in Int
  <1> DEFINE one  == Stats!Sums(Stats!One, t)[n - 1]
             self == Stats!Sums(Stats!Itself, t)[n - 1]
             sq   == Stats!Sums(Stats!Square, t)[n - 1]
  <1>1. n - 1 \in 0 .. Len(t) /\ t[n] \in Column
    OBVIOUS
  <1>2. /\ one \in Int /\ self \in Int /\ sq \in Int /\ count \in Int /\ sum \in Int
        /\ variance \in Int
    BY <1>1, RowsAdd DEF StatsTypes
  <1>3. variance = count * count * sq - 2 * count * sum * self + one * sum * sum
    BY DEF SecondSeen
  <1>4. CASE t[n] = Word
    <2>1. /\ Stats!Sums(Stats!One, t)[n] = one + 0
          /\ Stats!Sums(Stats!Itself, t)[n] = self + 0
          /\ Stats!Sums(Stats!Square, t)[n] = sq + 0
      BY <1>4, RowsAdd
    <2>2. one + 0 = one /\ self + 0 = self /\ sq + 0 = sq
      <3> HIDE DEF one, self, sq
      <3> QED  BY <1>2
    <2>3. variance' = variance /\ count' = count /\ sum' = sum
      BY <1>4
    <2> QED  BY <2>1, <2>2, <2>3, <1>2, <1>3 DEF SecondSeen
  <1>5. CASE t[n] # Word
    <2> DEFINE v == t[n]
    <2>1. v \in Int
      BY <1>1, <1>5, NumbersAssumption DEF Column
    <2>2. /\ Stats!Sums(Stats!One, t)[n] = one + 1
          /\ Stats!Sums(Stats!Itself, t)[n] = self + v
          /\ Stats!Sums(Stats!Square, t)[n] = sq + v * v
      BY <1>5, RowsAdd
    <2>3. variance' = variance + (count * v - sum) * (count * v - sum)
      BY <1>5
    <2>4. /\ variance' = count * count * (sq + v * v) - 2 * count * sum * (self + v)
                         + (one + 1) * sum * sum
          /\ variance' \in Int
      <3>1. \A c, s, o, z, q, x \in Int :
               (c * c * q - 2 * c * s * z + o * s * s) + (c * x - s) * (c * x - s)
                 = c * c * (q + x * x) - 2 * c * s * (z + x) + (o + 1) * s * s
        OBVIOUS
      <3> HIDE DEF one, self, sq, v
      <3>2. (count * v - sum) * (count * v - sum) \in Int
        BY <1>2, <2>1
      <3> QED  BY <3>1, <3>2, <2>1, <2>3, <1>2, <1>3
    <2> QED  BY <2>2, <2>4 DEF SecondSeen
  <1> QED  BY <1>4, <1>5

LEMMA StatsStart ==
  ASSUME Stats!Init
  PROVE  StatsInv
  <1>1. table \in Seq(Column)
    BY DEF Stats!Init, Stats!Tables, Stats!BoundedSeq, Stats!SeqOf, Column
  <1>2. /\ pc = "open" /\ seen = <<>> /\ seen \in Seq(Seq(Column)) /\ next_row = 1
        /\ count = 0 /\ sum = 0 /\ variance = 0 /\ min_value = NaN /\ max_value = NaN
    BY DEF Stats!Init
  <1> QED  BY <1>1, <1>2 DEF StatsInv, StatsTypes

\* A query sees the table that is committed when it begins.
LEMMA QueryBegins ==
  ASSUME StatsTypes, NEW pass \in {"first", "second"}, Stats!Query(pass)
  PROVE  /\ pc' \in {pass, "error"} /\ next_row' \in Nat \ {0} /\ seen' \in Seq(Seq(Column))
         /\ pc' # "error" => /\ next_row' = 1 /\ Len(seen') = Len(seen) + 1
                             /\ \A k \in 1 .. Len(seen) : seen'[k] = seen[k]
                             /\ seen'[Len(seen) + 1] \in Seq(Column)
  <1>1. seen \in Seq(Seq(Column)) /\ table \in Seq(Column) /\ next_row \in Nat \ {0}
    BY DEF StatsTypes
  <1>2. CASE pc' = pass /\ seen' = Append(seen, table) /\ next_row' = 1
    BY <1>1, <1>2
  <1>3. CASE pc' = "error" /\ UNCHANGED <<seen, next_row>>
    BY <1>1, <1>3
  <1> QED  BY <1>2, <1>3 DEF Stats!Query

LEMMA StatsSteps ==
  ASSUME StatsInv, Stats!Next
  PROVE  StatsInv'
  <1>1. /\ StatsTypes /\ table \in Seq(Column) /\ seen \in Seq(Seq(Column))
        /\ next_row \in Nat \ {0}
    BY DEF StatsInv, StatsTypes
  <1>s. /\ Len(seen) \in Nat /\ \A k \in 1 .. Len(seen) : seen[k] \in Seq(Column)
        /\ 1 \in 1 .. 1 /\ 1 \in 1 .. 2 /\ 2 \in 1 .. 2
    BY <1>1
  <1>2. CASE Stats!Begin
    <2>1. /\ pc = "open" /\ Stats!Query("first") /\ seen = <<>>
          /\ count = 0 /\ sum = 0 /\ variance = 0 /\ min_value = NaN /\ max_value = NaN
          /\ UNCHANGED <<table, count, sum, min_value, max_value, variance>>
      BY <1>2 DEF Stats!Begin, StatsInv
    <2>2. /\ pc' \in {"first", "error"} /\ next_row' \in Nat \ {0}
          /\ seen' \in Seq(Seq(Column))
          /\ pc' # "error" => next_row' = 1 /\ Len(seen') = 1 /\ seen'[1] \in Seq(Column)
      BY <2>1, <1>1, QueryBegins
    <2>3. StatsTypes'
      BY <2>1, <2>2 DEF StatsInv, StatsTypes
    <2>4. ASSUME pc' = "first"
          PROVE  FirstSeen(seen[1], next_row - 1)'
      <3>1. PICK t \in Seq(Column) : t = seen'[1]
        BY <2>2, <2>4
      <3>2. next_row' - 1 = 0
        BY <2>2, <2>4
      <3>3. NoNumber(t, 0)
        BY DEF NoNumber
      <3>4. /\ Stats!Sums(Stats!One, t)[0] = 0 /\ Stats!Sums(Stats!Itself, t)[0] = 0
        BY RowsAdd
      <3>5. FirstSeen(t, 0)'
        BY <2>1, <3>3, <3>4 DEF FirstSeen
      <3> QED  BY <3>1, <3>2, <3>5
    <2> QED  BY <2>1, <2>2, <2>3, <2>4 DEF StatsInv
  <1>3. CASE Stats!FirstPassCallback
    <2>1. /\ pc = "first" /\ Len(seen) = 1 /\ variance = 0
          /\ FirstSeen(seen[1], next_row - 1) /\ next_row <= Len(seen[1])
          /\ next_row' = next_row + 1 /\ UNCHANGED <<table, pc, seen, variance>>
      BY <1>3 DEF Stats!FirstPassCallback, Stats!HasRow, StatsInv
    <2>2. PICK t, n : /\ t = seen[1] /\ n = next_row
                      /\ t \in Seq(Column) /\ n \in 1 .. Len(t)
      <3>1. seen[1] \in Seq(Column)
        BY <2>1, <1>s
      <3>2. next_row \in 1 .. Len(seen[1])
        BY <3>1, <2>1, <1>1
      <3> QED  BY <3>1, <3>2
    <2>3. IF t[n] = Word
            THEN UNCHANGED <<count, sum, min_value, max_value>>
            ELSE /\ count' = count + 1 /\ sum' = sum + t[n]
                 /\ min_value' = IF Stats!IsLess(min_value, t[n]) THEN t[n] ELSE min_value
                 /\ max_value' = IF Stats!IsGreater(max_value, t[n]) THEN t[n] ELSE max_value
      BY <1>3, <2>1, <2>2 DEF Stats!FirstPassCallback, Stats!Row
    <2>4. /\ FirstSeen(t, n)' /\ count' \in Nat /\ sum' \in Int
          /\ min_value' \in Numbers \cup {NaN} /\ max_value' \in Numbers \cup {NaN}
      BY <2>1, <2>2, <2>3, <1>1, FirstRow
    <2>5. next_row' - 1 = n /\ next_row' \in Nat \ {0} /\ next_row' <= Len(t) + 1
      BY <2>1, <2>2, <1>1
    <2>6. StatsTypes'
      BY <2>1, <2>4, <2>5 DEF StatsInv, StatsTypes
    <2>7. FirstSeen(seen[1], next_row - 1)'
      <3>1. seen'[1] = t
        BY <2>1, <2>2
      <3> QED  BY <3>1, <2>4, <2>5
    <2> QED  BY <2>1, <2>2, <2>5, <2>6, <2>7 DEF StatsInv
  <1>4. CASE Stats!BetweenPasses
    <2>1. /\ pc = "first" /\ Len(seen) = 1 /\ variance = 0
          /\ FirstSeen(seen[1], next_row - 1) /\ ~(next_row <= Len(seen[1]))
          /\ next_row <= Len(seen[1]) + 1
          /\ UNCHANGED <<table, count, sum, min_value, max_value, variance>>
      BY <1>4 DEF Stats!BetweenPasses, Stats!HasRow, StatsInv
    <2>2. PICK t \in Seq(Column) : t = seen[1]
      BY <2>1, <1>s
    <2>3. FirstSeen(t, Len(t)) /\ FirstSeen(t, Len(t))'
      <3>1. next_row - 1 = Len(t)
        BY <2>1, <2>2, <1>1
      <3>2. FirstSeen(t, Len(t))
        BY <3>1, <2>1, <2>2
      <3> QED  BY <3>2, <2>1 DEF FirstSeen
    <2>4. CASE count = 0
      <3>1. pc' = "none" /\ UNCHANGED <<seen, next_row>>
        BY <2>4, <1>4 DEF Stats!BetweenPasses
      <3>2. NoNumber(t, Len(t))
        BY <2>3, <2>4 DEF FirstSeen
      <3>3. StatsTypes'
        BY <3>1, <2>1 DEF StatsInv, StatsTypes
      <3> QED  BY <3>1, <3>2, <3>3, <2>1, <2>2 DEF StatsInv
    <2>5. CASE count # 0
      <3>1. Stats!Query("second")
        BY <2>5, <1>4 DEF Stats!BetweenPasses
      <3>2. /\ pc' \in {"second", "error"} /\ next_row' \in Nat \ {0}
            /\ seen' \in Seq(Seq(Column))
            /\ pc' # "error" => /\ next_row' = 1 /\ Len(seen') = 2 /\ seen'[1] = t
                                /\ seen'[2] \in Seq(Column)
        BY <3>1, <2>1, <2>2, <1>1, QueryBegins
      <3>3. StatsTypes'
        BY <3>2, <2>1 DEF StatsInv, StatsTypes
      <3>4. ASSUME pc' = "second"
            PROVE  SecondSeen(seen[2], next_row - 1)' /\ FirstSeen(seen[1], Len(seen[1]))'
        <4>1. PICK u \in Seq(Column) : u = seen'[2]
          BY <3>2, <3>4
        <4>2. next_row' - 1 = 0 /\ seen'[1] = t
          BY <3>2, <3>4
        <4>3. /\ Stats!Sums(Stats!One, u)[0] = 0 /\ Stats!Sums(Stats!Itself, u)[0] = 0
              /\ Stats!Sums(Stats!Square, u)[0] = 0
          BY RowsAdd
        <4>4. SecondSeen(u, 0)'
          <5>1. variance' = 0 /\ count' \in Int /\ sum' \in Int
            BY <2>1, <1>1 DEF StatsTypes
          <5>2. \A c, s \in Int : 0 = c * c * 0 - 2 * c * s * 0 + 0 * s * s
            OBVIOUS
          <5> QED  BY <5>1, <5>2, <4>3 DEF SecondSeen
        <4> QED  BY <4>1, <4>2, <4>4, <2>3
      <3>5. next_row' <= Len(seen'[2]) + 1 \/ pc' = "error"
        BY <3>2
      <3>6. count' # 0
        BY <2>1, <2>5
      <3> QED  BY <3>2, <3>3, <3>4, <3>5, <3>6 DEF StatsInv
    <2> QED  BY <2>4, <2>5
  <1>5. CASE Stats!SecondPassCallback
    <2>1. /\ pc = "second" /\ Len(seen) = 2 /\ count # 0
          /\ FirstSeen(seen[1], Len(seen[1])) /\ SecondSeen(seen[2], next_row - 1)
          /\ next_row <= Len(seen[2]) /\ next_row' = next_row + 1
          /\ UNCHANGED <<table, pc, seen, count, sum, min_value, max_value>>
      BY <1>5 DEF Stats!SecondPassCallback, Stats!HasRow, StatsInv
    <2>2. PICK t, n : /\ t = seen[2] /\ n = next_row
                      /\ t \in Seq(Column) /\ n \in 1 .. Len(t)
      <3>1. seen[2] \in Seq(Column)
        BY <2>1, <1>s
      <3>2. next_row \in 1 .. Len(seen[2])
        BY <3>1, <2>1, <1>1
      <3> QED  BY <3>1, <3>2
    <2>3. variance' = IF t[n] = Word THEN variance
                      ELSE LET diff == count * t[n] - sum IN variance + diff * diff
      BY <1>5, <2>1, <2>2 DEF Stats!SecondPassCallback, Stats!Row
    <2>4. SecondSeen(t, n)' /\ variance' \in Int
      BY <2>1, <2>2, <2>3, <1>1, SecondRow
    <2>5. next_row' - 1 = n /\ next_row' \in Nat \ {0} /\ next_row' <= Len(t) + 1
      BY <2>1, <2>2, <1>1
    <2>6. StatsTypes'
      BY <2>1, <2>4, <2>5 DEF StatsInv, StatsTypes
    <2>7. SecondSeen(seen[2], next_row - 1)'
      <3>1. seen'[2] = t
        BY <2>1, <2>2
      <3> QED  BY <3>1, <2>4, <2>5
    <2>8. FirstSeen(seen[1], Len(seen[1]))'
      BY <2>1 DEF FirstSeen
    <2> QED  BY <2>1, <2>2, <2>5, <2>6, <2>7, <2>8 DEF StatsInv
  <1>6. CASE Stats!Report
    <2>1. /\ pc = "second" /\ pc' = "shown" /\ ~(next_row <= Len(seen[2])) /\ Len(seen) = 2
          /\ UNCHANGED <<table, seen, next_row, count, sum, min_value, max_value, variance>>
      BY <1>6 DEF Stats!Report, Stats!HasRow, StatsInv
    <2>2. next_row <= Len(seen[2]) + 1 /\ Len(seen[2]) \in Nat
      BY <2>1, <1>1 DEF StatsInv
    <2>3. next_row = Len(seen[2]) + 1
      BY <2>1, <2>2, <1>1
    <2> QED  BY <2>1, <2>3 DEF StatsInv, StatsTypes, FirstSeen, SecondSeen
  <1>7. CASE Stats!QueryFails
    BY <1>7 DEF Stats!QueryFails, StatsInv, StatsTypes
  <1>8. CASE Stats!Commit
    <2>1. table' \in Seq(Column)
      BY <1>8 DEF Stats!Commit, Stats!Tables, Stats!BoundedSeq, Stats!SeqOf, Column
    <2> QED  BY <2>1, <1>8 DEF Stats!Commit, StatsInv, StatsTypes, FirstSeen
  <1> QED  BY <1>2, <1>3, <1>4, <1>5, <1>6, <1>7, <1>8 DEF Stats!Next

LEMMA MomentsShown ==
  ASSUME StatsInv
  PROVE  Stats!MomentsOfOneTable
  <1>1. StatsTypes /\ seen \in Seq(Seq(Column))
    BY DEF StatsInv, StatsTypes
  <1>2. ASSUME pc = "none"
        PROVE  Stats!NumbersIn(seen[1]) = {}
    <2>1. NoNumber(seen[1], Len(seen[1])) /\ Len(seen) = 1
      BY <1>2 DEF StatsInv
    <2>2. seen[1] \in Seq(Column)
      BY <1>1, <2>1
    <2> QED  BY <2>1, <2>2 DEF NoNumber, Stats!NumbersIn
  <1>3. ASSUME pc = "shown"
        PROVE  /\ count = Stats!Count(seen[1]) /\ sum = Stats!Sum(seen[1])
               /\ min_value = Stats!Min(Stats!NumbersIn(seen[1]))
               /\ max_value = Stats!Max(Stats!NumbersIn(seen[1]))
               /\ variance = count * count * Stats!SumSquares(seen[2])
                            - 2 * count * sum * Stats!Sum(seen[2])
                            + Stats!Count(seen[2]) * sum * sum
               /\ seen[1] = seen[2] =>
                     variance = count * (count * Stats!SumSquares(seen[1]) - sum * sum)
    <2>1. /\ count # 0 /\ FirstSeen(seen[1], Len(seen[1])) /\ SecondSeen(seen[2], next_row - 1)
          /\ next_row = Len(seen[2]) + 1 /\ Len(seen) = 2
      BY <1>3 DEF StatsInv
    <2>2. PICK s \in Seq(Column), t \in Seq(Column) : s = seen[1] /\ t = seen[2]
      BY <2>1, <1>1
    <2>3. FirstSeen(s, Len(s)) /\ SecondSeen(t, Len(t))
      <3>1. next_row - 1 = Len(t)
        BY <2>1, <2>2
      <3> QED  BY <3>1, <2>1, <2>2
    <2>4. count = Stats!Count(s) /\ sum = Stats!Sum(s)
      BY <2>3 DEF FirstSeen, Stats!Count, Stats!Sum
    <2>5. /\ \E k \in 1 .. Len(s) : s[k] # Word /\ s[k] = min_value
          /\ \E k \in 1 .. Len(s) : s[k] # Word /\ s[k] = max_value
          /\ \A k \in 1 .. Len(s) : s[k] # Word => min_value <= s[k] /\ s[k] <= max_value
      BY <2>1, <2>3 DEF FirstSeen
    <2>6. /\ min_value \in Stats!NumbersIn(s) /\ max_value \in Stats!NumbersIn(s)
          /\ \A v \in Stats!NumbersIn(s) : v \in Int /\ min_value <= v /\ v <= max_value
      <3>1. /\ \A k \in 1 .. Len(s) : s[k] # Word => s[k] \in Int
            /\ DOMAIN s = 1 .. Len(s)
        <4>1. s \in Seq(Numbers \cup {Word})
          BY <2>2 DEF Column
        <4>2. DOMAIN s = 1 .. Len(s) /\ \A k \in 1 .. Len(s) : s[k] \in Numbers \cup {Word}
          BY <4>1
        <4>3. \A v \in Numbers \cup {Word} : v # Word => v \in Int
          BY NumbersAssumption
        <4> QED  BY <4>2, <4>3
      <3> QED  BY <2>5, <3>1 DEF Stats!NumbersIn
    <2>7. /\ min_value = Stats!Min(Stats!NumbersIn(s))
          /\ max_value = Stats!Max(Stats!NumbersIn(s))
      <3> DEFINE S == Stats!NumbersIn(s)
      <3>1. \A v \in S : (\A w \in S : v <= w) => v = min_value
        BY <2>6
      <3>2. \A v \in S : (\A w \in S : v >= w) => v = max_value
        BY <2>6
      <3>3. (\A w \in S : min_value <= w) /\ (\A w \in S : max_value >= w)
        BY <2>6
      <3>4. min_value \in S /\ max_value \in S
        BY <2>6
      <3> HIDE DEF S
      <3>5. min_value = CHOOSE v \in S : \A w \in S : v <= w
        BY <3>1, <3>3, <3>4
      <3>6. max_value = CHOOSE v \in S : \A w \in S : v >= w
        BY <3>2, <3>3, <3>4
      <3> QED  BY <3>5, <3>6 DEF S, Stats!Min, Stats!Max
    <2>8. variance = count * count * Stats!SumSquares(t) - 2 * count * sum * Stats!Sum(t)
                     + Stats!Count(t) * sum * sum
      BY <2>3 DEF SecondSeen, Stats!SumSquares, Stats!Sum, Stats!Count
    <2>9. s = t => variance = count * (count * Stats!SumSquares(s) - sum * sum)
      <3>1. count \in Int /\ sum \in Int /\ Stats!SumSquares(t) \in Int
        <4>1. Len(t) \in 0 .. Len(t)
          OBVIOUS
        <4> QED  BY <4>1, <1>1, RowsAdd DEF StatsTypes, Stats!SumSquares
      <3>2. \A c, z, q \in Int : c * c * q - 2 * c * z * z + c * z * z = c * (c * q - z * z)
        OBVIOUS
      <3>3. PICK q \in Int : q = Stats!SumSquares(t)
        BY <3>1
      <3>4. s = t => variance = count * count * q - 2 * count * sum * sum + count * sum * sum
        BY <3>3, <2>4, <2>8
      <3>5. s = t => variance = count * (count * q - sum * sum)
        BY <3>1, <3>2, <3>4
      <3> QED  BY <3>3, <3>5
    <2> QED  BY <2>2, <2>4, <2>7, <2>8, <2>9
  <1> QED  BY <1>2, <1>3 DEF Stats!MomentsOfOneTable

\* What the column statistics print are moments of one table, but for a variance
\* that another process has come between: for tables of any length and any integers.
THEOREM MomentsAreOfOneTable == Spec => []MomentsOfOneTable
  <1> DEFINE I == program = "stats" => StatsInv
  <1>1. Init => I
    BY StatsStart DEF Init
  <1>2. I /\ [Next]_vars => I'
    <2> SUFFICES ASSUME I, [Next]_vars, program' = "stats"
                 PROVE  StatsInv'
      OBVIOUS
    <2>1. CASE Summarize
      BY <2>1, StatsSteps DEF Summarize
    <2>2. CASE UNCHANGED vars
      <3>1. /\ program = "stats"
            /\ UNCHANGED <<table, pc, seen, next_row, count, sum, min_value, max_value,
                           variance>>
        BY <2>2 DEF vars, statVars
      <3> QED  BY <3>1 DEF StatsInv, StatsTypes, FirstSeen, SecondSeen
    <2>3. CASE SlideAgain \/ Play \/ ListZip \/ Checksum \/ AskFiglet \/ WriteLog
      BY <2>3 DEF SlideAgain, Play, ListZip, Checksum, AskFiglet, WriteLog
    <2> QED  BY <2>1, <2>2, <2>3 DEF Next
  <1>3. I => MomentsOfOneTable
    BY MomentsShown DEF MomentsOfOneTable
  <1> QED  BY <1>1, <1>2, <1>3, PTL DEF Spec

-----------------------------------------------------------------------------
(* The logger: what keeps lines whole and calls away from a closed FILE.   *)

USE DEF Log!Threads, Log!InLog, Log!InClean

\* The statics, as the only thread that writes them sees them.
OwnerInv ==
    /\ pc[Owner] \in {"idle", "set"} \cup Log!InLog \cup Log!InClean
    /\ pc[Owner] = "idle" => (initialized <=> log_fp = "open")
    /\ pc[Owner] \in Log!InLog => initialized /\ log_fp = "open"
    /\ pc[Owner] = "set" => log_fp = "open"
    /\ pc[Owner] \in Log!InClean => log_fp # "open"
    /\ log_fp # "open" => unflushed = {}

\* A call that goes on without a file has a cleanup to blame.
OverlapInv ==
    /\ log_fp # "open" => \A t \in Log!Threads : pc[t] \in Log!InLog => t \in overlapped
    /\ \A t \in Log!Threads : pc[t] = "crashed" => t \in Workers \cap overlapped

\* Who holds the mutex writes; lines begin and end under it.
LineInv ==
    /\ \A t \in Log!Threads : /\ pc[t] \in Log!InLog \ {"lock"} => lock = t
                              /\ pc[t] = "text" => line = t
    /\ line # NoOne => line \in Log!Threads /\ pc[line] = "text"
    /\ "line" \in unflushed => \E t \in Log!Threads : pc[t] \in {"text", "flush"}

LifeInv ==
    /\ life = "fresh" => /\ ~destroyed /\ overlapped = {} /\ pc[Owner] \notin Log!InClean
                         /\ LineInv
    /\ life = "cleaned" => log_fp # "open"
    /\ mixed => life = "reopened"

LogInv == Log!TypeOK /\ OwnerInv /\ OverlapInv /\ LifeInv

LEMMA LogStarts == Log!Init => LogInv
BY ThreadAssumption DEF Log!Init, LogInv, Log!TypeOK, OwnerInv, OverlapInv, LifeInv, LineInv

-----------------------------------------------------------------------------
(* One lemma per part of the invariant, one step per action.               *)

LEMMA TypeStep == Log!TypeOK /\ Log!Next => Log!TypeOK'
<1> SUFFICES ASSUME Log!TypeOK, Log!Next PROVE Log!TypeOK'
    OBVIOUS
<1> USE ThreadAssumption DEF Log!TypeOK, Log!Go, Log!mutex, Log!file
<1>1. ASSUME NEW t \in Log!Threads, Log!Call(t) PROVE Log!TypeOK'
    BY <1>1 DEF Log!Call
<1>2. ASSUME NEW t \in Log!Threads, Log!Lock(t) PROVE Log!TypeOK'
    BY <1>2 DEF Log!Lock
<1>3. ASSUME NEW t \in Log!Threads, Log!Prefix(t) PROVE Log!TypeOK'
    BY <1>3 DEF Log!Prefix, Log!Use
<1>4. ASSUME NEW t \in Log!Threads, Log!Text(t) PROVE Log!TypeOK'
    BY <1>4 DEF Log!Text, Log!Use
<1>5. ASSUME NEW t \in Log!Threads, Log!Flush(t) PROVE Log!TypeOK'
    BY <1>5 DEF Log!Flush, Log!Use
<1>6. ASSUME NEW t \in Log!Threads, Log!Trace(t) PROVE Log!TypeOK'
    BY <1>6 DEF Log!Trace, Log!Use
<1>7. ASSUME NEW t \in Log!Threads, Log!Crash(t) PROVE Log!TypeOK'
    BY <1>7 DEF Log!Crash
<1>8. ASSUME NEW t \in Log!Threads, Log!Unlock(t) PROVE Log!TypeOK'
    BY <1>8 DEF Log!Unlock
<1>9. CASE Log!OpenLog
    BY <1>9 DEF Log!OpenLog
<1>10. CASE Log!SetInitialized
    BY <1>10 DEF Log!SetInitialized
<1>11. CASE Log!Close
    BY <1>11 DEF Log!Close
<1>12. CASE Log!Destroy
    BY <1>12 DEF Log!Destroy
<1>13. CASE Log!Reset
    BY <1>13 DEF Log!Reset
<1>14. QED
    BY <1>1, <1>2, <1>3, <1>4, <1>5, <1>6, <1>7, <1>8, <1>9, <1>10, <1>11, <1>12, <1>13 DEF Log!Next

LEMMA OwnerStep == Log!TypeOK /\ OwnerInv /\ Log!Next => OwnerInv'
<1> SUFFICES ASSUME Log!TypeOK, OwnerInv, Log!Next PROVE OwnerInv'
    OBVIOUS
<1> USE ThreadAssumption DEF Log!TypeOK, OwnerInv, Log!Go, Log!mutex, Log!file
<1>1. ASSUME NEW t \in Log!Threads, Log!Call(t) PROVE OwnerInv'
    BY <1>1 DEF Log!Call
<1>2. ASSUME NEW t \in Log!Threads, Log!Lock(t) PROVE OwnerInv'
    BY <1>2 DEF Log!Lock
<1>3. ASSUME NEW t \in Log!Threads, Log!Prefix(t) PROVE OwnerInv'
    BY <1>3 DEF Log!Prefix, Log!Use
<1>4. ASSUME NEW t \in Log!Threads, Log!Text(t) PROVE OwnerInv'
    BY <1>4 DEF Log!Text, Log!Use
<1>5. ASSUME NEW t \in Log!Threads, Log!Flush(t) PROVE OwnerInv'
    BY <1>5 DEF Log!Flush, Log!Use
<1>6. ASSUME NEW t \in Log!Threads, Log!Trace(t) PROVE OwnerInv'
    BY <1>6 DEF Log!Trace, Log!Use
<1>7. ASSUME NEW t \in Log!Threads, Log!Crash(t) PROVE OwnerInv'
    BY <1>7 DEF Log!Crash
<1>8. ASSUME NEW t \in Log!Threads, Log!Unlock(t) PROVE OwnerInv'
    BY <1>8 DEF Log!Unlock
<1>9. CASE Log!OpenLog
    BY <1>9 DEF Log!OpenLog
<1>10. CASE Log!SetInitialized
    BY <1>10 DEF Log!SetInitialized
<1>11. CASE Log!Close
    BY <1>11 DEF Log!Close
<1>12. CASE Log!Destroy
    BY <1>12 DEF Log!Destroy
<1>13. CASE Log!Reset
    BY <1>13 DEF Log!Reset
<1>14. QED
    BY <1>1, <1>2, <1>3, <1>4, <1>5, <1>6, <1>7, <1>8, <1>9, <1>10, <1>11, <1>12, <1>13 DEF Log!Next

LEMMA OverlapStep == Log!TypeOK /\ OwnerInv /\ OverlapInv /\ Log!Next => OverlapInv'
<1> SUFFICES ASSUME Log!TypeOK, OwnerInv, OverlapInv, Log!Next PROVE OverlapInv'
    OBVIOUS
<1> USE ThreadAssumption DEF Log!TypeOK, OwnerInv, OverlapInv, Log!Go, Log!mutex, Log!file
<1>1. ASSUME NEW t \in Log!Threads, Log!Call(t) PROVE OverlapInv'
    BY <1>1 DEF Log!Call
<1>2. ASSUME NEW t \in Log!Threads, Log!Lock(t) PROVE OverlapInv'
    BY <1>2 DEF Log!Lock
<1>3. ASSUME NEW t \in Log!Threads, Log!Prefix(t) PROVE OverlapInv'
    BY <1>3 DEF Log!Prefix, Log!Use
<1>4. ASSUME NEW t \in Log!Threads, Log!Text(t) PROVE OverlapInv'
    BY <1>4 DEF Log!Text, Log!Use
<1>5. ASSUME NEW t \in Log!Threads, Log!Flush(t) PROVE OverlapInv'
    BY <1>5 DEF Log!Flush, Log!Use
<1>6. ASSUME NEW t \in Log!Threads, Log!Trace(t) PROVE OverlapInv'
    BY <1>6 DEF Log!Trace, Log!Use
<1>7. ASSUME NEW t \in Log!Threads, Log!Crash(t) PROVE OverlapInv'
    BY <1>7 DEF Log!Crash
<1>8. ASSUME NEW t \in Log!Threads, Log!Unlock(t) PROVE OverlapInv'
    BY <1>8 DEF Log!Unlock
<1>9. CASE Log!OpenLog
    BY <1>9 DEF Log!OpenLog
<1>10. CASE Log!SetInitialized
    BY <1>10 DEF Log!SetInitialized
<1>11. CASE Log!Close
    BY <1>11 DEF Log!Close
<1>12. CASE Log!Destroy
    BY <1>12 DEF Log!Destroy
<1>13. CASE Log!Reset
    BY <1>13 DEF Log!Reset
<1>14. QED
    BY <1>1, <1>2, <1>3, <1>4, <1>5, <1>6, <1>7, <1>8, <1>9, <1>10, <1>11, <1>12, <1>13 DEF Log!Next

\* A thread that is about to write finds its own line begun, or none.
LEMMA OneWriter ==
    ASSUME NEW t \in Log!Threads, LineInv
    PROVE  /\ pc[t] \in {"prefix", "trace"} => line = NoOne
           /\ pc[t] = "text" => line = t
  <1>1. \A u \in Log!Threads :
            pc[u] \in {"prefix", "text", "flush", "trace", "unlock"} => lock = u
    BY DEF LineInv
  <1>2. pc[t] = "text" => line = t
    BY DEF LineInv
  <1>3. ASSUME pc[t] \in {"prefix", "trace"}, line # NoOne
        PROVE  FALSE
    <2>1. line \in Log!Threads /\ pc[line] = "text"
      BY <1>3 DEF LineInv
    <2>2. lock = t /\ lock = line
      BY <1>1, <1>3, <2>1
    <2> QED  BY <1>3, <2>1, <2>2
  <1> QED  BY <1>2, <1>3

\* While no cleanup has been, one thread at a time writes.
LEMMA LineStep ==
    /\ Log!TypeOK /\ OwnerInv /\ OverlapInv /\ LifeInv
    /\ life = "fresh" /\ life' = "fresh" /\ Log!Next
    => LineInv'
<1> SUFFICES ASSUME Log!TypeOK, OwnerInv, OverlapInv, LifeInv,
                    life = "fresh", life' = "fresh", Log!Next
             PROVE  LineInv'
    OBVIOUS
<1>a. /\ LineInv /\ ~destroyed /\ overlapped = {} /\ pc[Owner] \notin Log!InClean
      /\ pc \in [Log!Threads -> {"idle", "set", "crashed"} \cup Log!InLog \cup Log!InClean]
    BY DEF LifeInv, Log!TypeOK
<1>b. NoOne \notin Log!Threads /\ (log_fp # "open" => \A t \in Log!Threads : pc[t] \notin Log!InLog)
    BY <1>a, ThreadAssumption DEF OverlapInv
<1> USE <1>a DEF LineInv, Log!Go, Log!mutex, Log!file
<1>1. ASSUME NEW t \in Log!Threads, Log!Call(t) PROVE LineInv'
    BY <1>1, <1>b DEF Log!Call
<1>2. ASSUME NEW t \in Log!Threads, Log!Lock(t) PROVE LineInv'
    BY <1>2, <1>b DEF Log!Lock
<1>3. ASSUME NEW t \in Log!Threads, Log!Prefix(t) PROVE LineInv'
    <2>1. /\ pc[t] = "prefix" /\ pc' = [pc EXCEPT ![t] = "text"]
          /\ lock' = lock /\ line' = t /\ unflushed' = unflushed \cup {"line"}
        BY <1>3 DEF Log!Prefix, Log!Use
    <2>2. \A u \in Log!Threads :
            pc[u] \in {"prefix", "text", "flush", "trace", "unlock"} => lock = u
        BY <1>a DEF LineInv, Log!InLog
    <2>3. lock = t
        BY <2>1, <2>2
    <2>4. \A u \in Log!Threads \ {t} : pc[u] \notin Log!InLog \ {"lock"}
        BY <2>2, <2>3
    <2> QED  BY <2>1, <2>3, <2>4, <1>b
<1>4. ASSUME NEW t \in Log!Threads, Log!Text(t) PROVE LineInv'
    <2>1. /\ pc[t] = "text" /\ pc' = [pc EXCEPT ![t] = "flush"]
          /\ lock' = lock /\ line' = NoOne /\ unflushed' = unflushed \cup {"line"}
        BY <1>4 DEF Log!Text, Log!Use
    <2>2. \A u \in Log!Threads :
            pc[u] \in {"prefix", "text", "flush", "trace", "unlock"} => lock = u
        BY <1>a DEF LineInv, Log!InLog
    <2>3. lock = t
        BY <2>1, <2>2
    <2>4. \A u \in Log!Threads \ {t} : pc[u] \notin Log!InLog \ {"lock"}
        BY <2>2, <2>3
    <2> QED  BY <2>1, <2>3, <2>4, <1>b
<1>5. ASSUME NEW t \in Log!Threads, Log!Flush(t) PROVE LineInv'
    BY <1>5, <1>b DEF Log!Flush, Log!Use
<1>6. ASSUME NEW t \in Log!Threads, Log!Trace(t) PROVE LineInv'
    BY <1>6, <1>b DEF Log!Trace, Log!Use
<1>7. ASSUME NEW t \in Log!Threads, Log!Crash(t) PROVE LineInv'
    BY <1>7, <1>b DEF Log!Crash
<1>8. ASSUME NEW t \in Log!Threads, Log!Unlock(t) PROVE LineInv'
    BY <1>8, <1>b DEF Log!Unlock
<1>9. CASE Log!OpenLog
    BY <1>9, <1>b, ThreadAssumption DEF Log!OpenLog, OwnerInv
<1>10. CASE Log!SetInitialized
    BY <1>10, <1>b, ThreadAssumption DEF Log!SetInitialized
<1>11. CASE Log!Close
    BY <1>11, <1>b, ThreadAssumption DEF Log!Close
<1>12. CASE Log!Destroy
    BY <1>12, <1>b, ThreadAssumption DEF Log!Destroy
<1>13. CASE Log!Reset
    BY <1>13, <1>b, ThreadAssumption DEF Log!Reset
<1>14. QED
    BY <1>1, <1>2, <1>3, <1>4, <1>5, <1>6, <1>7, <1>8, <1>9, <1>10, <1>11, <1>12, <1>13 DEF Log!Next

LEMMA LifeStep == Log!TypeOK /\ OwnerInv /\ OverlapInv /\ LifeInv /\ Log!Next => LifeInv'
<1> SUFFICES ASSUME Log!TypeOK, OwnerInv, OverlapInv, LifeInv, Log!Next PROVE LifeInv'
    OBVIOUS
<1> DEFINE Fresh == ~destroyed /\ overlapped = {} /\ pc[Owner] \notin Log!InClean
           Rest  == /\ life = "fresh" => Fresh
                    /\ life = "cleaned" => log_fp # "open"
                    /\ mixed => life = "reopened"
<1>a. Rest /\ (life = "fresh" => LineInv)
    BY DEF LifeInv
<1>b. life' = "fresh" => life = "fresh"
    BY DEF Log!Next, Log!Call, Log!Lock, Log!Prefix, Log!Text, Log!Flush, Log!Trace,
           Log!Crash, Log!Use, Log!Unlock, Log!OpenLog, Log!SetInitialized, Log!Close,
           Log!Destroy, Log!Reset, Log!TypeOK
<1>c. life' = "fresh" => LineInv'
    BY <1>b, LineStep
<1> USE <1>a, ThreadAssumption DEF Log!TypeOK, OwnerInv, Log!Go, Log!mutex, Log!file
<1>1. ASSUME NEW t \in Log!Threads, Log!Call(t) PROVE Rest'
    BY <1>1 DEF Log!Call
<1>2. ASSUME NEW t \in Log!Threads, Log!Lock(t) PROVE Rest'
    BY <1>2 DEF Log!Lock
<1>3. ASSUME NEW t \in Log!Threads, Log!Prefix(t) PROVE Rest'
    <2>1. /\ pc[t] = "prefix" /\ pc' = [pc EXCEPT ![t] = "text"]
          /\ log_fp = "open" /\ log_fp' = log_fp /\ life' = life
          /\ destroyed' = destroyed /\ overlapped' = overlapped
        BY <1>3 DEF Log!Prefix, Log!Use
    <2>2. mixed' = (mixed \/ line # NoOne)
        BY <1>3 DEF Log!Prefix
    <2>3. life # "reopened" => line = NoOne
      <3>1. life # "reopened" => LineInv
        BY <2>1, <1>a
      <3>2. LineInv => line = NoOne
        BY <2>1, OneWriter
      <3> QED  BY <3>1, <3>2
    <2>4. (mixed => life = "reopened")' /\ (life = "cleaned" => log_fp # "open")'
        BY <2>1, <2>2, <2>3, <1>a
    <2>5. (life = "fresh" => Fresh)'
        BY <2>1, <1>a
    <2> QED  BY <2>4, <2>5
<1>4. ASSUME NEW t \in Log!Threads, Log!Text(t) PROVE Rest'
    <2>1. /\ pc[t] = "text" /\ pc' = [pc EXCEPT ![t] = "flush"]
          /\ log_fp = "open" /\ log_fp' = log_fp /\ life' = life
          /\ destroyed' = destroyed /\ overlapped' = overlapped
        BY <1>4 DEF Log!Text, Log!Use
    <2>2. mixed' = (mixed \/ line # t)
        BY <1>4 DEF Log!Text
    <2>3. life # "reopened" => line = t
      <3>1. life # "reopened" => LineInv
        BY <2>1, <1>a
      <3>2. LineInv => line = t
        BY <2>1, OneWriter
      <3> QED  BY <3>1, <3>2
    <2>4. (mixed => life = "reopened")' /\ (life = "cleaned" => log_fp # "open")'
        BY <2>1, <2>2, <2>3, <1>a
    <2>5. (life = "fresh" => Fresh)'
        BY <2>1, <1>a
    <2> QED  BY <2>4, <2>5
<1>5. ASSUME NEW t \in Log!Threads, Log!Flush(t) PROVE Rest'
    BY <1>5 DEF Log!Flush, Log!Use
<1>6. ASSUME NEW t \in Log!Threads, Log!Trace(t) PROVE Rest'
    <2>1. /\ pc[t] = "trace" /\ pc' = [pc EXCEPT ![t] = "unlock"]
          /\ log_fp = "open" /\ log_fp' = log_fp /\ life' = life
          /\ destroyed' = destroyed /\ overlapped' = overlapped
        BY <1>6 DEF Log!Trace, Log!Use
    <2>2. mixed' = (mixed \/ line # NoOne)
        BY <1>6 DEF Log!Trace
    <2>3. life # "reopened" => line = NoOne
      <3>1. life # "reopened" => LineInv
        BY <2>1, <1>a
      <3>2. LineInv => line = NoOne
        BY <2>1, OneWriter
      <3> QED  BY <3>1, <3>2
    <2>4. (mixed => life = "reopened")' /\ (life = "cleaned" => log_fp # "open")'
        BY <2>1, <2>2, <2>3, <1>a
    <2>5. (life = "fresh" => Fresh)'
        BY <2>1, <1>a
    <2> QED  BY <2>4, <2>5
<1>7. ASSUME NEW t \in Log!Threads, Log!Crash(t) PROVE Rest'
    BY <1>7 DEF Log!Crash
<1>8. ASSUME NEW t \in Log!Threads, Log!Unlock(t) PROVE Rest'
    BY <1>8 DEF Log!Unlock
<1>9. ASSUME Log!OpenLog PROVE Rest'
    BY <1>9 DEF Log!OpenLog
<1>10. ASSUME Log!SetInitialized PROVE Rest'
    BY <1>10 DEF Log!SetInitialized
<1>11. ASSUME Log!Close PROVE Rest'
    BY <1>11 DEF Log!Close
<1>12. ASSUME Log!Destroy PROVE Rest'
    BY <1>12 DEF Log!Destroy
<1>13. ASSUME Log!Reset PROVE Rest'
    BY <1>13 DEF Log!Reset
<1>14. Rest'
    BY <1>1, <1>2, <1>3, <1>4, <1>5, <1>6, <1>7, <1>8, <1>9, <1>10, <1>11, <1>12, <1>13 DEF Log!Next
<1>15. QED
    BY <1>c, <1>14 DEF LifeInv

-----------------------------------------------------------------------------
(* What follows.                                                           *)

\* The owner's view of the file, the blame of a cleanup, and the mutex.
THEOREM LoggerInvariant == Spec => [](program = "log" => LogInv)
  <1> DEFINE I == program = "log" => LogInv
  <1>1. Init => I
    BY LogStarts DEF Init
  <1>2. I /\ [Next]_vars => I'
    <2> SUFFICES ASSUME I, [Next]_vars, program' = "log"
                 PROVE  LogInv'
      OBVIOUS
    <2>1. CASE WriteLog
      BY <2>1, TypeStep, OwnerStep, OverlapStep, LifeStep DEF WriteLog, LogInv
    <2>2. CASE UNCHANGED vars
      <3>1. program = "log" /\ UNCHANGED <<pc, initialized, log_fp, lock, destroyed, line,
                                          mixed, unflushed, life, overlapped>>
        BY <2>2 DEF vars, logVars
      <3> QED  BY <3>1 DEF LogInv, Log!TypeOK, OwnerInv, OverlapInv, LifeInv, LineInv
    <2>3. CASE SlideAgain \/ Play \/ ListZip \/ Checksum \/ AskFiglet \/ Summarize
      BY <2>3 DEF SlideAgain, Play, ListZip, Checksum, AskFiglet, Summarize
    <2> QED  BY <2>1, <2>2, <2>3 DEF Next
  <1> QED  BY <1>1, <1>2, PTL DEF Spec

\* LogIsWhole, for any number of threads.
THEOREM LinesStayWhole == Spec => []LogIsWhole
  <1>1. LogInv => Log!LogIsWhole
    BY DEF LogInv, Log!TypeOK, OwnerInv, LifeInv, LineInv, Log!LogIsWhole
  <1>2. (program = "log" => LogInv) => LogIsWhole
    BY <1>1 DEF LogIsWhole
  <1> QED  BY <1>2, LoggerInvariant, PTL

\* OnlyOverlapUsesClosed, for any number of threads.
THEOREM CleanupIsToBlame == Spec => []OnlyOverlapUsesClosed
  <1>1. LogInv => Log!OnlyOverlapUsesClosed
    BY DEF LogInv, OverlapInv, Log!OnlyOverlapUsesClosed
  <1>2. (program = "log" => LogInv) => OnlyOverlapUsesClosed
    BY <1>1 DEF OnlyOverlapUsesClosed
  <1> QED  BY <1>2, LoggerInvariant, PTL

-----------------------------------------------------------------------------
(* 2048: the loops over a row are folds of the community modules.  Each is  *)
(* a sequence of steps, what a row keeps is proved step by step, and the    *)
(* four keys are four views of the board by such rows.                      *)

\* Induction up to n, over a set instead of a predicate.
LEMMA CountingUp ==
  ASSUME NEW n \in Nat, NEW P, 0 \in P, \A k \in 1 .. n : k - 1 \in P => k \in P
  PROVE  \A k \in 0 .. n : k \in P
  <1> SUFFICES ASSUME (0 .. n) \ P # {}
               PROVE  FALSE
    OBVIOUS
  <1>1. PICK k \in (0 .. n) \ P : \A m \in (0 .. n) \ P : ~(m < k)
    <2>1. (0 .. n) \ P \subseteq Nat
      OBVIOUS
    <2> QED  BY <2>1, Smallest
  <1>2. k \in 1 .. n /\ k - 1 \in 0 .. n /\ k - 1 < k
    <2>1. k # 0
      BY <1>1
    <2> QED  BY <2>1
  <1>3. k - 1 \in P
    BY <1>1, <1>2
  <1> QED  BY <1>1, <1>2, <1>3

\* What FoldLeft of the community modules folds over: the largest index last.
LEMMA LastIndex ==
  ASSUME NEW k \in Nat \ {0}
  PROVE  Game!Max(1 .. k) = k /\ (1 .. k) \ {Game!Max(1 .. k)} = 1 .. k - 1
  <1>1. \E x \in 1 .. k : \A y \in 1 .. k : x >= y
    OBVIOUS
  <1>2. Game!Max(1 .. k) \in 1 .. k /\ \A y \in 1 .. k : Game!Max(1 .. k) >= y
    BY <1>1, Zenon DEF Game!Max
  <1>3. Game!Max(1 .. k) = k
    BY <1>2
  <1> QED  BY <1>3

\* A fold of g over 1 .. n, as a function on subsets.
FoldsUp(h, n, base, g) ==
    \A s \in SUBSET (1 .. n) :
       h[s] = IF s = {} THEN base ELSE g[<<h[s \ {Game!Max(s)}], Game!Max(s)>>]

\* There is one if g stays in A.
LEMMA FoldExists ==
  ASSUME NEW n \in Nat, NEW A, NEW base \in A, NEW g \in [A \X (1 .. n) -> A]
  PROVE  \E h \in [SUBSET (1 .. n) -> A] : FoldsUp(h, n, base, g)
  <1> USE DEF FoldsUp
  <1> DEFINE Solves(h, k) == FoldsUp(h, k, base, g)
             P == {k \in 0 .. n : \E h \in [SUBSET (1 .. k) -> A] : Solves(h, k)}
  <1>1. 0 \in P
    <2> DEFINE h == [s \in SUBSET (1 .. 0) |-> base]
    <2>1. h \in [SUBSET (1 .. 0) -> A] /\ Solves(h, 0)
      OBVIOUS
    <2> HIDE DEF h, Solves, FoldsUp
    <2>2. \E f \in [SUBSET (1 .. 0) -> A] : Solves(f, 0)
      BY <2>1
    <2>3. 0 \in 0 .. n
      OBVIOUS
    <2> QED  BY <2>2, <2>3, Zenon
  <1>2. ASSUME NEW k \in 1 .. n, k - 1 \in P
        PROVE  k \in P
    <2>1. PICK h \in [SUBSET (1 .. k - 1) -> A] : Solves(h, k - 1)
      BY <1>2
    <2> DEFINE f == [s \in SUBSET (1 .. k) |->
                       IF k \in s THEN g[<<h[s \ {k}], k>>] ELSE h[s]]
    <2>2. \A s \in SUBSET (1 .. k) : /\ s \ {k} \in SUBSET (1 .. k - 1)
                                     /\ k \notin s => s \in SUBSET (1 .. k - 1)
      OBVIOUS
    <2>3. f \in [SUBSET (1 .. k) -> A]
      BY <2>2
    <2>4. ASSUME NEW s \in SUBSET (1 .. k), k \in s
          PROVE  f[s] = g[<<f[s \ {Game!Max(s)}], Game!Max(s)>>]
      <3>1. Game!Max(s) = k
        <4>1. \E x \in s : \A y \in s : x >= y
          BY <2>4
        <4>2. Game!Max(s) \in s /\ \A y \in s : Game!Max(s) >= y
          BY <4>1, Zenon DEF Game!Max
        <4>3. PICK x : x = Game!Max(s)
          OBVIOUS
        <4>4. x \in 1 .. k
          BY <4>2, <4>3
        <4>5. x >= k
          BY <4>2, <4>3, <2>4
        <4> QED  BY <4>3, <4>4, <4>5
      <3>2. f[s \ {k}] = h[s \ {k}]
        BY <2>2
      <3> QED  BY <2>4, <3>1, <3>2
    <2>5. ASSUME NEW s \in SUBSET (1 .. k), k \notin s, s # {}
          PROVE  f[s] = g[<<f[s \ {Game!Max(s)}], Game!Max(s)>>]
      <3>1. /\ s \in SUBSET (1 .. k - 1)
            /\ s \ {Game!Max(s)} \in SUBSET (1 .. k) /\ k \notin s \ {Game!Max(s)}
        BY <2>2, <2>5
      <3>2. f[s] = h[s] /\ f[s \ {Game!Max(s)}] = h[s \ {Game!Max(s)}]
        BY <3>1, <2>5
      <3> QED  BY <2>1, <2>5, <3>1, <3>2
    <2>6. f[{}] = base
      <3>1. f[{}] = h[{}] /\ h[{}] = base
        BY <2>1
      <3> QED  BY <3>1
    <2> HIDE DEF f
    <2>7. Solves(f, k)
      BY <2>4, <2>5, <2>6
    <2> HIDE DEF Solves, FoldsUp
    <2>8. \E e \in [SUBSET (1 .. k) -> A] : Solves(e, k)
      BY <2>3, <2>7
    <2> QED  BY <2>8
  <1> HIDE DEF P
  <1>3. n \in P
    BY <1>1, <1>2, CountingUp
  <1> QED  BY <1>3 DEF P

\* The two loops of slideAndMergeRow, as the folds of the module define them.
\* The loops do not know how long a row is but for the order of the second.
MergeOrder(n) == [k \in 1 .. n - 1 |-> k]
MergeFold(h, temp, n) ==
    h = [s \in SUBSET (DOMAIN MergeOrder(n)) |->
           IF s = {} THEN temp
           ELSE Game!MergeAt(h[s \ {Game!Max(s)}], MergeOrder(n)[Game!Max(s)])]
KeepFold(h, r) ==
    h = [s \in SUBSET (DOMAIN r) |->
           IF s = {} THEN <<>> ELSE Game!Keep(h[s \ {Game!Max(s)}], r[Game!Max(s)])]

LEMMA MergedIsFold ==
  \A temp : Game!Merged(temp) = (CHOOSE h : MergeFold(h, temp, BoardSize))[DOMAIN MergeOrder(BoardSize)]
  BY DEF Game!Merged, Game!FoldLeft, Game!MapThenFoldSet, MergeFold, MergeOrder

LEMMA TilesIsFold ==
  \A r : Game!Tiles(r) = (CHOOSE h : KeepFold(h, r))[DOMAIN r]
  BY DEF Game!Tiles, Game!FoldLeft, Game!MapThenFoldSet, KeepFold

USE BoardAssumption

LEMMA LargestIndex ==
  ASSUME NEW n \in Nat, NEW s \in SUBSET (1 .. n), s # {}
  PROVE  Game!Max(s) \in s
  <1> DEFINE T == {n - x : x \in s}
  <1>1. T \subseteq Nat /\ T # {}
    <2>1. \A x \in s : n - x \in Nat
      OBVIOUS
    <2>2. PICK x \in s : TRUE
      OBVIOUS
    <2> QED  BY <2>1, <2>2
  <1>2. PICK u \in T : \A v \in T : ~(v < u)
    <2> HIDE DEF T
    <2> QED  BY <1>1, Smallest
  <1>3. PICK x \in s : u = n - x
    OBVIOUS
  <1>4. ASSUME NEW y \in s
        PROVE  x >= y
    <2>1. n - y \in T /\ ~(n - y < n - x)
      BY <1>2, <1>3
    <2>2. x \in Nat /\ y \in Nat
      OBVIOUS
    <2> QED  BY <2>1, <2>2
  <1>5. \E m \in s : \A y \in s : m >= y
    BY <1>4
  <1> QED  BY <1>5, Zenon DEF Game!Max

RowsOf(w) == [1 .. w -> Nat]
Rows      == [1 .. BoardSize -> Nat]

LEMMA MergeAtType ==
  ASSUME NEW w \in Nat \ {0}, NEW temp \in RowsOf(w), NEW k \in 1 .. w - 1
  PROVE  Game!MergeAt(temp, k) \in RowsOf(w)
  <1>1. k \in 1 .. w /\ k + 1 \in 1 .. w /\ 2 * temp[k] \in Nat
    BY DEF RowsOf
  <1> QED  BY <1>1 DEF RowsOf, Game!MergeAt

\* What the second loop makes of a row of w cells.
MergesOf(temp, w) == (CHOOSE h : MergeFold(h, temp, w))[DOMAIN MergeOrder(w)]

LEMMA MergeSteps ==
  ASSUME NEW w \in Nat \ {0}, NEW temp \in RowsOf(w)
  PROVE  \E f : /\ f[0] = temp
                /\ \A k \in 0 .. w - 1 : f[k] \in RowsOf(w)
                /\ \A k \in 1 .. w - 1 : f[k] = Game!MergeAt(f[k - 1], k)
                /\ MergesOf(temp, w) = f[w - 1]
  <1> DEFINE n == w - 1
             g == [p \in RowsOf(w) \X (1 .. n) |-> Game!MergeAt(p[1], p[2])]
  <1>1. n \in Nat /\ DOMAIN MergeOrder(w) = 1 .. n /\ \A k \in 1 .. n : MergeOrder(w)[k] = k
    BY DEF MergeOrder
  <1>2. g \in [RowsOf(w) \X (1 .. n) -> RowsOf(w)]
    BY MergeAtType
  <1>3. \A r \in RowsOf(w), k \in 1 .. n : g[<<r, k>>] = Game!MergeAt(r, k)
    OBVIOUS
  <1> HIDE DEF n, g
  <1>4. PICK h \in [SUBSET (1 .. n) -> RowsOf(w)] : FoldsUp(h, n, temp, g)
    BY <1>1, <1>2, FoldExists, Zenon
  <1>5. ASSUME NEW s \in SUBSET (1 .. n)
        PROVE  h[s] = IF s = {} THEN temp
                      ELSE Game!MergeAt(h[s \ {Game!Max(s)}], MergeOrder(w)[Game!Max(s)])
    <2>1. CASE s = {}
      BY <1>4, <2>1 DEF FoldsUp
    <2>2. CASE s # {}
      <3>1. Game!Max(s) \in s /\ Game!Max(s) \in 1 .. n
        BY <1>1, <2>2, LargestIndex
      <3>2. h[s \ {Game!Max(s)}] \in RowsOf(w)
        OBVIOUS
      <3>3. g[<<h[s \ {Game!Max(s)}], Game!Max(s)>>]
               = Game!MergeAt(h[s \ {Game!Max(s)}], Game!Max(s))
        BY <1>3, <3>1, <3>2
      <3>4. MergeOrder(w)[Game!Max(s)] = Game!Max(s)
        BY <1>1, <3>1
      <3>5. h[s] = g[<<h[s \ {Game!Max(s)}], Game!Max(s)>>]
        BY <1>4, <2>2 DEF FoldsUp
      <3> QED  BY <2>2, <3>3, <3>4, <3>5
    <2> QED  BY <2>1, <2>2
  <1>6. MergeFold(h, temp, w)
    BY <1>1, <1>5, Zenon DEF MergeFold
  <1>7. PICK e : MergeFold(e, temp, w) /\ MergesOf(temp, w) = e[1 .. n]
    <2>1. MergeFold(CHOOSE d : MergeFold(d, temp, w), temp, w)
      BY <1>6, Zenon
    <2> QED  BY <1>1, <2>1, Zenon DEF MergesOf
  <1> DEFINE f == [k \in 0 .. n |-> e[1 .. k]]
  <1>8. f[0] = temp
    <2>1. 1 .. 0 = {} /\ 0 \in 0 .. n
      BY <1>1
    <2>2. e[{}] = temp
      BY <1>1, <1>7 DEF MergeFold
    <2> QED  BY <2>1, <2>2
  <1>9. \A k \in 1 .. n : f[k] = Game!MergeAt(f[k - 1], k)
    <2> SUFFICES ASSUME NEW k \in 1 .. n
                 PROVE  f[k] = Game!MergeAt(f[k - 1], k)
      OBVIOUS
    <2>1. /\ k \in Nat \ {0} /\ 1 .. k \in SUBSET (1 .. n) /\ 1 .. k # {}
          /\ k \in 0 .. n /\ k - 1 \in 0 .. n
      BY <1>1
    <2>2. Game!Max(1 .. k) = k /\ (1 .. k) \ {k} = 1 .. k - 1
      BY <2>1, LastIndex
    <2>3. e[1 .. k] = Game!MergeAt(e[(1 .. k) \ {Game!Max(1 .. k)}], MergeOrder(w)[Game!Max(1 .. k)])
      BY <1>1, <1>7, <2>1 DEF MergeFold
    <2>4. e[1 .. k] = Game!MergeAt(e[1 .. k - 1], k)
      BY <1>1, <2>2, <2>3
    <2> QED  BY <2>1, <2>4
  <1>10. \A k \in 0 .. n : f[k] \in RowsOf(w)
    <2> DEFINE P == {k \in 0 .. n : f[k] \in RowsOf(w)}
    <2> HIDE DEF f
    <2>1. 0 \in P
      BY <1>1, <1>8
    <2>2. ASSUME NEW k \in 1 .. n, k - 1 \in P
          PROVE  k \in P
      <3>1. f[k - 1] \in RowsOf(w) /\ k \in 0 .. n
        BY <1>1, <2>2
      <3>2. f[k] \in RowsOf(w)
        BY <1>9, <3>1, MergeAtType DEF n
      <3> QED  BY <3>1, <3>2
    <2> HIDE DEF P
    <2>3. \A k \in 0 .. n : k \in P
      BY <1>1, <2>1, <2>2, CountingUp
    <2> QED  BY <2>3 DEF P
  <1>11. MergesOf(temp, w) = f[n]
    BY <1>1, <1>7
  <1> HIDE DEF f
  <1> QED  BY <1>8, <1>9, <1>10, <1>11 DEF n

LEMMA MergeLoop ==
  ASSUME NEW temp \in Rows
  PROVE  \E f : /\ f[0] = temp
                /\ \A k \in 0 .. BoardSize - 1 : f[k] \in Rows
                /\ \A k \in 1 .. BoardSize - 1 : f[k] = Game!MergeAt(f[k - 1], k)
                /\ Game!Merged(temp) = f[BoardSize - 1]
  <1>1. Rows = RowsOf(BoardSize)
    BY DEF Rows, RowsOf
  <1>2. Game!Merged(temp) = MergesOf(temp, BoardSize)
    BY MergedIsFold, Zenon DEF MergesOf
  <1>3. BoardSize \in Nat \ {0} /\ temp \in RowsOf(BoardSize)
    BY <1>1
  <1>4. \E f : /\ f[0] = temp
               /\ \A k \in 0 .. BoardSize - 1 : f[k] \in RowsOf(BoardSize)
               /\ \A k \in 1 .. BoardSize - 1 : f[k] = Game!MergeAt(f[k - 1], k)
               /\ MergesOf(temp, BoardSize) = f[BoardSize - 1]
    BY <1>3, MergeSteps, Zenon
  <1> QED  BY <1>1, <1>2, <1>4

LEMMA KeepType ==
  ASSUME NEW t \in Seq(Nat), NEW v \in Nat
  PROVE  Game!Keep(t, v) \in Seq(Nat)
  BY DEF Game!Keep

LEMMA KeepSteps ==
  ASSUME NEW w \in Nat \ {0}, NEW r \in RowsOf(w)
  PROVE  \E f : /\ f[0] = <<>>
                /\ \A k \in 0 .. w : f[k] \in Seq(Nat)
                /\ \A k \in 1 .. w : f[k] = Game!Keep(f[k - 1], r[k])
                /\ Game!Tiles(r) = f[w]
  <1> DEFINE n == w
             g == [p \in Seq(Nat) \X (1 .. n) |-> Game!Keep(p[1], r[p[2]])]
  <1>1. n \in Nat /\ DOMAIN r = 1 .. n /\ \A k \in 1 .. n : r[k] \in Nat
    BY DEF RowsOf
  <1>2. g \in [Seq(Nat) \X (1 .. n) -> Seq(Nat)]
    BY <1>1, KeepType
  <1>3. \A t \in Seq(Nat), k \in 1 .. n : g[<<t, k>>] = Game!Keep(t, r[k])
    OBVIOUS
  <1>b. n \in Nat
    BY <1>1
  <1>a. <<>> \in Seq(Nat)
    OBVIOUS
  <1> HIDE DEF n, g
  <1>c. ASSUME NEW k \in 1 .. n
        PROVE  /\ k \in Nat \ {0} /\ 1 .. k \in SUBSET (1 .. n) /\ 1 .. k # {}
               /\ k \in 0 .. n /\ k - 1 \in 0 .. n
    BY <1>b
  <1>d. 0 \in 0 .. n
    BY <1>b
  <1>4. PICK h \in [SUBSET (1 .. n) -> Seq(Nat)] : FoldsUp(h, n, <<>>, g)
    BY <1>1, <1>2, <1>a, FoldExists, Zenon
  <1>5. ASSUME NEW s \in SUBSET (1 .. n)
        PROVE  h[s] = IF s = {} THEN <<>>
                      ELSE Game!Keep(h[s \ {Game!Max(s)}], r[Game!Max(s)])
    <2>1. CASE s = {}
      BY <1>4, <2>1 DEF FoldsUp
    <2>2. CASE s # {}
      <3>1. Game!Max(s) \in 1 .. n
        BY <1>1, <2>2, LargestIndex
      <3>2. h[s \ {Game!Max(s)}] \in Seq(Nat)
        OBVIOUS
      <3>3. g[<<h[s \ {Game!Max(s)}], Game!Max(s)>>]
               = Game!Keep(h[s \ {Game!Max(s)}], r[Game!Max(s)])
        BY <1>3, <3>1, <3>2
      <3>4. h[s] = g[<<h[s \ {Game!Max(s)}], Game!Max(s)>>]
        BY <1>4, <2>2 DEF FoldsUp
      <3> QED  BY <2>2, <3>3, <3>4
    <2> QED  BY <2>1, <2>2
  <1>6. KeepFold(h, r)
    BY <1>1, <1>5, Zenon DEF KeepFold
  <1>7. PICK e : KeepFold(e, r) /\ Game!Tiles(r) = e[1 .. n]
    <2>1. KeepFold(CHOOSE d : KeepFold(d, r), r)
      BY <1>6, Zenon
    <2> QED  BY <1>1, <2>1, TilesIsFold, Zenon
  <1> DEFINE f == [k \in 0 .. n |-> e[1 .. k]]
  <1>8. f[0] = <<>>
    <2>1. 1 .. 0 = {} /\ 0 \in 0 .. n
      BY <1>1
    <2>2. e[{}] = <<>>
      BY <1>1, <1>7 DEF KeepFold
    <2> QED  BY <2>1, <2>2
  <1>9. \A k \in 1 .. n : f[k] = Game!Keep(f[k - 1], r[k])
    <2> SUFFICES ASSUME NEW k \in 1 .. n
                 PROVE  f[k] = Game!Keep(f[k - 1], r[k])
      OBVIOUS
    <2>1. /\ k \in Nat \ {0} /\ 1 .. k \in SUBSET (1 .. n) /\ 1 .. k # {}
          /\ k \in 0 .. n /\ k - 1 \in 0 .. n
      BY <1>c
    <2>2. Game!Max(1 .. k) = k /\ (1 .. k) \ {k} = 1 .. k - 1
      BY <2>1, LastIndex
    <2>3. e[1 .. k] = Game!Keep(e[(1 .. k) \ {Game!Max(1 .. k)}], r[Game!Max(1 .. k)])
      BY <1>1, <1>7, <2>1 DEF KeepFold
    <2>4. e[1 .. k] = Game!Keep(e[1 .. k - 1], r[k])
      BY <1>1, <2>2, <2>3
    <2> QED  BY <2>1, <2>4
  <1>10. \A k \in 0 .. n : f[k] \in Seq(Nat)
    <2> DEFINE P == {k \in 0 .. n : f[k] \in Seq(Nat)}
    <2> HIDE DEF f
    <2>1. 0 \in P
      BY <1>d, <1>a, <1>8, Zenon
    <2>2. ASSUME NEW k \in 1 .. n, k - 1 \in P
          PROVE  k \in P
      <3>1. f[k - 1] \in Seq(Nat) /\ k \in 0 .. n
        BY <1>c, <2>2, Zenon
      <3>2. f[k] \in Seq(Nat)
        <4>1. r[k] \in Nat /\ f[k] = Game!Keep(f[k - 1], r[k])
          BY <1>1, <1>9
        <4>2. Game!Keep(f[k - 1], r[k]) \in Seq(Nat)
          BY <3>1, <4>1, KeepType
        <4> QED  BY <4>1, <4>2, Zenon
      <3> QED  BY <3>1, <3>2
    <2> HIDE DEF P
    <2>3. \A k \in 0 .. n : k \in P
      BY <1>1, <2>1, <2>2, CountingUp
    <2> QED  BY <2>3 DEF P
  <1>11. Game!Tiles(r) = f[n]
    BY <1>1, <1>7
  <1> HIDE DEF f
  <1> QED  BY <1>8, <1>9, <1>10, <1>11 DEF n

LEMMA KeepLoop ==
  ASSUME NEW r \in Rows
  PROVE  \E f : /\ f[0] = <<>>
                /\ \A k \in 0 .. BoardSize : f[k] \in Seq(Nat)
                /\ \A k \in 1 .. BoardSize : f[k] = Game!Keep(f[k - 1], r[k])
                /\ Game!Tiles(r) = f[BoardSize]
  <1>1. Rows = RowsOf(BoardSize)
    BY DEF Rows, RowsOf
  <1> QED  BY <1>1, KeepSteps, Zenon

-----------------------------------------------------------------------------
\* What the first loop leaves: no holes, everything if there were none, and
\* fewer tiles than cells if there were.
LEMMA TilesOfRow ==
  ASSUME NEW r \in Rows
  PROVE  /\ Game!Tiles(r) \in Seq(Nat) /\ Len(Game!Tiles(r)) <= BoardSize
         /\ \A k \in 1 .. Len(Game!Tiles(r)) : Game!Tiles(r)[k] # 0
         /\ (\A k \in 1 .. BoardSize : r[k] # 0) => Game!Tiles(r) = r
         /\ (\E k \in 1 .. BoardSize : r[k] = 0) => Len(Game!Tiles(r)) < BoardSize
  <1>1. PICK f : /\ f[0] = <<>>
                 /\ \A k \in 0 .. BoardSize : f[k] \in Seq(Nat)
                 /\ \A k \in 1 .. BoardSize : f[k] = Game!Keep(f[k - 1], r[k])
                 /\ Game!Tiles(r) = f[BoardSize]
    BY KeepLoop
  <1> DEFINE Done(t, k) ==
               /\ t \in Seq(Nat) /\ Len(t) <= k
               /\ \A j \in 1 .. Len(t) : t[j] # 0
               /\ (\A j \in 1 .. k : r[j] # 0) => Len(t) = k /\ \A j \in 1 .. k : t[j] = r[j]
               /\ (\E j \in 1 .. k : r[j] = 0) => Len(t) < k
             P == {k \in 0 .. BoardSize : Done(f[k], k)}
  <1>2. 0 \in P
    <2>1. 0 \in 0 .. BoardSize /\ f[0] = <<>>
      BY <1>1
    <2>2. Done(<<>>, 0)
      OBVIOUS
    <2> QED  BY <2>1, <2>2
  <1>3. ASSUME NEW k \in 1 .. BoardSize, NEW t \in Seq(Nat), Done(t, k - 1)
        PROVE  Done(Game!Keep(t, r[k]), k)
    <2>1. r[k] \in Nat /\ k - 1 \in Nat /\ k \in Nat
      BY DEF Rows
    <2>2. \A j \in 1 .. k : j = k \/ j \in 1 .. k - 1
      OBVIOUS
    <2>3. CASE r[k] = 0
      <3>1. Game!Keep(t, r[k]) = t
        BY <2>3 DEF Game!Keep
      <3> QED  BY <1>3, <2>1, <2>3, <3>1
    <2>4. CASE r[k] # 0
      <3>1. Game!Keep(t, r[k]) = Append(t, r[k])
        BY <2>4 DEF Game!Keep
      <3>2. /\ Append(t, r[k]) \in Seq(Nat) /\ Len(Append(t, r[k])) = Len(t) + 1
            /\ \A j \in 1 .. Len(t) : Append(t, r[k])[j] = t[j]
            /\ Append(t, r[k])[Len(t) + 1] = r[k]
        BY <2>1
      <3> DEFINE a == Append(t, r[k])
      <3> HIDE DEF a
      <3>3. /\ a \in Seq(Nat) /\ Len(a) = Len(t) + 1 /\ Len(t) \in Nat /\ Len(t) <= k - 1
            /\ \A j \in 1 .. Len(t) : a[j] = t[j]
            /\ a[Len(t) + 1] = r[k]
        BY <1>3, <3>2 DEF a
      <3>4. \A j \in 1 .. Len(a) : a[j] # 0
        <4>1. \A j \in 1 .. Len(a) : j = Len(t) + 1 \/ j \in 1 .. Len(t)
          BY <3>3
        <4> QED  BY <1>3, <2>4, <3>3, <4>1
      <3>5. ASSUME \A j \in 1 .. k : r[j] # 0
            PROVE  Len(a) = k /\ \A j \in 1 .. k : a[j] = r[j]
        <4>1. \A j \in 1 .. k - 1 : r[j] # 0
          BY <2>1, <3>5
        <4>2. Len(t) = k - 1 /\ \A j \in 1 .. k - 1 : t[j] = r[j]
          BY <1>3, <4>1
        <4> QED  BY <2>1, <2>2, <3>3, <4>2
      <3>6. ASSUME NEW j \in 1 .. k, r[j] = 0
            PROVE  Len(a) < k
        <4>1. j \in 1 .. k - 1
          BY <2>2, <2>4, <3>6
        <4>2. Len(t) < k - 1
          BY <1>3, <3>6, <4>1
        <4> QED  BY <2>1, <3>3, <4>2
      <3>7. Done(a, k)
        <4>1. Len(a) <= k
          BY <2>1, <3>3
        <4> QED  BY <3>3, <3>4, <3>5, <3>6, <4>1
      <3> QED  BY <3>1, <3>7 DEF a
    <2> QED  BY <2>3, <2>4
  <1>4. ASSUME NEW k \in 1 .. BoardSize, k - 1 \in P
        PROVE  k \in P
    <2>1. /\ k \in 0 .. BoardSize /\ k - 1 \in 0 .. BoardSize
      OBVIOUS
    <2>2. Done(f[k - 1], k - 1) /\ f[k - 1] \in Seq(Nat) /\ f[k] = Game!Keep(f[k - 1], r[k])
      BY <1>1, <1>4, <2>1
    <2> HIDE DEF Done
    <2>3. Done(f[k], k)
      BY <1>3, <2>2
    <2> QED  BY <2>1, <2>3
  <1> HIDE DEF P
  <1>5. BoardSize \in P
    <2>1. \A k \in 0 .. BoardSize : k \in P
      BY <1>2, <1>4, CountingUp
    <2> QED  BY <2>1
  <1>6. Done(Game!Tiles(r), BoardSize)
    BY <1>1, <1>5 DEF P
  <1> DEFINE t == Game!Tiles(r)
  <1> HIDE DEF t
  <1>7. (\A k \in 1 .. BoardSize : r[k] # 0) => t = r
    <2> SUFFICES ASSUME \A k \in 1 .. BoardSize : r[k] # 0
                 PROVE  t = r
      OBVIOUS
    <2>1. t \in Seq(Nat) /\ Len(t) = BoardSize /\ \A j \in 1 .. BoardSize : t[j] = r[j]
      BY <1>6 DEF t
    <2>2. t \in [1 .. BoardSize -> Nat] /\ r \in [1 .. BoardSize -> Nat]
      BY <2>1 DEF Rows
    <2> QED  BY <2>1, <2>2
  <1> QED  BY <1>6, <1>7 DEF t

LEMMA HolesStay ==
  ASSUME NEW t \in Rows, NEW j \in 1 .. BoardSize, t[j] = 0, NEW k \in 1 .. BoardSize - 1
  PROVE  Game!MergeAt(t, k)[j] = 0
  BY DEF Game!MergeAt, Rows

\* What the second loop leaves: a hole wherever something merged or was missing.
LEMMA MergedRow ==
  ASSUME NEW r \in Rows
  PROVE  /\ Game!Merged(r) \in Rows
         /\ (\A k \in 1 .. BoardSize - 1 : r[k] # r[k + 1]) => Game!Merged(r) = r
         /\ \/ \E k \in 1 .. BoardSize : r[k] = 0
            \/ \E k \in 1 .. BoardSize - 1 : r[k] = r[k + 1]
            => \E k \in 1 .. BoardSize : Game!Merged(r)[k] = 0
         /\ \A k \in 1 .. BoardSize : r[k] = 0 => Game!Merged(r)[k] = 0
         /\ Game!Merged(r) # r
            => \E k \in 1 .. BoardSize : r[k] # 0 /\ Game!Merged(r)[k] = 0
  <1>1. PICK f : /\ f[0] = r
                 /\ \A k \in 0 .. BoardSize - 1 : f[k] \in Rows
                 /\ \A k \in 1 .. BoardSize - 1 : f[k] = Game!MergeAt(f[k - 1], k)
                 /\ Game!Merged(r) = f[BoardSize - 1]
    BY MergeLoop
  <1> DEFINE n == BoardSize - 1
             Hole(t) == \E j \in 1 .. BoardSize : t[j] = 0
             Fewer(t) ==
               /\ \A j \in 1 .. BoardSize : r[j] = 0 => t[j] = 0
               /\ t # r => \E j \in 1 .. BoardSize : r[j] # 0 /\ t[j] = 0
             Done(t, k) ==
               /\ (\A j \in 1 .. k : r[j] # r[j + 1]) => t = r
               /\ Hole(r) \/ (\E j \in 1 .. k : r[j] = r[j + 1]) => Hole(t)
               /\ Fewer(t)
             P == {k \in 0 .. n : Done(f[k], k)}
  <1>2. n \in Nat /\ 0 \in 0 .. n /\ n \in 0 .. n
    OBVIOUS
  <1>3. Done(r, 0)
    OBVIOUS
  <1>4. ASSUME NEW k \in 1 .. n, NEW t \in Rows, Done(t, k - 1)
        PROVE  Done(Game!MergeAt(t, k), k)
    <2>1. /\ k \in 1 .. BoardSize /\ k + 1 \in 1 .. BoardSize
          /\ \A j \in 1 .. k : j = k \/ j \in 1 .. k - 1
          /\ \A j \in 1 .. k - 1 : j \in 1 .. k
      OBVIOUS
    <2>2. ASSUME Hole(t)
          PROVE  Hole(Game!MergeAt(t, k))
      BY <2>2, HolesStay
    <2>3. ASSUME t = r, r[k] # r[k + 1]
          PROVE  Game!MergeAt(t, k) = r
      BY <2>3 DEF Game!MergeAt
    <2>4. ASSUME t = r, r[k] = r[k + 1], ~Hole(r)
          PROVE  Hole(Game!MergeAt(t, k))
      <3>1. r[k] # 0
        BY <2>1, <2>4
      <3>2. Game!MergeAt(t, k)[k + 1] = 0
        BY <2>1, <2>4, <3>1 DEF Game!MergeAt, Rows
      <3> QED  BY <2>1, <3>2
    <2>5. Fewer(Game!MergeAt(t, k))
      <3>1. Fewer(t)
        BY <1>4
      <3>2. \A j \in 1 .. BoardSize : t[j] = 0 => Game!MergeAt(t, k)[j] = 0
        BY HolesStay
      <3>3. CASE Game!MergeAt(t, k) = t
        BY <3>1, <3>3
      <3>4. CASE Game!MergeAt(t, k) # t
        <4>1. t[k + 1] # 0 /\ Game!MergeAt(t, k)[k + 1] = 0
          BY <2>1, <3>4 DEF Game!MergeAt, Rows
        <4>2. r[k + 1] # 0
          BY <2>1, <3>1, <4>1
        <4> QED  BY <2>1, <3>1, <3>2, <4>1, <4>2
      <3> QED  BY <3>3, <3>4
    <2> HIDE DEF Hole, Fewer
    <2> QED  BY <1>4, <2>1, <2>2, <2>3, <2>4, <2>5
  <1> HIDE DEF Done, n
  <1>5. 0 \in P
    BY <1>1, <1>2, <1>3
  <1>6. ASSUME NEW k \in 1 .. n, k - 1 \in P
        PROVE  k \in P
    <2>1. k \in 0 .. n /\ k - 1 \in 0 .. n
      BY <1>2
    <2>2. Done(f[k - 1], k - 1) /\ f[k - 1] \in Rows /\ f[k] = Game!MergeAt(f[k - 1], k)
      BY <1>1, <1>6, <2>1 DEF n
    <2> QED  BY <1>4, <2>1, <2>2
  <1> HIDE DEF P
  <1>7. n \in P
    <2>1. \A k \in 0 .. n : k \in P
      BY <1>2, <1>5, <1>6, CountingUp
    <2> QED  BY <1>2, <2>1
  <1>8. Done(Game!Merged(r), n) /\ Game!Merged(r) \in Rows
    BY <1>1, <1>2, <1>7 DEF P, n
  <1> QED  BY <1>8 DEF Done, n

\* A sequence filled up to w cells.
LEMMA PaddedTo ==
  ASSUME NEW w \in Nat \ {0}, NEW t \in Seq(Nat), Len(t) <= w
  PROVE  /\ t \o [k \in 1 .. w - Len(t) |-> 0] \in RowsOf(w)
         /\ \A k \in 1 .. w : (t \o [j \in 1 .. w - Len(t) |-> 0])[k] = IF k <= Len(t) THEN t[k] ELSE 0
  <1> DEFINE z == [k \in 1 .. w - Len(t) |-> 0]
  <1>1. w - Len(t) \in Nat /\ Len(t) \in Nat
    OBVIOUS
  <1>2. z \in Seq(Nat) /\ Len(z) = w - Len(t)
    BY <1>1
  <1>3. \A k \in 1 .. w - Len(t) : z[k] = 0
    OBVIOUS
  <1> HIDE DEF z
  <1>4. /\ t \o z \in Seq(Nat) /\ Len(t \o z) = w
        /\ \A k \in 1 .. w : (t \o z)[k] = IF k <= Len(t) THEN t[k] ELSE z[k - Len(t)]
    BY <1>1, <1>2
  <1>5. t \o z \in [1 .. w -> Nat]
    <2>1. \A c \in Seq(Nat) : c \in [1 .. Len(c) -> Nat]
      OBVIOUS
    <2> QED  BY <1>4, <2>1, Zenon
  <1>6. t \o z \in RowsOf(w) /\ \A k \in 1 .. w : (t \o z)[k] = IF k <= Len(t) THEN t[k] ELSE 0
    BY <1>1, <1>3, <1>4, <1>5 DEF RowsOf
  <1> QED  BY <1>6 DEF z

LEMMA PaddedRow ==
  ASSUME NEW t \in Seq(Nat), Len(t) <= BoardSize
  PROVE  /\ Game!Pad(t) \in Rows
         /\ \A k \in 1 .. BoardSize : Game!Pad(t)[k] = IF k <= Len(t) THEN t[k] ELSE 0
  <1>1. BoardSize \in Nat \ {0} /\ Rows = RowsOf(BoardSize)
    BY DEF Rows, RowsOf
  <1>2. Game!Pad(t) = t \o [k \in 1 .. BoardSize - Len(t) |-> 0]
    BY DEF Game!Pad
  <1> QED  BY <1>1, <1>2, PaddedTo

\* A whole move of a row.
LEMMA SlidRow ==
  ASSUME NEW r \in Rows
  PROVE  LET s == Game!SlideAndMergeRow(r) IN
         /\ s \in Rows
         /\ \A p, q \in 1 .. BoardSize : s[p] = 0 /\ p < q => s[q] = 0
         /\ IF \/ \E k \in 1 .. BoardSize : r[k] = 0
               \/ \E k \in 1 .. BoardSize - 1 : r[k] = r[k + 1]
              THEN s[BoardSize] = 0
              ELSE s = r /\ ~Game!Moved(r)
  <1> DEFINE t == Game!Tiles(r)
             a == Game!Pad(t)
             m == Game!Merged(a)
             u == Game!Tiles(m)
             s == Game!Pad(u)
             Hole(x) == \E k \in 1 .. BoardSize : x[k] = 0
             Twins(x) == \E k \in 1 .. BoardSize - 1 : x[k] = x[k + 1]
  <1>1. /\ t \in Seq(Nat) /\ Len(t) <= BoardSize
        /\ ~Hole(r) => t = r
        /\ Hole(r) => Len(t) < BoardSize
    BY TilesOfRow
  <1>2. a \in Rows /\ \A k \in 1 .. BoardSize : a[k] = IF k <= Len(t) THEN t[k] ELSE 0
    <2> HIDE DEF t
    <2> QED  BY <1>1, PaddedRow
  <1>3. /\ m \in Rows
        /\ ~Twins(a) => m = a
        /\ Hole(a) \/ Twins(a) => Hole(m)
    <2> HIDE DEF a
    <2> QED  BY <1>2, MergedRow
  <1>4. /\ u \in Seq(Nat) /\ Len(u) <= BoardSize
        /\ \A k \in 1 .. Len(u) : u[k] # 0
        /\ ~Hole(m) => u = m
        /\ Hole(m) => Len(u) < BoardSize
    <2> HIDE DEF m
    <2> QED  BY <1>3, TilesOfRow
  <1>5. s \in Rows /\ \A k \in 1 .. BoardSize : s[k] = IF k <= Len(u) THEN u[k] ELSE 0
    <2> HIDE DEF u
    <2> QED  BY <1>4, PaddedRow
  <1>6. Game!SlideAndMergeRow(r) = s
    BY DEF Game!SlideAndMergeRow
  <1>7. Game!Moved(r) <=> m # a \/ s # r
    BY DEF Game!Moved, Game!SlideAndMergeRow
  <1> HIDE DEF t, a, m, u, s
  <1>8. \A p, q \in 1 .. BoardSize : s[p] = 0 /\ p < q => s[q] = 0
    BY <1>4, <1>5
  <1>9. ASSUME ~Hole(r)
        PROVE  a = r
    <2>1. t = r
      BY <1>1, <1>9
    <2>2. Len(r) = BoardSize /\ \A k \in 1 .. BoardSize : a[k] = r[k]
      BY <1>2, <2>1 DEF Rows
    <2> QED  BY <1>2, <2>2 DEF Rows
  <1>10. ASSUME Hole(r) \/ Twins(r)
         PROVE  s[BoardSize] = 0
    <2>1. Hole(a) \/ Twins(a)
      <3>1. CASE Hole(r)
        <4>1. Len(t) < BoardSize /\ Len(t) \in Nat
          BY <1>1, <3>1
        <4>2. a[BoardSize] = 0
          BY <1>2, <4>1
        <4> QED  BY <4>2
      <3>2. CASE ~Hole(r)
        BY <1>9, <1>10, <3>2
      <3> QED  BY <3>1, <3>2
    <2>2. Len(u) < BoardSize /\ Len(u) \in Nat
      BY <1>3, <1>4, <2>1
    <2> QED  BY <1>5, <2>2
  <1>11. ASSUME ~Hole(r), ~Twins(r)
         PROVE  s = r /\ m = a
    <2>1. a = r /\ m = r
      BY <1>3, <1>9, <1>11
    <2>2. u = r
      BY <1>4, <1>11, <2>1
    <2>3. Len(r) = BoardSize /\ \A k \in 1 .. BoardSize : s[k] = r[k]
      BY <1>5, <2>2 DEF Rows
    <2>4. s = r
      BY <1>5, <2>3 DEF Rows
    <2> QED  BY <2>1, <2>4
  <1> QED  BY <1>5, <1>6, <1>7, <1>8, <1>10, <1>11

-----------------------------------------------------------------------------
Grid   == (1 .. BoardSize) \X (1 .. BoardSize)
Boards == [Grid -> Nat]

\* The four keys are four views of the grid by lines.
LEMMA Views ==
  ASSUME NEW key \in Game!Keys
  PROVE  /\ \A k, n \in 1 .. BoardSize : /\ Game!Cell(key, k, n) \in Grid
                                         /\ Game!Place(key, Game!Cell(key, k, n)) = <<k, n>>
         /\ \A c \in Grid : /\ Game!Place(key, c) \in Grid
                            /\ Game!Cell(key, Game!Place(key, c)[1], Game!Place(key, c)[2]) = c
  <1>1. CASE key = "a"
    BY <1>1 DEF Grid, Game!Cell, Game!Place
  <1>2. CASE key = "d"
    BY <1>2 DEF Grid, Game!Cell, Game!Place
  <1>3. CASE key = "w"
    BY <1>3 DEF Grid, Game!Cell, Game!Place
  <1>4. CASE key = "s"
    BY <1>4 DEF Grid, Game!Cell, Game!Place
  <1> QED  BY <1>1, <1>2, <1>3, <1>4 DEF Game!Keys

LEMMA Lines ==
  ASSUME NEW b \in Boards, NEW key \in Game!Keys, NEW k \in 1 .. BoardSize
  PROVE  /\ Game!Line(b, key, k) \in Rows
         /\ \A n \in 1 .. BoardSize : Game!Line(b, key, k)[n] = b[Game!Cell(key, k, n)]
  BY Views DEF Game!Line, Game!Cells, Rows, Boards

LEMMA ShiftedLines ==
  ASSUME NEW b \in Boards, NEW key \in Game!Keys
  PROVE  /\ Game!Shift(key, b) \in Boards
         /\ \A k, n \in 1 .. BoardSize :
               Game!Shift(key, b)[Game!Cell(key, k, n)]
                  = Game!SlideAndMergeRow(Game!Line(b, key, k))[n]
         /\ (\A k \in 1 .. BoardSize :
                Game!SlideAndMergeRow(Game!Line(b, key, k)) = Game!Line(b, key, k))
            => Game!Shift(key, b) = b
  <1> DEFINE s(k) == Game!SlideAndMergeRow(Game!Line(b, key, k))
             P(c) == Game!Place(key, c)
  <1>1. \A k \in 1 .. BoardSize : s(k) \in Rows
    BY Lines, SlidRow
  <1>2. Game!Shift(key, b) = [c \in Grid |-> s(P(c)[1])[P(c)[2]]]
    BY DEF Game!Shift, Game!Grid, Game!Cells, Grid
  <1>3. \A c \in Grid : P(c)[1] \in 1 .. BoardSize /\ P(c)[2] \in 1 .. BoardSize
    BY Views DEF Grid
  <1>4. \A k, n \in 1 .. BoardSize : /\ Game!Cell(key, k, n) \in Grid
                                     /\ P(Game!Cell(key, k, n))[1] = k
                                     /\ P(Game!Cell(key, k, n))[2] = n
    BY Views
  <1> HIDE DEF s, P
  <1>5. \A c \in Grid : s(P(c)[1])[P(c)[2]] \in Nat
    BY <1>1, <1>3 DEF Rows
  <1>6. Game!Shift(key, b) \in Boards
    BY <1>2, <1>5 DEF Boards
  <1>7. \A k, n \in 1 .. BoardSize : Game!Shift(key, b)[Game!Cell(key, k, n)] = s(k)[n]
    BY <1>2, <1>4
  <1>8. ASSUME \A k \in 1 .. BoardSize : s(k) = Game!Line(b, key, k)
        PROVE  Game!Shift(key, b) = b
    <2>1. \A c \in Grid : Game!Shift(key, b)[c] = b[c]
      <3> SUFFICES ASSUME NEW c \in Grid
                   PROVE  Game!Shift(key, b)[c] = b[c]
        OBVIOUS
      <3>1. Game!Cell(key, P(c)[1], P(c)[2]) = c
        BY Views DEF P
      <3>2. Game!Shift(key, b)[c] = s(P(c)[1])[P(c)[2]]
        BY <1>2
      <3>3. s(P(c)[1])[P(c)[2]] = b[Game!Cell(key, P(c)[1], P(c)[2])]
        BY <1>3, <1>8, Lines
      <3> QED  BY <3>1, <3>2, <3>3
    <2> QED  BY <1>6, <2>1 DEF Boards
  <1> QED  BY <1>6, <1>7, <1>8 DEF s

\* A line that does not change is packed to its beginning and has no twins.
LEMMA LineChanges ==
  ASSUME NEW b \in Boards, NEW key \in Game!Keys, NEW k \in 1 .. BoardSize,
         Game!Shift(key, b) = b
  PROVE  LET r == Game!Line(b, key, k) IN
         /\ \A p, q \in 1 .. BoardSize : r[p] = 0 /\ p < q => r[q] = 0
         /\ (\A n \in 1 .. BoardSize : r[n] # 0)
            => \A n \in 1 .. BoardSize - 1 : r[n] # r[n + 1]
  <1> DEFINE r == Game!Line(b, key, k)
             s == Game!SlideAndMergeRow(r)
  <1>1. r \in Rows /\ \A n \in 1 .. BoardSize : r[n] = b[Game!Cell(key, k, n)]
    BY Lines
  <1> HIDE DEF r
  <1>2. /\ s \in Rows
        /\ \A p, q \in 1 .. BoardSize : s[p] = 0 /\ p < q => s[q] = 0
        /\ (\E n \in 1 .. BoardSize - 1 : r[n] = r[n + 1]) => s[BoardSize] = 0
    BY <1>1, SlidRow
  <1>3. \A n \in 1 .. BoardSize : b[Game!Cell(key, k, n)] = s[n]
    BY ShiftedLines DEF r
  <1> HIDE DEF s
  <1>4. s = r
    <2>1. \A n \in 1 .. BoardSize : s[n] = r[n]
      BY <1>1, <1>3
    <2> QED  BY <1>1, <1>2, <2>1 DEF Rows
  <1>5. BoardSize \in 1 .. BoardSize
    OBVIOUS
  <1> QED  BY <1>2, <1>4, <1>5 DEF r

\* canMove, for a board that is not empty.
LEMMA CanMoveFits ==
  ASSUME NEW b \in Boards, NEW c \in Grid, b[c] # 0
  PROVE  Game!CanMove(b) <=> \E key \in Game!Keys : Game!Shift(key, b) # b
  <1>k. "a" \in Game!Keys /\ "d" \in Game!Keys /\ "w" \in Game!Keys /\ "s" \in Game!Keys
    BY DEF Game!Keys
  <1>1. ASSUME ~Game!CanMove(b), NEW key \in Game!Keys
        PROVE  Game!Shift(key, b) = b
    <2>1. \A x, y \in 1 .. BoardSize :
             /\ b[<<x, y>>] # 0
             /\ y < BoardSize => b[<<x, y>>] # b[<<x, y + 1>>]
             /\ x < BoardSize => b[<<x, y>>] # b[<<x + 1, y>>]
      BY <1>1 DEF Game!CanMove, Game!Cells
    <2>2. ASSUME NEW k \in 1 .. BoardSize
          PROVE  Game!SlideAndMergeRow(Game!Line(b, key, k)) = Game!Line(b, key, k)
      <3> DEFINE r == Game!Line(b, key, k)
      <3>1. r \in Rows /\ \A n \in 1 .. BoardSize : r[n] = b[Game!Cell(key, k, n)]
        BY Lines
      <3> HIDE DEF r
      <3>2. \A n \in 1 .. BoardSize : r[n] # 0
        <4>1. \A n \in 1 .. BoardSize : Game!Cell(key, k, n) \in Grid
          BY Views
        <4>2. ASSUME NEW d \in Grid PROVE b[d] # 0
          <5>1. d = <<d[1], d[2]>> /\ d[1] \in 1 .. BoardSize /\ d[2] \in 1 .. BoardSize
            BY DEF Grid
          <5>2. b[<<d[1], d[2]>>] # 0
            BY <2>1, <5>1
          <5> QED  BY <5>1, <5>2
        <4> QED  BY <3>1, <4>1, <4>2
      <3>3. ASSUME NEW n \in 1 .. BoardSize - 1
            PROVE  r[n] # r[n + 1]
        <4>1. n \in 1 .. BoardSize /\ n + 1 \in 1 .. BoardSize /\ n < BoardSize
          OBVIOUS
        <4>2. BoardSize + 1 - n \in 1 .. BoardSize /\ BoardSize + 1 - (n + 1) \in 1 .. BoardSize
              /\ BoardSize + 1 - n = (BoardSize + 1 - (n + 1)) + 1
              /\ BoardSize + 1 - (n + 1) < BoardSize
          OBVIOUS
        <4>3. r[n] = b[Game!Cell(key, k, n)] /\ r[n + 1] = b[Game!Cell(key, k, n + 1)]
          BY <3>1, <4>1
        <4>4. CASE key = "a"
          BY <2>1, <4>1, <4>3, <4>4 DEF Game!Cell
        <4>5. CASE key = "w"
          BY <2>1, <4>1, <4>3, <4>5 DEF Game!Cell
        <4>6. CASE key = "d"
          <5>1. r[n] = b[<<k, BoardSize + 1 - n>>]
                /\ r[n + 1] = b[<<k, BoardSize + 1 - (n + 1)>>]
            BY <4>3, <4>6 DEF Game!Cell
          <5> QED  BY <2>1, <4>2, <5>1
        <4>7. CASE key = "s"
          <5>1. r[n] = b[<<BoardSize + 1 - n, k>>]
                /\ r[n + 1] = b[<<BoardSize + 1 - (n + 1), k>>]
            BY <4>3, <4>7 DEF Game!Cell
          <5> QED  BY <2>1, <4>2, <5>1
        <4> QED  BY <4>4, <4>5, <4>6, <4>7 DEF Game!Keys
      <3>4. Game!SlideAndMergeRow(r) = r
        BY <3>1, <3>2, <3>3, SlidRow
      <3> QED  BY <3>4 DEF r
    <2> QED  BY <2>2, ShiftedLines
  <1>2. ASSUME \A key \in Game!Keys : Game!Shift(key, b) = b
        PROVE  ~Game!CanMove(b)
    <2> DEFINE At(x, y)   == b[<<x, y>>]
               L(key, k, n) == Game!Line(b, key, k)[n]
               M(x)       == BoardSize + 1 - x
    <2>1. \A x, y \in 1 .. BoardSize :
             /\ L("a", x, y) = At(x, y) /\ L("d", x, y) = At(x, M(y))
             /\ L("w", y, x) = At(x, y) /\ L("s", y, x) = At(M(x), y)
      <3> SUFFICES ASSUME NEW x \in 1 .. BoardSize, NEW y \in 1 .. BoardSize
                   PROVE  /\ L("a", x, y) = At(x, y) /\ L("d", x, y) = At(x, M(y))
                          /\ L("w", y, x) = At(x, y) /\ L("s", y, x) = At(M(x), y)
        OBVIOUS
      <3>1. \A key \in Game!Keys : \A k, n \in 1 .. BoardSize :
               L(key, k, n) = b[Game!Cell(key, k, n)]
        BY Lines
      <3>2. /\ Game!Cell("a", x, y) = <<x, y>> /\ Game!Cell("d", x, y) = <<x, M(y)>>
            /\ Game!Cell("w", y, x) = <<x, y>> /\ Game!Cell("s", y, x) = <<M(x), y>>
        BY DEF Game!Cell
      <3> HIDE DEF L
      <3> QED  BY <1>k, <3>1, <3>2
    <2>2. \A x \in 1 .. BoardSize : M(x) \in 1 .. BoardSize /\ M(M(x)) = x
      OBVIOUS
    <2>3. \A x, y \in 1 .. BoardSize : x < y => M(y) < M(x)
      OBVIOUS
    <2>4. \A key \in Game!Keys : \A k, p, q \in 1 .. BoardSize :
             L(key, k, p) = 0 /\ p < q => L(key, k, q) = 0
      BY <1>2, LineChanges
    <2>5. \A key \in Game!Keys : \A k \in 1 .. BoardSize :
             (\A n \in 1 .. BoardSize : L(key, k, n) # 0)
             => \A n \in 1 .. BoardSize - 1 : L(key, k, n) # L(key, k, n + 1)
      BY <1>2, LineChanges
    <2>6. c = <<c[1], c[2]>> /\ c[1] \in 1 .. BoardSize /\ c[2] \in 1 .. BoardSize
      BY DEF Grid
    <2>7. At(c[1], c[2]) # 0
      BY <2>6
    <2>8. Game!CanMove(b) =>
             \E x, y \in 1 .. BoardSize : \/ At(x, y) = 0
                                          \/ y < BoardSize /\ At(x, y) = At(x, y + 1)
                                          \/ x < BoardSize /\ At(x, y) = At(x + 1, y)
      BY DEF Game!CanMove, Game!Cells
    <2> HIDE DEF At, L, M
    <2>9. ASSUME NEW x \in 1 .. BoardSize, NEW y \in 1 .. BoardSize, At(x, y) = 0,
                 NEW z \in 1 .. BoardSize
          PROVE  At(x, z) = 0 /\ At(z, y) = 0
      <3>1. ASSUME y < z PROVE At(x, z) = 0
        BY <1>k, <2>1, <2>4, <2>9, <3>1
      <3>2. ASSUME z < y PROVE At(x, z) = 0
        <4>1. L("d", x, M(y)) = 0 /\ M(y) < M(z)
          BY <2>1, <2>2, <2>3, <2>9, <3>2
        <4>2. L("d", x, M(z)) = 0
          BY <1>k, <2>2, <2>4, <4>1
        <4> QED  BY <2>1, <2>2, <4>2
      <3>3. ASSUME x < z PROVE At(z, y) = 0
        BY <1>k, <2>1, <2>4, <2>9, <3>3
      <3>4. ASSUME z < x PROVE At(z, y) = 0
        <4>1. L("s", y, M(x)) = 0 /\ M(x) < M(z)
          BY <2>1, <2>2, <2>3, <2>9, <3>4
        <4>2. L("s", y, M(z)) = 0
          BY <1>k, <2>2, <2>4, <4>1
        <4> QED  BY <2>1, <2>2, <4>2
      <3>5. (z = y \/ y < z \/ z < y) /\ (z = x \/ x < z \/ z < x)
        OBVIOUS
      <3> QED  BY <2>9, <3>1, <3>2, <3>3, <3>4, <3>5
    <2>10. \A x, y \in 1 .. BoardSize : At(x, y) # 0
      <3> SUFFICES ASSUME NEW x \in 1 .. BoardSize, NEW y \in 1 .. BoardSize, At(x, y) = 0
                   PROVE  FALSE
        OBVIOUS
      <3>1. At(x, c[2]) = 0
        BY <2>6, <2>9
      <3>2. At(c[1], c[2]) = 0
        BY <2>6, <2>9, <3>1
      <3> QED  BY <2>7, <3>2
    <2>11. ASSUME NEW x \in 1 .. BoardSize, NEW y \in 1 .. BoardSize
           PROVE  /\ y < BoardSize => At(x, y) # At(x, y + 1)
                  /\ x < BoardSize => At(x, y) # At(x + 1, y)
      <3>1. ASSUME y < BoardSize PROVE At(x, y) # At(x, y + 1)
        <4>1. y \in 1 .. BoardSize - 1 /\ y + 1 \in 1 .. BoardSize
          BY <3>1
        <4>2. L("a", x, y) # L("a", x, y + 1)
          BY <1>k, <2>1, <2>5, <2>10, <4>1
        <4> QED  BY <2>1, <4>1, <4>2
      <3>2. ASSUME x < BoardSize PROVE At(x, y) # At(x + 1, y)
        <4>1. x \in 1 .. BoardSize - 1 /\ x + 1 \in 1 .. BoardSize
          BY <3>2
        <4>2. L("w", y, x) # L("w", y, x + 1)
          BY <1>k, <2>1, <2>5, <2>10, <4>1
        <4> QED  BY <2>1, <4>1, <4>2
      <3> QED  BY <3>1, <3>2
    <2> QED  BY <2>8, <2>10, <2>11
  <1> QED  BY <1>1, <1>2

-----------------------------------------------------------------------------
\* The board is never empty: two tiles begin the game, and none is lost.
GameInv == board \in Boards /\ \E c \in Grid : board[c] # 0

LEMMA TileAdded ==
  ASSUME NEW b \in Boards, NEW d \in Game!WithTile(b)
  PROVE  d \in Boards /\ \E c \in Grid : d[c] # 0
  <1>1. Game!Grid = Grid /\ <<1, 1>> \in Grid
    BY DEF Game!Grid, Game!Cells, Grid
  <1>2. CASE Game!Empty(b) = {}
    <2>1. d = b /\ b[<<1, 1>>] # 0
      BY <1>1, <1>2 DEF Game!WithTile, Game!Empty
    <2> QED  BY <1>1, <2>1
  <1>3. CASE Game!Empty(b) # {}
    <2>1. PICK e \in Game!Empty(b), v \in {2, 4} :
             d = [c \in Grid |-> IF c = e THEN v ELSE b[c]]
      BY <1>1, <1>3 DEF Game!WithTile
    <2>2. e \in Grid
      BY <1>1 DEF Game!Empty
    <2> QED  BY <2>1, <2>2 DEF Boards
  <1> QED  BY <1>2, <1>3

LEMMA MovesNothing ==
  ASSUME NEW b \in Boards, NEW key \in Game!Keys, ~Game!ShiftMoved(key, b)
  PROVE  Game!Shift(key, b) = b
  <1>1. \A k \in 1 .. BoardSize :
           Game!SlideAndMergeRow(Game!Line(b, key, k)) = Game!Line(b, key, k)
    BY DEF Game!ShiftMoved, Game!Moved, Game!Cells
  <1> QED  BY <1>1, ShiftedLines

LEMMA GameStarts == Game!Init => GameInv
  <1> SUFFICES ASSUME Game!Init PROVE GameInv
    OBVIOUS
  <1> DEFINE z == [c \in Grid |-> 0]
  <1>1. z \in Boards
    BY DEF Boards
  <1>2. PICK b \in Game!WithTile(z) : board \in Game!WithTile(b)
    BY DEF Game!Init, Game!Grid, Game!Cells, Grid
  <1> HIDE DEF z
  <1>3. b \in Boards
    BY <1>1, TileAdded
  <1> QED  BY <1>2, <1>3, TileAdded DEF GameInv

LEMMA GameSteps == GameInv /\ Game!Next => GameInv'
  <1> SUFFICES ASSUME GameInv, Game!Next PROVE GameInv'
    OBVIOUS
  <1>1. CASE Game!Win \/ Game!Lose
    BY <1>1 DEF Game!Win, Game!Lose, GameInv
  <1>2. ASSUME NEW key \in Game!Keys, Game!Press(key)
        PROVE  GameInv'
    <2>1. CASE Game!ShiftMoved(key, board)
      <3>1. board' \in Game!WithTile(Game!Shift(key, board))
        BY <1>2, <2>1 DEF Game!Press
      <3>2. Game!Shift(key, board) \in Boards
        BY ShiftedLines DEF GameInv
      <3>3. PICK d : d = board'
        OBVIOUS
      <3>4. d \in Boards /\ \E c \in Grid : d[c] # 0
        BY <3>1, <3>2, <3>3, TileAdded
      <3> QED  BY <3>3, <3>4 DEF GameInv
    <2>2. CASE ~Game!ShiftMoved(key, board)
      <3>1. board' = board
        BY <1>2, <2>2, MovesNothing DEF Game!Press, GameInv
      <3> QED  BY <3>1 DEF GameInv
    <2> QED  BY <2>1, <2>2
  <1> QED  BY <1>1, <1>2 DEF Game!Next

LEMMA GameAlways == Spec => [](program = "game" => GameInv)
  <1> DEFINE I == program = "game" => GameInv
  <1>1. Init => I
    BY GameStarts DEF Init
  <1>2. I /\ [Next]_vars => I'
    <2> SUFFICES ASSUME I, [Next]_vars, program' = "game"
                 PROVE  GameInv'
      OBVIOUS
    <2>1. CASE Play
      BY <2>1, GameSteps DEF Play
    <2>2. CASE UNCHANGED vars
      BY <2>2 DEF vars, gameVars, GameInv
    <2>3. CASE SlideAgain \/ WriteLog \/ ListZip \/ Checksum \/ AskFiglet \/ Summarize
      BY <2>3 DEF SlideAgain, WriteLog, ListZip, Checksum, AskFiglet, Summarize
    <2> QED  BY <2>1, <2>2, <2>3 DEF Next
  <1> QED  BY <1>1, <1>2, PTL DEF Spec

\* CanMoveIsRight, for a board of any size and numbers of any sort.
THEOREM CanMoveAlwaysFits == Spec => []CanMoveIsRight
  <1>1. GameInv => Game!CanMoveIsRight
    BY CanMoveFits DEF GameInv, Game!CanMoveIsRight
  <1>2. (program = "game" => GameInv) => CanMoveIsRight
    BY <1>1 DEF CanMoveIsRight
  <1> QED  BY <1>2, GameAlways, PTL

-----------------------------------------------------------------------------
(* 2048: what the numbers add up to.                                        *)

\* The sum of f over D counts one unit for every 1 in a cell.
Units(f, D) == {p \in D \X Nat : p[2] \in 1 .. f[p[1]]}
Weigh(f, D) == Cardinality(Units(f, D))

LEMMA UnitsOfOne ==
  ASSUME NEW D, NEW f \in [D -> Nat], NEW d \in D
  PROVE  /\ IsFiniteSet(Units(f, {d})) /\ Weigh(f, {d}) = f[d]
  <1> DEFINE n == f[d]
             g == [k \in 1 .. n |-> <<d, k>>]
             T == Units(f, {d})
  <1>1. n \in Nat
    OBVIOUS
  <1>2. T = {<<d, k>> : k \in 1 .. n}
    BY <1>1 DEF Units
  <1>3. g \in Bijection(1 .. n, T)
    <2>1. g \in [1 .. n -> T]
      BY <1>2
    <2>2. \A x, y \in 1 .. n : g[x] = g[y] => x = y
      OBVIOUS
    <2>3. \A t \in T : \E x \in 1 .. n : g[x] = t
      BY <1>2
    <2> QED  BY <2>1, <2>2, <2>3 DEF Bijection, Injection, Surjection, IsInjective
  <1>4. IsFiniteSet(1 .. n) /\ Cardinality(1 .. n) = n
    BY <1>1, FS_Interval
  <1> HIDE DEF n, g, T
  <1>5. IsFiniteSet(T) /\ Cardinality(T) = n
    BY <1>3, <1>4, FS_Bijection DEF ExistsBijection
  <1> QED  BY <1>5 DEF n, T, Weigh

LEMMA UnitsAreFinite ==
  ASSUME NEW D, IsFiniteSet(D), NEW f \in [D -> Nat]
  PROVE  IsFiniteSet(Units(f, D))
  <1> DEFINE S == {Units(f, {d}) : d \in D}
             g == [d \in D |-> Units(f, {d})]
  <1>1. g \in Surjection(D, S)
    BY DEF Surjection
  <1>2. \A T \in S : IsFiniteSet(T)
    <2>1. \A d \in D : IsFiniteSet(Units(f, {d}))
      BY UnitsOfOne
    <2> QED  BY <2>1
  <1>3. Units(f, D) = UNION S
    BY DEF Units
  <1> HIDE DEF S, g
  <1>4. IsFiniteSet(S)
    BY <1>1, FS_Surjection
  <1> QED  BY <1>2, <1>3, <1>4, FS_UNION

\* What the proofs use of Weigh.
LEMMA Weights ==
  ASSUME NEW D, IsFiniteSet(D), NEW f \in [D -> Nat]
  PROVE  /\ \A E \in SUBSET D : Weigh(f, E) \in Nat
         /\ \A E, F \in SUBSET D : E \cap F = {} => Weigh(f, E \cup F) = Weigh(f, E) + Weigh(f, F)
         /\ \A d \in D : Weigh(f, {d}) = f[d]
         /\ Weigh(f, {}) = 0
  <1>1. ASSUME NEW E \in SUBSET D
        PROVE  IsFiniteSet(Units(f, E)) /\ Weigh(f, E) \in Nat
    <2>1. Units(f, E) \in SUBSET Units(f, D)
      BY DEF Units
    <2>2. IsFiniteSet(Units(f, E))
      BY <2>1, UnitsAreFinite, FS_Subset
    <2> QED  BY <2>2, FS_CardinalityType DEF Weigh
  <1>2. ASSUME NEW E \in SUBSET D, NEW F \in SUBSET D, E \cap F = {}
        PROVE  Weigh(f, E \cup F) = Weigh(f, E) + Weigh(f, F)
    <2> DEFINE A == Units(f, E)
               B == Units(f, F)
    <2>1. Units(f, E \cup F) = A \cup B /\ A \cap B = {}
      BY <1>2 DEF Units
    <2>2. /\ IsFiniteSet(A) /\ IsFiniteSet(B)
          /\ Cardinality(A) \in Nat /\ Cardinality(B) \in Nat
      BY <1>1 DEF Weigh
    <2> HIDE DEF A, B
    <2>3. Cardinality(A \cup B) = Cardinality(A) + Cardinality(B) - Cardinality({})
      BY <2>1, <2>2, FS_Union
    <2>4. Cardinality({}) = 0
      BY FS_EmptySet
    <2>5. Cardinality(A \cup B) = Cardinality(A) + Cardinality(B)
      BY <2>2, <2>3, <2>4
    <2> QED  BY <2>1, <2>5 DEF Weigh, A, B
  <1>3. Weigh(f, {}) = 0
    <2>1. Units(f, {}) = {}
      BY DEF Units
    <2> QED  BY <2>1, FS_EmptySet DEF Weigh
  <1> QED  BY <1>1, <1>2, <1>3, UnitsOfOne

\* It depends on nothing but the cells of D, and holes weigh nothing.
LEMMA SameWeight ==
  ASSUME NEW D, NEW f, NEW g, \A d \in D : f[d] = g[d]
  PROVE  Weigh(f, D) = Weigh(g, D)
  <1>1. Units(f, D) = Units(g, D)
    BY DEF Units
  <1> QED  BY <1>1 DEF Weigh

LEMMA NoWeight ==
  ASSUME NEW D, NEW f, \A d \in D : f[d] = 0
  PROVE  Weigh(f, D) = 0
  <1>1. Units(f, D) = {}
    BY DEF Units
  <1> QED  BY <1>1, FS_EmptySet DEF Weigh

LEMMA OneCell ==
  ASSUME NEW D, IsFiniteSet(D), NEW f \in [D -> Nat], NEW E \in SUBSET D, NEW d \in E
  PROVE  /\ Weigh(f, E) = f[d] + Weigh(f, E \ {d})
         /\ Weigh(f, E \ {d}) \in Nat /\ f[d] \in Nat
  <1>1. {d} \in SUBSET D /\ E \ {d} \in SUBSET D /\ d \in D
    OBVIOUS
  <1>2. {d} \cup (E \ {d}) = E /\ {d} \cap (E \ {d}) = {}
    OBVIOUS
  <1>3. Weigh(f, {d} \cup (E \ {d})) = Weigh(f, {d}) + Weigh(f, E \ {d})
    BY <1>1, <1>2, Weights
  <1>4. Weigh(f, {d}) = f[d] /\ Weigh(f, E \ {d}) \in Nat
    BY <1>1, Weights
  <1> QED  BY <1>1, <1>2, <1>3, <1>4

LEMMA TwoCells ==
  ASSUME NEW D, IsFiniteSet(D), NEW f \in [D -> Nat], NEW d \in D, NEW e \in D, d # e
  PROVE  /\ Weigh(f, D) = f[d] + (f[e] + Weigh(f, (D \ {d}) \ {e}))
         /\ Weigh(f, (D \ {d}) \ {e}) \in Nat
  <1>1. Weigh(f, D) = f[d] + Weigh(f, D \ {d})
    <2>1. D \in SUBSET D
      OBVIOUS
    <2>2. \A E \in SUBSET D : d \in E => Weigh(f, E) = f[d] + Weigh(f, E \ {d})
      BY OneCell
    <2> QED  BY <2>1, <2>2
  <1>2. /\ Weigh(f, D \ {d}) = f[e] + Weigh(f, (D \ {d}) \ {e})
        /\ Weigh(f, (D \ {d}) \ {e}) \in Nat
    BY OneCell
  <1> QED  BY <1>1, <1>2

-----------------------------------------------------------------------------
\* Sum of the board is a fold that takes the cells in an order of its own.
Pick(s) == CHOOSE c \in s : TRUE
SumFold(h, b) ==
    h = [s \in SUBSET (DOMAIN b) |-> IF s = {} THEN 0 ELSE b[Pick(s)] + h[s \ {Pick(s)}]]

LEMMA SumIsFold ==
  \A b : Game!Sum(b) = (CHOOSE h : SumFold(h, b))[DOMAIN b]
  BY DEF Game!Sum, Game!FoldFunction, Game!FoldFunctionOnSet, Game!MapThenFoldSet, SumFold, Pick

LEMMA GridIsFinite == IsFiniteSet(Grid)
  <1>1. IsFiniteSet(1 .. BoardSize)
    BY FS_Interval
  <1> QED  BY <1>1, FS_Product DEF Grid

LEMMA SumWeighs ==
  ASSUME NEW b \in Boards
  PROVE  Game!Sum(b) = Weigh(b, Grid)
  <1> DEFINE g == [s \in SUBSET Grid |-> Weigh(b, s)]
  <1>1. DOMAIN b = Grid /\ b \in [Grid -> Nat]
    BY DEF Boards
  <1>2. ASSUME NEW s \in SUBSET Grid, s # {}
        PROVE  /\ Pick(s) \in s /\ s \ {Pick(s)} \in SUBSET Grid
               /\ Weigh(b, s) = b[Pick(s)] + Weigh(b, s \ {Pick(s)})
    <2>1. Pick(s) \in s
      BY <1>2 DEF Pick
    <2> QED  BY <1>1, <2>1, GridIsFinite, OneCell
  <1>3. Weigh(b, {}) = 0
    BY <1>1, GridIsFinite, Weights
  <1>4. SumFold(g, b)
    BY <1>1, <1>2, <1>3 DEF SumFold
  <1>5. PICK h : SumFold(h, b) /\ Game!Sum(b) = h[Grid]
    <2> HIDE DEF g
    <2>1. SumFold(CHOOSE h : SumFold(h, b), b)
      BY <1>4, Zenon
    <2> QED  BY <1>1, <2>1, SumIsFold, Zenon
  <1>6. \A s \in SUBSET Grid : h[s] = IF s = {} THEN 0 ELSE b[Pick(s)] + h[s \ {Pick(s)}]
    BY <1>1, <1>5 DEF SumFold
  <1> DEFINE B == {s \in SUBSET Grid : h[s] # g[s]}
  <1>7. ASSUME B # {}
        PROVE  FALSE
    <2>1. B \subseteq FiniteSubsetsOf(Grid)
      BY GridIsFinite, FS_Subset DEF FiniteSubsetsOf
    <2>2. PICK s \in B : \A r \in B : <<r, s>> \notin StrictSubsetOrdering(Grid)
      <3> HIDE DEF B
      <3> QED  BY <1>7, <2>1, FS_StrictSubsetOrderingWellFounded, WFMin
    <2>3. s \in SUBSET Grid /\ h[s] # g[s]
      OBVIOUS
    <2>4. s # {}
      BY <1>3, <1>6, <2>3
    <2> DEFINE r == s \ {Pick(s)}
    <2>5. r \in SUBSET Grid /\ r # s /\ r \subseteq s
      BY <1>2, <2>3, <2>4
    <2>6. <<r, s>> \in StrictSubsetOrdering(Grid)
      BY <2>3, <2>5 DEF StrictSubsetOrdering
    <2>7. h[r] = g[r]
      BY <2>2, <2>5, <2>6
    <2>8. h[s] = b[Pick(s)] + h[r]
      BY <1>6, <2>3, <2>4
    <2>9. g[s] = b[Pick(s)] + g[r]
      BY <1>2, <2>3, <2>4, <2>5
    <2> HIDE DEF g, r
    <2> QED  BY <2>3, <2>7, <2>8, <2>9
  <1>8. h[Grid] = g[Grid]
    BY <1>7
  <1> QED  BY <1>5, <1>8

-----------------------------------------------------------------------------
\* No loop of slideAndMergeRow loses or makes a number.
LEMMA CellsAreFinite ==
  \A n \in Nat : IsFiniteSet(1 .. n)
  BY FS_Interval

LEMMA KeepWeighs ==
  ASSUME NEW t \in Seq(Nat), NEW v \in Nat
  PROVE  Weigh(Game!Keep(t, v), 1 .. Len(Game!Keep(t, v))) = v + Weigh(t, 1 .. Len(t))
  <1> DEFINE n == Len(t)
  <1>1. /\ n \in Nat /\ n + 1 \in Nat /\ t \in [1 .. n -> Nat]
        /\ (1 .. n + 1) \ {n + 1} = 1 .. n /\ n + 1 \in 1 .. n + 1
    OBVIOUS
  <1>2. Weigh(t, 1 .. n) \in Nat
    BY <1>1, CellsAreFinite, Weights
  <1>3. CASE v = 0
    BY <1>2, <1>3 DEF Game!Keep
  <1>4. CASE v # 0
    <2> DEFINE a == Append(t, v)
    <2>1. /\ a \in [1 .. n + 1 -> Nat] /\ Len(a) = n + 1
          /\ a[n + 1] = v /\ \A j \in 1 .. n : a[j] = t[j]
      <3>1. a \in Seq(Nat) /\ Len(a) = n + 1
        OBVIOUS
      <3>2. \A c \in Seq(Nat) : c \in [1 .. Len(c) -> Nat]
        OBVIOUS
      <3>3. a[n + 1] = v /\ \A j \in 1 .. n : a[j] = t[j]
        OBVIOUS
      <3> HIDE DEF a
      <3>4. a \in [1 .. Len(a) -> Nat]
        BY <3>1, <3>2
      <3> QED  BY <3>1, <3>3, <3>4
    <2>2. Game!Keep(t, v) = a
      BY <1>4 DEF Game!Keep
    <2> HIDE DEF a, n
    <2>3. Weigh(a, 1 .. n + 1) = v + Weigh(a, 1 .. n)
      <3>1. IsFiniteSet(1 .. n + 1)
        BY <1>1, CellsAreFinite
      <3> QED  BY <1>1, <2>1, <3>1, OneCell
    <2>4. Weigh(a, 1 .. n) = Weigh(t, 1 .. n)
      BY <2>1, SameWeight
    <2> QED  BY <2>1, <2>2, <2>3, <2>4 DEF n
  <1> QED  BY <1>3, <1>4

Weight(r) == Weigh(r, 1 .. BoardSize)

LEMMA TilesWeigh ==
  ASSUME NEW r \in Rows
  PROVE  Weigh(Game!Tiles(r), 1 .. Len(Game!Tiles(r))) = Weight(r)
  <1>1. PICK f : /\ f[0] = <<>>
                 /\ \A k \in 0 .. BoardSize : f[k] \in Seq(Nat)
                 /\ \A k \in 1 .. BoardSize : f[k] = Game!Keep(f[k - 1], r[k])
                 /\ Game!Tiles(r) = f[BoardSize]
    BY KeepLoop
  <1> DEFINE W(t) == Weigh(t, 1 .. Len(t))
             P == {k \in 0 .. BoardSize : W(f[k]) = Weigh(r, 1 .. k)}
  <1>2. 0 \in P
    <2>1. 0 \in 0 .. BoardSize /\ 1 .. 0 = {} /\ 1 .. Len(<<>>) = {}
      OBVIOUS
    <2>2. Weigh(<<>>, {}) = 0 /\ Weigh(r, {}) = 0
      BY NoWeight
    <2> QED  BY <1>1, <2>1, <2>2
  <1>3. ASSUME NEW k \in 1 .. BoardSize, k - 1 \in P
        PROVE  k \in P
    <2>1. k \in 0 .. BoardSize /\ k - 1 \in 0 .. BoardSize
      OBVIOUS
    <2>2. f[k - 1] \in Seq(Nat) /\ r[k] \in Nat /\ f[k] = Game!Keep(f[k - 1], r[k])
      BY <1>1, <2>1 DEF Rows
    <2>3. W(f[k]) = r[k] + W(f[k - 1])
      BY <2>2, KeepWeighs
    <2>4. Weigh(r, 1 .. k) = r[k] + Weigh(r, 1 .. k - 1)
      <3> DEFINE D == 1 .. BoardSize
                 S == 1 .. k
      <3>1. S \in SUBSET D /\ k \in S /\ S \ {k} = 1 .. k - 1
        OBVIOUS
      <3>2. IsFiniteSet(D) /\ r \in [D -> Nat]
        BY CellsAreFinite DEF Rows
      <3>3. PICK d : d = k
        OBVIOUS
      <3>4. S \in SUBSET D /\ d \in S
        BY <3>1, <3>3
      <3> HIDE DEF D, S
      <3>5. Weigh(r, S) = r[d] + Weigh(r, S \ {d})
        BY <3>2, <3>4, OneCell
      <3> QED  BY <3>1, <3>3, <3>5 DEF S
    <2>5. W(f[k - 1]) = Weigh(r, 1 .. k - 1)
      BY <1>3
    <2> QED  BY <2>1, <2>3, <2>4, <2>5
  <1> HIDE DEF P
  <1>4. BoardSize \in P
    <2>1. \A k \in 0 .. BoardSize : k \in P
      BY <1>2, <1>3, CountingUp
    <2> QED  BY <2>1
  <1> QED  BY <1>1, <1>4 DEF P, Weight

LEMMA PadWeighs ==
  ASSUME NEW t \in Seq(Nat), Len(t) <= BoardSize
  PROVE  Weight(Game!Pad(t)) = Weigh(t, 1 .. Len(t))
  <1> DEFINE a == Game!Pad(t)
             n == Len(t)
             D == 1 .. BoardSize
  <1>1. a \in [D -> Nat] /\ \A k \in D : a[k] = IF k <= n THEN t[k] ELSE 0
    BY PaddedRow DEF Rows
  <1>2. /\ n \in Nat /\ 1 .. n \in SUBSET D /\ n + 1 .. BoardSize \in SUBSET D
        /\ (1 .. n) \cup (n + 1 .. BoardSize) = D /\ (1 .. n) \cap (n + 1 .. BoardSize) = {}
    OBVIOUS
  <1>3. IsFiniteSet(D)
    BY CellsAreFinite
  <1>4. (\A k \in 1 .. n : a[k] = t[k]) /\ \A k \in n + 1 .. BoardSize : a[k] = 0
    BY <1>1, <1>2
  <1> HIDE DEF a, n, D
  <1>5. Weigh(a, D) = Weigh(a, 1 .. n) + Weigh(a, n + 1 .. BoardSize)
    <2>1. Weigh(a, (1 .. n) \cup (n + 1 .. BoardSize))
             = Weigh(a, 1 .. n) + Weigh(a, n + 1 .. BoardSize)
      <3>1. \A A, B \in SUBSET D : A \cap B = {} => Weigh(a, A \cup B) = Weigh(a, A) + Weigh(a, B)
        BY <1>1, <1>3, Weights
      <3> QED  BY <1>2, <3>1, Zenon
    <2> QED  BY <1>2, <2>1
  <1>6. Weigh(a, 1 .. n) = Weigh(t, 1 .. n)
    BY <1>4, SameWeight
  <1>7. Weigh(a, n + 1 .. BoardSize) = 0
    BY <1>4, NoWeight
  <1>8. Weigh(a, 1 .. n) \in Nat
    BY <1>1, <1>2, <1>3, Weights
  <1> QED  BY <1>5, <1>6, <1>7, <1>8 DEF a, n, D, Weight

LEMMA TakenIn ==
  ASSUME NEW D, IsFiniteSet(D), NEW f, NEW g, f \in [D -> Nat], g \in [D -> Nat],
         NEW d, NEW e, d \in D, e \in D, d # e, f[d] = f[e], g[d] = 2 * f[d], g[e] = 0,
         \A c \in (D \ {d}) \ {e} : g[c] = f[c]
  PROVE  Weigh(g, D) = Weigh(f, D)
  <1> DEFINE F == (D \ {d}) \ {e}
  <1>1. /\ Weigh(f, D) = f[d] + (f[e] + Weigh(f, F)) /\ Weigh(f, F) \in Nat
        /\ Weigh(g, D) = g[d] + (g[e] + Weigh(g, F))
    BY TwoCells
  <1>2. Weigh(g, F) = Weigh(f, F)
    BY SameWeight
  <1>3. f[d] \in Nat
    OBVIOUS
  <1> HIDE DEF F
  <1> QED  BY <1>1, <1>2, <1>3

LEMMA MergeAtWeighs ==
  ASSUME NEW t \in Rows, NEW k \in 1 .. BoardSize - 1
  PROVE  Weight(Game!MergeAt(t, k)) = Weight(t)
  <1> DEFINE m == Game!MergeAt(t, k)
             D == 1 .. BoardSize
  <1>1. CASE t[k] # 0 /\ t[k] = t[k + 1]
    <2>1. PICK d, e : d = k /\ e = k + 1
      OBVIOUS
    <2>2. d \in D /\ e \in D /\ d # e /\ IsFiniteSet(D)
      BY <2>1, CellsAreFinite
    <2>3. t \in [D -> Nat] /\ m \in [D -> Nat]
      BY MergeAtType DEF Rows, RowsOf
    <2>4. /\ t[d] = t[e] /\ m[d] = 2 * t[d] /\ m[e] = 0
          /\ \A c \in (D \ {d}) \ {e} : m[c] = t[c]
      BY <1>1, <2>1, <2>2, <2>3 DEF Game!MergeAt
    <2> HIDE DEF m, D
    <2>5. Weigh(m, D) = Weigh(t, D)
      BY <2>2, <2>3, <2>4, TakenIn
    <2> QED  BY <2>5 DEF m, D, Weight
  <1>2. CASE ~(t[k] # 0 /\ t[k] = t[k + 1])
    <2>1. m = t
      BY <1>2 DEF Game!MergeAt
    <2> QED  BY <2>1
  <1> QED  BY <1>1, <1>2

LEMMA MergedWeighs ==
  ASSUME NEW r \in Rows
  PROVE  Weight(Game!Merged(r)) = Weight(r)
  <1>1. PICK f : /\ f[0] = r
                 /\ \A k \in 0 .. BoardSize - 1 : f[k] \in Rows
                 /\ \A k \in 1 .. BoardSize - 1 : f[k] = Game!MergeAt(f[k - 1], k)
                 /\ Game!Merged(r) = f[BoardSize - 1]
    BY MergeLoop
  <1> DEFINE n == BoardSize - 1
             P == {k \in 0 .. n : Weight(f[k]) = Weight(r)}
  <1>2. n \in Nat /\ 0 \in 0 .. n /\ n \in 0 .. n
    OBVIOUS
  <1>3. 0 \in P
    BY <1>1, <1>2
  <1>4. ASSUME NEW k \in 1 .. n, k - 1 \in P
        PROVE  k \in P
    <2>1. k \in 0 .. n /\ k - 1 \in 0 .. n
      OBVIOUS
    <2>2. f[k - 1] \in Rows /\ f[k] = Game!MergeAt(f[k - 1], k) /\ Weight(f[k - 1]) = Weight(r)
      BY <1>1, <1>4, <2>1
    <2>3. Weight(f[k]) = Weight(r)
      BY <2>2, MergeAtWeighs
    <2> QED  BY <2>1, <2>3
  <1> HIDE DEF P
  <1>5. n \in P
    <2> HIDE DEF n
    <2>1. \A k \in 0 .. n : k \in P
      BY <1>2, <1>3, <1>4, CountingUp
    <2> QED  BY <1>2, <2>1
  <1> QED  BY <1>1, <1>5 DEF P

LEMMA SlidWeighs ==
  ASSUME NEW r \in Rows
  PROVE  Weight(Game!SlideAndMergeRow(r)) = Weight(r)
  <1> DEFINE t == Game!Tiles(r)
             a == Game!Pad(t)
             m == Game!Merged(a)
             u == Game!Tiles(m)
  <1>1. t \in Seq(Nat) /\ Len(t) <= BoardSize /\ Weigh(t, 1 .. Len(t)) = Weight(r)
    BY TilesOfRow, TilesWeigh
  <1>2. a \in Rows /\ Weight(a) = Weigh(t, 1 .. Len(t))
    <2> HIDE DEF t
    <2> QED  BY <1>1, PaddedRow, PadWeighs
  <1>3. m \in Rows /\ Weight(m) = Weight(a)
    <2> HIDE DEF a
    <2> QED  BY <1>2, MergedRow, MergedWeighs
  <1>4. u \in Seq(Nat) /\ Len(u) <= BoardSize /\ Weigh(u, 1 .. Len(u)) = Weight(m)
    <2> HIDE DEF m
    <2> QED  BY <1>3, TilesOfRow, TilesWeigh
  <1>5. Weight(Game!Pad(u)) = Weigh(u, 1 .. Len(u))
    <2> HIDE DEF u
    <2> QED  BY <1>4, PadWeighs
  <1>6. Game!SlideAndMergeRow(r) = Game!Pad(u)
    BY DEF Game!SlideAndMergeRow
  <1> HIDE DEF t, a, m, u
  <1> QED  BY <1>1, <1>2, <1>3, <1>4, <1>5, <1>6

-----------------------------------------------------------------------------
\* A board weighs what its lines weigh, whichever key looks at them.
LEMMA Renamed ==
  ASSUME NEW D, IsFiniteSet(D), NEW E, NEW f \in [D -> Nat], NEW g, NEW h \in Bijection(D, E),
         \A d \in D : g[h[d]] = f[d]
  PROVE  Weigh(g, E) = Weigh(f, D)
  <1> DEFINE A == Units(f, D)
             B == Units(g, E)
             m == [p \in A |-> <<h[p[1]], p[2]>>]
  <1>1. /\ \A d \in D : h[d] \in E
        /\ \A c, d \in D : h[c] = h[d] => c = d
        /\ \A e \in E : \E d \in D : h[d] = e
    BY DEF Bijection, Injection, Surjection, IsInjective
  <1>2. \A p \in A : p = <<p[1], p[2]>> /\ p[1] \in D /\ p[2] \in Nat /\ p[2] \in 1 .. f[p[1]]
    BY DEF Units
  <1>3. \A d \in D, n \in Nat : <<h[d], n>> \in B <=> n \in 1 .. f[d]
    BY <1>1 DEF Units
  <1>4. \A d \in D, n \in Nat : <<d, n>> \in A <=> n \in 1 .. f[d]
    BY DEF Units
  <1>5. \A p \in B : \E d \in D : p = <<h[d], p[2]>> /\ p[2] \in Nat
    BY <1>1 DEF Units
  <1> HIDE DEF A, B
  <1>6. m \in [A -> B]
    BY <1>2, <1>3
  <1>7. \A p, q \in A : m[p] = m[q] => p = q
    <2> SUFFICES ASSUME NEW p \in A, NEW q \in A, m[p] = m[q]
                 PROVE  p = q
      OBVIOUS
    <2>1. h[p[1]] = h[q[1]] /\ p[2] = q[2]
      OBVIOUS
    <2> QED  BY <1>1, <1>2, <2>1
  <1>8. \A p \in B : \E q \in A : m[q] = p
    <2> SUFFICES ASSUME NEW p \in B
                 PROVE  \E q \in A : m[q] = p
      OBVIOUS
    <2>1. PICK d \in D : p = <<h[d], p[2]>> /\ p[2] \in Nat
      BY <1>5
    <2>2. <<d, p[2]>> \in A
      BY <1>3, <1>4, <2>1
    <2> QED  BY <2>1, <2>2
  <1> HIDE DEF m
  <1>9. m \in Bijection(A, B)
    BY <1>6, <1>7, <1>8 DEF Bijection, Injection, Surjection, IsInjective
  <1>10. IsFiniteSet(A)
    BY UnitsAreFinite DEF A
  <1>11. Cardinality(B) = Cardinality(A)
    BY <1>9, <1>10, FS_Bijection DEF ExistsBijection
  <1> QED  BY <1>11 DEF A, B, Weigh

CellsOf(key, k) == {c \in Grid : Game!Place(key, c)[1] = k}
UpTo(key, k)    == {c \in Grid : Game!Place(key, c)[1] <= k}

LEMMA LineWeighs ==
  ASSUME NEW b \in Boards, NEW key \in Game!Keys, NEW k \in 1 .. BoardSize
  PROVE  Weigh(b, CellsOf(key, k)) = Weight(Game!Line(b, key, k))
  <1> DEFINE D == 1 .. BoardSize
             E == CellsOf(key, k)
             r == Game!Line(b, key, k)
             h == [n \in D |-> Game!Cell(key, k, n)]
  <1>1. r \in [D -> Nat] /\ \A n \in D : b[h[n]] = r[n]
    BY Lines DEF Rows
  <1>2. \A n \in D : /\ h[n] \in Grid
                     /\ Game!Place(key, h[n]) = <<k, n>>
    BY Views
  <1>3. \A c \in Grid : Game!Place(key, c)[2] \in D
                       /\ Game!Cell(key, Game!Place(key, c)[1], Game!Place(key, c)[2]) = c
    BY Views DEF Grid
  <1>4. IsFiniteSet(D)
    BY CellsAreFinite
  <1>5. h \in [D -> E]
    BY <1>2 DEF CellsOf
  <1>6. \A c \in E : \E n \in D : h[n] = c
    BY <1>3 DEF CellsOf
  <1> HIDE DEF D, E, r, h
  <1>7. \A n, m \in D : h[n] = h[m] => n = m
    <2> SUFFICES ASSUME NEW n \in D, NEW m \in D, h[n] = h[m]
                 PROVE  n = m
      OBVIOUS
    <2>1. <<k, n>> = <<k, m>>
      BY <1>2
    <2> QED  BY <2>1
  <1>8. h \in Bijection(D, E)
    BY <1>5, <1>6, <1>7 DEF Bijection, Injection, Surjection, IsInjective
  <1>9. Weigh(b, E) = Weigh(r, D)
    BY <1>1, <1>4, <1>8, Renamed
  <1> QED  BY <1>9 DEF D, E, r, Weight

LEMMA SameLinesSameSum ==
  ASSUME NEW b \in Boards, NEW d \in Boards, NEW key \in Game!Keys,
         \A k \in 1 .. BoardSize :
            Weight(Game!Line(b, key, k)) = Weight(Game!Line(d, key, k))
  PROVE  Weigh(b, Grid) = Weigh(d, Grid)
  <1> DEFINE P == {k \in 0 .. BoardSize : Weigh(b, UpTo(key, k)) = Weigh(d, UpTo(key, k))}
  <1>1. \A c \in Grid : Game!Place(key, c)[1] \in 1 .. BoardSize
    BY Views DEF Grid
  <1>2. 0 \in P
    <2>1. UpTo(key, 0) = {}
      BY <1>1 DEF UpTo
    <2>2. Weigh(b, {}) = 0 /\ Weigh(d, {}) = 0
      BY NoWeight
    <2> QED  BY <2>1, <2>2
  <1>3. ASSUME NEW k \in 1 .. BoardSize, k - 1 \in P
        PROVE  k \in P
    <2> DEFINE U == UpTo(key, k - 1)
               L == CellsOf(key, k)
    <2>1. UpTo(key, k) = U \cup L /\ U \cap L = {} /\ U \in SUBSET Grid /\ L \in SUBSET Grid
      BY <1>1 DEF UpTo, CellsOf
    <2>2. Weigh(b, L) = Weigh(d, L)
      BY LineWeighs
    <2>3. Weigh(b, U) = Weigh(d, U)
      BY <1>3
    <2> HIDE DEF U, L
    <2>4. \A f \in Boards : Weigh(f, U \cup L) = Weigh(f, U) + Weigh(f, L)
      <3> SUFFICES ASSUME NEW f \in Boards
                   PROVE  Weigh(f, U \cup L) = Weigh(f, U) + Weigh(f, L)
        OBVIOUS
      <3>1. f \in [Grid -> Nat] /\ IsFiniteSet(Grid)
        BY GridIsFinite DEF Boards
      <3> QED  BY <2>1, <3>1, Weights
    <2>5. Weigh(b, UpTo(key, k)) = Weigh(d, UpTo(key, k))
      BY <2>1, <2>2, <2>3, <2>4
    <2> QED  BY <2>5
  <1> HIDE DEF P
  <1>4. BoardSize \in P
    <2>1. \A k \in 0 .. BoardSize : k \in P
      BY <1>2, <1>3, CountingUp
    <2> QED  BY <2>1
  <1>5. UpTo(key, BoardSize) = Grid
    BY <1>1 DEF UpTo
  <1> QED  BY <1>4, <1>5 DEF P

LEMMA ShiftKeepsSum ==
  ASSUME NEW b \in Boards, NEW key \in Game!Keys
  PROVE  Weigh(Game!Shift(key, b), Grid) = Weigh(b, Grid)
  <1> DEFINE d == Game!Shift(key, b)
  <1>1. d \in Boards
    BY ShiftedLines
  <1>2. ASSUME NEW k \in 1 .. BoardSize
        PROVE  Weight(Game!Line(d, key, k)) = Weight(Game!Line(b, key, k))
    <2> DEFINE r == Game!Line(b, key, k)
               q == Game!Line(d, key, k)
    <2>1. r \in Rows
      BY Lines
    <2>2. \A n \in 1 .. BoardSize : d[Game!Cell(key, k, n)] = Game!SlideAndMergeRow(r)[n]
      BY ShiftedLines
    <2> HIDE DEF d
    <2>3. \A n \in 1 .. BoardSize : q[n] = d[Game!Cell(key, k, n)]
      BY <1>1, Lines
    <2> HIDE DEF r, q
    <2>4. \A n \in 1 .. BoardSize : q[n] = Game!SlideAndMergeRow(r)[n]
      BY <2>2, <2>3
    <2>5. Weight(q) = Weight(Game!SlideAndMergeRow(r))
      BY <2>4, SameWeight DEF Weight
    <2> QED  BY <2>1, <2>5, SlidWeighs DEF r, q
  <1> HIDE DEF d
  <1>3. Weigh(b, Grid) = Weigh(d, Grid)
    BY <1>1, <1>2, SameLinesSameSum
  <1> QED  BY <1>3 DEF d

-----------------------------------------------------------------------------
\* A row that has moved ends in a hole, so there is room for the new tile.
LEMMA RoomForATile ==
  ASSUME NEW b \in Boards, NEW key \in Game!Keys, Game!ShiftMoved(key, b)
  PROVE  \E c \in Grid : Game!Shift(key, b)[c] = 0
  <1>1. PICK k \in 1 .. BoardSize : Game!Moved(Game!Line(b, key, k))
    BY DEF Game!ShiftMoved, Game!Cells
  <1>2. Game!SlideAndMergeRow(Game!Line(b, key, k))[BoardSize] = 0
    <2>1. Game!Line(b, key, k) \in Rows
      BY Lines
    <2> QED  BY <1>1, <2>1, SlidRow
  <1>3. BoardSize \in 1 .. BoardSize
    OBVIOUS
  <1>4. Game!Shift(key, b)[Game!Cell(key, k, BoardSize)] = 0
    BY <1>2, <1>3, ShiftedLines
  <1> QED  BY <1>3, <1>4, Views

LEMMA TileIsNew ==
  ASSUME NEW b \in Boards, NEW e \in Grid, b[e] = 0, NEW d \in Game!WithTile(b)
  PROVE  Game!OneMore(b, d)
  <1>1. Game!Grid = Grid
    BY DEF Game!Grid, Game!Cells, Grid
  <1>2. PICK c \in Game!Empty(b), v \in {2, 4} :
           d = [x \in Grid |-> IF x = c THEN v ELSE b[x]]
    <2>1. Game!Empty(b) # {}
      BY <1>1 DEF Game!Empty
    <2> QED  BY <1>1, <2>1 DEF Game!WithTile
  <1>3. c \in Grid /\ b[c] = 0
    BY <1>1 DEF Game!Empty
  <1>4. d[c] = v /\ \A x \in Grid \ {c} : d[x] = b[x]
    BY <1>2, <1>3
  <1> QED  BY <1>1, <1>3, <1>4 DEF Game!OneMore

-----------------------------------------------------------------------------
(* A single row of 2048, and the rule without the loops: which tiles lead a *)
(* pair depends on the left neighbour alone, which is what the second loop  *)
(* knows when it comes to a cell.                                           *)

\* The operators of a row are those of a line of the board; only the length differs.
LEMMA SameLoops ==
  /\ \A r : Row!Tiles(r) = Game!Tiles(r)
  /\ \A t : Row!Merged(t) = MergesOf(t, RowSize)
  /\ \A t, k : Row!MergeAt(t, k) = Game!MergeAt(t, k)
  /\ \A s : Row!Cardinality(s) = Cardinality(s)
  <1>1. \A r : Row!Tiles(r) = (CHOOSE h : KeepFold(h, r))[DOMAIN r]
    BY DEF Row!Tiles, Row!FoldLeft, Row!MapThenFoldSet, KeepFold, Row!Keep, Game!Keep, Row!Max, Game!Max
  <1>2. \A t : Row!Merged(t) = (CHOOSE h : MergeFold(h, t, RowSize))[DOMAIN MergeOrder(RowSize)]
    BY DEF Row!Merged, Row!FoldLeft, Row!MapThenFoldSet, MergeFold, MergeOrder, Row!MergeAt,
           Game!MergeAt, Row!Max, Game!Max
  <1>3. \A t, k : Row!MergeAt(t, k) = Game!MergeAt(t, k)
    BY DEF Row!MergeAt, Game!MergeAt
  <1>4. \A s : Row!Cardinality(s) = Cardinality(s)
    BY DEF Row!Cardinality, Cardinality
  <1> QED  BY <1>1, <1>2, <1>3, <1>4, TilesIsFold, Zenon DEF MergesOf

\* The tiles up to cell k, one cell at a time.
LEMMA TilesCount ==
  ASSUME NEW w \in Nat, NEW r \in RowsOf(w)
  PROVE  /\ Row!TilesTo(r, 0) = 0
         /\ \A k \in 0 .. w : Row!TilesTo(r, k) \in 0 .. k
         /\ \A k \in 1 .. w :
               Row!TilesTo(r, k) = Row!TilesTo(r, k - 1) + IF r[k] # 0 THEN 1 ELSE 0
  <1> DEFINE S(k) == {j \in 1 .. k : r[j] # 0}
  <1>1. ASSUME NEW k \in 0 .. w
        PROVE  /\ IsFiniteSet(S(k)) /\ Row!TilesTo(r, k) = Cardinality(S(k))
               /\ Cardinality(S(k)) \in 0 .. k
    <2>1. k \in Int /\ 1 \in Int /\ k >= 0
      OBVIOUS
    <2>2. IsFiniteSet(1 .. k) /\ Cardinality(1 .. k) = IF 1 > k THEN 0 ELSE k - 1 + 1
      BY <2>1, FS_Interval
    <2>3. S(k) \in SUBSET (1 .. k)
      OBVIOUS
    <2>4. IsFiniteSet(S(k)) /\ Cardinality(S(k)) <= Cardinality(1 .. k)
      BY <2>2, <2>3, FS_Subset
    <2>5. Cardinality(S(k)) \in Nat
      BY <2>4, FS_CardinalityType
    <2>6. Row!TilesTo(r, k) = Cardinality(S(k))
      BY SameLoops DEF Row!TilesTo
    <2> QED  BY <2>1, <2>2, <2>4, <2>5, <2>6
  <1>2. Row!TilesTo(r, 0) = 0
    <2>1. 0 \in 0 .. w /\ S(0) = {}
      OBVIOUS
    <2>2. Row!TilesTo(r, 0) = Cardinality(S(0))
      BY <1>1, <2>1
    <2>3. Cardinality({}) = 0
      BY FS_EmptySet
    <2> QED  BY <2>1, <2>2, <2>3
  <1>3. ASSUME NEW k \in 1 .. w
        PROVE  Row!TilesTo(r, k) = Row!TilesTo(r, k - 1) + IF r[k] # 0 THEN 1 ELSE 0
    <2>1. k - 1 \in 0 .. w /\ k \in 0 .. w /\ k \notin S(k - 1)
      OBVIOUS
    <2>2. IsFiniteSet(S(k - 1))
      BY <1>1, <2>1
    <2>3. CASE r[k] # 0
      <3>1. S(k) = S(k - 1) \cup {k}
        BY <2>3
      <3>2. Cardinality(S(k - 1) \cup {k}) = Cardinality(S(k - 1)) + 1
        <4> HIDE DEF S
        <4> QED  BY <2>1, <2>2, FS_AddElement
      <3> QED  BY <1>1, <2>1, <2>3, <3>1, <3>2
    <2>4. CASE r[k] = 0
      <3>1. S(k) = S(k - 1)
        BY <2>4
      <3>2. Cardinality(S(k - 1)) \in Nat
        BY <2>2, FS_CardinalityType
      <3> QED  BY <1>1, <2>1, <2>4, <3>1, <3>2
    <2> QED  BY <2>3, <2>4
  <1> QED  BY <1>1, <1>2, <1>3

\* What the first loop collects.
LEMMA TilesAre ==
  ASSUME NEW w \in Nat \ {0}, NEW r \in RowsOf(w)
  PROVE  /\ Game!Tiles(r) \in Seq(Nat) /\ Len(Game!Tiles(r)) = Row!TilesTo(r, w)
         /\ \A j \in 1 .. w : r[j] # 0 => /\ Row!TilesTo(r, j) \in 1 .. Row!TilesTo(r, w)
                                        /\ Game!Tiles(r)[Row!TilesTo(r, j)] = r[j]
         /\ \A n \in 1 .. Row!TilesTo(r, w) :
               \E j \in 1 .. w : r[j] # 0 /\ Row!TilesTo(r, j) = n
  <1> DEFINE T == [k \in 0 .. w |-> Row!TilesTo(r, k)]
  <1>1. PICK f : /\ f[0] = <<>>
                 /\ \A k \in 0 .. w : f[k] \in Seq(Nat)
                 /\ \A k \in 1 .. w : f[k] = Game!Keep(f[k - 1], r[k])
                 /\ Game!Tiles(r) = f[w]
    BY KeepSteps
  <1>2. /\ T[0] = 0 /\ \A k \in 0 .. w : T[k] \in Nat /\ T[k] = Row!TilesTo(r, k)
        /\ \A k \in 1 .. w : T[k] = T[k - 1] + IF r[k] # 0 THEN 1 ELSE 0
    <2>1. w \in Nat /\ 0 \in 0 .. w /\ \A k \in 1 .. w : k \in 0 .. w /\ k - 1 \in 0 .. w
      OBVIOUS
    <2>2. \A k \in 0 .. w : Row!TilesTo(r, k) \in Nat
      BY TilesCount
    <2> QED  BY <2>1, <2>2, TilesCount
  <1>3. \A k \in 1 .. w : r[k] \in Nat
    BY DEF RowsOf
  <1> HIDE DEF T
  <1> DEFINE P == {k \in 0 .. w :
                     /\ Len(f[k]) = T[k]
                     /\ \A j \in 1 .. k : r[j] # 0 => T[j] \in 1 .. T[k] /\ f[k][T[j]] = r[j]
                     /\ \A n \in 1 .. T[k] : \E j \in 1 .. k : r[j] # 0 /\ T[j] = n}
  <1>4. 0 \in P
    BY <1>1, <1>2
  <1>5. ASSUME NEW k \in 1 .. w, k - 1 \in P
        PROVE  k \in P
    <2>1. /\ k \in 0 .. w /\ k - 1 \in 0 .. w /\ f[k - 1] \in Seq(Nat) /\ r[k] \in Nat
          /\ f[k] = Game!Keep(f[k - 1], r[k]) /\ T[k - 1] \in Nat /\ T[k] \in Nat
          /\ T[k] = T[k - 1] + IF r[k] # 0 THEN 1 ELSE 0
      BY <1>1, <1>2, <1>3
    <2>2. /\ Len(f[k - 1]) = T[k - 1]
          /\ \A j \in 1 .. k - 1 : r[j] # 0 => T[j] \in 1 .. T[k - 1] /\ f[k - 1][T[j]] = r[j]
          /\ \A n \in 1 .. T[k - 1] : \E j \in 1 .. k - 1 : r[j] # 0 /\ T[j] = n
      BY <1>5
    <2> HIDE DEF P
    <2>3. CASE r[k] = 0
      <3>1. f[k] = f[k - 1] /\ T[k] = T[k - 1]
        BY <2>1, <2>3 DEF Game!Keep
      <3>2. \A j \in 1 .. k : r[j] # 0 => j \in 1 .. k - 1
        BY <2>3
      <3>3. \A j \in 1 .. k - 1 : j \in 1 .. k
        OBVIOUS
      <3> QED  BY <2>1, <2>2, <3>1, <3>2, <3>3 DEF P
    <2>4. CASE r[k] # 0
      <3>1. f[k] = Append(f[k - 1], r[k]) /\ T[k] = T[k - 1] + 1
        BY <2>1, <2>4 DEF Game!Keep
      <3>2. /\ Len(f[k]) = T[k] /\ f[k][T[k]] = r[k]
            /\ \A n \in 1 .. T[k - 1] : f[k][n] = f[k - 1][n]
        <4> DEFINE x == f[k - 1]
                   v == r[k]
                   t == T[k - 1]
        <4>1. x \in Seq(Nat) /\ v \in Nat /\ Len(x) = t /\ t \in Nat
          BY <2>1, <2>2
        <4> HIDE DEF x, v, t
        <4>2. /\ Len(Append(x, v)) = t + 1 /\ Append(x, v)[t + 1] = v
              /\ \A n \in 1 .. t : Append(x, v)[n] = x[n]
          BY <4>1
        <4> QED  BY <3>1, <4>2 DEF x, v, t
      <3>3. ASSUME NEW j \in 1 .. k, r[j] # 0
            PROVE  T[j] \in 1 .. T[k] /\ f[k][T[j]] = r[j]
        <4>1. CASE j = k
          BY <2>1, <3>1, <3>2, <4>1
        <4>2. CASE j # k
          <5>1. j \in 1 .. k - 1
            BY <4>2
          <5>2. T[j] \in 1 .. T[k - 1] /\ f[k - 1][T[j]] = r[j]
            BY <2>2, <3>3, <5>1
          <5> QED  BY <2>1, <3>1, <3>2, <5>2
        <4> QED  BY <4>1, <4>2
      <3>4. ASSUME NEW n \in 1 .. T[k]
            PROVE  \E j \in 1 .. k : r[j] # 0 /\ T[j] = n
        <4>1. CASE n = T[k]
          BY <2>4, <4>1
        <4>2. CASE n # T[k]
          <5>1. n \in 1 .. T[k - 1]
            BY <2>1, <3>1, <4>2
          <5>2. PICK j \in 1 .. k - 1 : r[j] # 0 /\ T[j] = n
            BY <2>2, <5>1
          <5>3. j \in 1 .. k
            OBVIOUS
          <5> QED  BY <5>2, <5>3
        <4> QED  BY <4>1, <4>2
      <3> QED  BY <2>1, <3>2, <3>3, <3>4 DEF P
    <2> QED  BY <2>1, <2>3, <2>4
  <1> HIDE DEF P
  <1>6. w \in P
    <2>1. \A k \in 0 .. w : k \in P
      BY <1>4, <1>5, CountingUp
    <2> QED  BY <2>1
  <1>7. w \in 0 .. w /\ \A j \in 1 .. w : j \in 0 .. w
    OBVIOUS
  <1>8. /\ Len(f[w]) = T[w]
        /\ \A j \in 1 .. w : r[j] # 0 => T[j] \in 1 .. T[w] /\ f[w][T[j]] = r[j]
        /\ \A n \in 1 .. T[w] : \E j \in 1 .. w : r[j] # 0 /\ T[j] = n
    BY <1>6 DEF P
  <1>9. \A j \in 1 .. w : T[j] = Row!TilesTo(r, j)
    BY <1>2, <1>7
  <1>10. T[w] = Row!TilesTo(r, w) /\ f[w] \in Seq(Nat) /\ f[w] = Game!Tiles(r)
    BY <1>1, <1>2, <1>7
  <1>11. \A j \in 1 .. w : r[j] # 0 => /\ Row!TilesTo(r, j) \in 1 .. Row!TilesTo(r, w)
                                      /\ Game!Tiles(r)[Row!TilesTo(r, j)] = r[j]
    BY <1>8, <1>9, <1>10
  <1>12. \A n \in 1 .. Row!TilesTo(r, w) :
            \E j \in 1 .. w : r[j] # 0 /\ Row!TilesTo(r, j) = n
    BY <1>8, <1>9, <1>10
  <1> QED  BY <1>8, <1>10, <1>11, <1>12

\* The first loop packs the tiles to the left.
LEMMA PackedRow ==
  ASSUME NEW r \in RowsOf(RowSize)
  PROVE  /\ Row!Pad(Row!Tiles(r)) = Row!Packed(r)
         /\ Row!Packed(r) \in RowsOf(RowSize)
         /\ Row!TilesTo(r, RowSize) \in 0 .. RowSize
         /\ \A n \in 1 .. RowSize : Row!Packed(r)[n] # 0 <=> n <= Row!TilesTo(r, RowSize)
  <1> USE RowAssumption
  <1> DEFINE w == RowSize
             t == Game!Tiles(r)
             z == t \o [k \in 1 .. w - Len(t) |-> 0]
             e == Row!TilesTo(r, w)
             T == [k \in 1 .. w |-> Row!TilesTo(r, k)]
  <1>1. w \in Nat \ {0} /\ w \in 0 .. w
    OBVIOUS
  <1>2. /\ t \in Seq(Nat) /\ Len(t) = e
        /\ \A j \in 1 .. w : r[j] # 0 => T[j] \in 1 .. e /\ t[T[j]] = r[j]
        /\ \A n \in 1 .. e : \E j \in 1 .. w : r[j] # 0 /\ T[j] = n
    <2> HIDE DEF t
    <2>1. /\ t \in Seq(Nat) /\ Len(t) = e
          /\ \A j \in 1 .. w : r[j] # 0 => Row!TilesTo(r, j) \in 1 .. e /\ t[Row!TilesTo(r, j)] = r[j]
          /\ \A n \in 1 .. e : \E j \in 1 .. w : r[j] # 0 /\ Row!TilesTo(r, j) = n
      BY <1>1, TilesAre DEF t
    <2>2. \A j \in 1 .. w : T[j] = Row!TilesTo(r, j)
      OBVIOUS
    <2> HIDE DEF T, e
    <2> QED  BY <2>1, <2>2
  <1>3. e \in 0 .. w
    BY <1>1, TilesCount
  <1>4. Row!Pad(Row!Tiles(r)) = z
    BY SameLoops DEF Row!Pad
  <1>5. z \in RowsOf(w) /\ \A k \in 1 .. w : z[k] = IF k <= e THEN t[k] ELSE 0
    <2> HIDE DEF t
    <2>1. t \in Seq(Nat) /\ Len(t) <= w
      BY <1>2, <1>3
    <2> QED  BY <1>1, <1>2, <2>1, PaddedTo
  <1> DEFINE nth == [n \in 1 .. w |-> {k \in 1 .. w : r[k] # 0 /\ T[k] = n}]
  <1>6. /\ DOMAIN Row!Packed(r) = 1 .. w
        /\ Row!Packed(r) = [n \in 1 .. w |-> Row!Packed(r)[n]]
        /\ \A n \in 1 .. w : nth[n] # {} => \E k \in nth[n] : Row!Packed(r)[n] = r[k]
        /\ \A n \in 1 .. w : nth[n] = {} => Row!Packed(r)[n] = 0
    <2> DEFINE S(n) == {k \in 1 .. w : r[k] # 0 /\ Row!TilesTo(r, k) = n}
    <2>1. Row!Packed(r) = [n \in 1 .. w |-> IF S(n) = {} THEN 0 ELSE r[CHOOSE k \in S(n) : TRUE]]
      BY Zenon DEF Row!Packed, Row!Cells
    <2>2. ASSUME NEW n \in 1 .. w
          PROVE  nth[n] = S(n)
      OBVIOUS
    <2>3. \A X : X # {} => (CHOOSE k \in X : TRUE) \in X
      BY Zenon
    <2> HIDE DEF S, nth
    <2> QED  BY <2>1, <2>2, <2>3
  <1>7. ASSUME NEW n \in 1 .. w
        PROVE  Row!Packed(r)[n] = z[n] /\ (z[n] # 0 <=> n <= e)
    <2> HIDE DEF z, t, T, e
    <2>1. nth[n] = {k \in 1 .. w : r[k] # 0 /\ T[k] = n}
      OBVIOUS
    <2> HIDE DEF nth
    <2>3. CASE n <= e
      <3>1. n \in 1 .. e
        BY <1>3, <2>3
      <3>2. nth[n] # {}
        BY <1>2, <2>1, <3>1
      <3>3. PICK k \in nth[n] : Row!Packed(r)[n] = r[k]
        BY <1>6, <3>2
      <3>4. k \in 1 .. w /\ r[k] # 0 /\ T[k] = n
        BY <2>1, <3>3
      <3>5. t[n] = r[k]
        BY <1>2, <3>4
      <3> QED  BY <1>5, <2>3, <3>3, <3>4, <3>5
    <2>4. CASE ~(n <= e)
      <3>1. nth[n] = {}
        <4>1. ASSUME NEW k \in nth[n]
              PROVE  FALSE
          <5>1. k \in 1 .. w /\ r[k] # 0 /\ T[k] = n
            BY <2>1
          <5>2. n \in 1 .. e
            BY <1>2, <5>1
          <5> QED  BY <1>3, <2>4, <5>2
        <4> QED  BY <4>1
      <3> QED  BY <1>5, <1>6, <2>4, <3>1
    <2> QED  BY <2>3, <2>4
  <1>8. z = Row!Packed(r)
    <2> HIDE DEF z, nth
    <2>1. z \in [1 .. w -> Nat]
      BY <1>5 DEF RowsOf
    <2>2. DOMAIN Row!Packed(r) = 1 .. w /\ Row!Packed(r) = [n \in 1 .. w |-> Row!Packed(r)[n]]
      BY <1>6
    <2>3. z = [n \in 1 .. w |-> z[n]]
      BY <2>1
    <2> QED  BY <1>7, <2>2, <2>3
  <1> HIDE DEF z
  <1> QED  BY <1>3, <1>4, <1>5, <1>7, <1>8

\* Whether a tile leads depends on its left neighbour alone.
LEMMA LeadsStep ==
  ASSUME NEW w \in Nat \ {0}, NEW s \in RowsOf(w)
  PROVE  /\ Row!Leads(s, 1)
         /\ \A k \in 1 .. w - 1 : Row!Leads(s, k + 1) <=> s[k + 1] # s[k] \/ ~Row!Leads(s, k)
  <1> DEFINE A(k) == {j \in 1 .. k : \A m \in j .. k : s[m] = s[k]}
  <1>1. ASSUME NEW k \in 1 .. w
        PROVE  Row!Min(A(k)) \in A(k) /\ \A j \in A(k) : Row!Min(A(k)) <= j
    <2>1. A(k) \subseteq Nat /\ k \in A(k)
      OBVIOUS
    <2> HIDE DEF A
    <2>2. PICK n \in A(k) : \A m \in A(k) : ~(m < n)
      <3>1. A(k) # {}
        BY <2>1
      <3> QED  BY <2>1, <3>1, Smallest
    <2>3. \A m \in A(k) : n <= m
      BY <2>1, <2>2
    <2> QED  BY <2>3, Zenon DEF Row!Min
  <1>2. \A k : Row!Offset(s, k) = k - Row!Min(A(k))
    BY DEF Row!Offset
  <1>3. A(1) = {1}
    OBVIOUS
  <1>4. Row!Leads(s, 1)
    <2>1. 1 \in 1 .. w
      OBVIOUS
    <2>2. Row!Min(A(1)) = 1
      <3> HIDE DEF A
      <3> QED  BY <1>1, <1>3, <2>1
    <2> HIDE DEF A
    <2>3. Row!Offset(s, 1) = 0
      BY <1>2, <2>2
    <2> QED  BY <2>3 DEF Row!Leads
  <1>5. ASSUME NEW k \in 1 .. w - 1
        PROVE  Row!Leads(s, k + 1) <=> s[k + 1] # s[k] \/ ~Row!Leads(s, k)
    <2>1. k \in 1 .. w /\ k + 1 \in 1 .. w
      OBVIOUS
    <2>2. CASE s[k + 1] # s[k]
      <3>1. A(k + 1) = {k + 1}
        BY <2>2
      <3> HIDE DEF A
      <3>2. Row!Min(A(k + 1)) = k + 1
        BY <1>1, <2>1, <3>1
      <3>3. Row!Offset(s, k + 1) = 0
        BY <1>2, <3>2
      <3> QED  BY <2>2, <3>3 DEF Row!Leads
    <2>3. CASE s[k + 1] = s[k]
      <3>1. A(k + 1) = A(k) \cup {k + 1}
        <4>1. ASSUME NEW j \in 1 .. k
              PROVE  (\A m \in j .. k + 1 : s[m] = s[k + 1]) <=> \A m \in j .. k : s[m] = s[k]
          BY <2>3
        <4> QED  BY <4>1
      <3>2. A(k) \subseteq 1 .. k
        OBVIOUS
      <3> HIDE DEF A
      <3>3. /\ Row!Min(A(k)) \in A(k) /\ \A j \in A(k) : Row!Min(A(k)) <= j
            /\ Row!Min(A(k + 1)) \in A(k + 1) /\ \A j \in A(k + 1) : Row!Min(A(k + 1)) <= j
        BY <1>1, <2>1
      <3>4. Row!Min(A(k + 1)) = Row!Min(A(k)) /\ Row!Min(A(k)) \in 1 .. k
        BY <3>1, <3>2, <3>3
      <3>5. Row!Offset(s, k + 1) = Row!Offset(s, k) + 1 /\ Row!Offset(s, k) \in Nat
        BY <1>2, <3>4
      <3>6. \A x \in Nat : (x + 1) % 2 = 0 <=> x % 2 # 0
        OBVIOUS
      <3> QED  BY <2>3, <3>5, <3>6 DEF Row!Leads
    <2> QED  BY <2>2, <2>3
  <1> QED  BY <1>4, <1>5

\* A row packed to the left: the second loop does what the rule says.
LEMMA MergeIsRule ==
  ASSUME NEW w \in Nat \ {0}, NEW s \in RowsOf(w), \A k \in 1 .. w - 1 : s[k] = 0 => s[k + 1] = 0
  PROVE  /\ MergesOf(s, w) \in RowsOf(w)
         /\ \A k \in 1 .. w : MergesOf(s, w)[k] =
               IF ~Row!Leads(s, k) THEN 0
               ELSE IF k < w /\ s[k + 1] = s[k] THEN 2 * s[k] ELSE s[k]
  <1> DEFINE L == [k \in 1 .. w |-> Row!Leads(s, k)]
             F == [k \in 1 .. w |-> IF ~L[k] THEN 0
                                    ELSE IF k < w /\ s[k + 1] = s[k] THEN 2 * s[k] ELSE s[k]]
             n == w - 1
  <1>1. PICK f : /\ f[0] = s
                 /\ \A k \in 0 .. n : f[k] \in RowsOf(w)
                 /\ \A k \in 1 .. n : f[k] = Game!MergeAt(f[k - 1], k)
                 /\ MergesOf(s, w) = f[n]
    BY MergeSteps
  <1>2. /\ L[1] /\ \A k \in 1 .. w : L[k] \in BOOLEAN
        /\ \A k \in 1 .. n : L[k + 1] <=> s[k + 1] # s[k] \/ ~L[k]
    <2>1. \A k \in 1 .. w : L[k] = Row!Leads(s, k)
      OBVIOUS
    <2>2. \A k \in 1 .. w : Row!Leads(s, k) \in BOOLEAN
      BY DEF Row!Leads
    <2>3. 1 \in 1 .. w /\ \A k \in 1 .. n : k \in 1 .. w /\ k + 1 \in 1 .. w
      OBVIOUS
    <2>4. /\ Row!Leads(s, 1)
          /\ \A k \in 1 .. w - 1 : Row!Leads(s, k + 1) <=> s[k + 1] # s[k] \/ ~Row!Leads(s, k)
      BY LeadsStep
    <2> HIDE DEF L
    <2> QED  BY <2>1, <2>2, <2>3, <2>4
  <1>3. \A k \in 1 .. w : F[k] = IF ~L[k] THEN 0
                                 ELSE IF k < w /\ s[k + 1] = s[k] THEN 2 * s[k] ELSE s[k]
    <2> HIDE DEF L
    <2> QED  OBVIOUS
  <1>4. \A k \in 1 .. w : L[k] = Row!Leads(s, k)
    OBVIOUS
  <1>5. \A k \in 1 .. w : s[k] \in Nat
    BY DEF RowsOf
  <1>n. n \in Nat /\ w = n + 1
    OBVIOUS
  <1> HIDE DEF L, F, n
  <1> DEFINE Done(t, k) ==
               /\ \A j \in 1 .. k : t[j] = F[j]
               /\ t[k + 1] = IF L[k + 1] THEN s[k + 1] ELSE 0
               /\ \A j \in k + 2 .. w : t[j] = s[j]
             P == {k \in 0 .. n : Done(f[k], k)}
  <1>6. 0 \in P
    <2>1. Done(s, 0)
      BY <1>2
    <2> QED  BY <1>1, <1>n, <2>1
  <1>7. ASSUME NEW k \in 1 .. n, NEW t \in RowsOf(w), Done(t, k - 1)
        PROVE  Done(Game!MergeAt(t, k), k)
    <2> DEFINE u == Game!MergeAt(t, k)
    <2>1. /\ k \in 1 .. w /\ k + 1 \in 1 .. w /\ k < w
          /\ t[k] = (IF L[k] THEN s[k] ELSE 0) /\ t[k + 1] = s[k + 1]
          /\ \A j \in 1 .. k - 1 : t[j] = F[j]
          /\ \A j \in k + 2 .. w : t[j] = s[j]
      BY <1>7, <1>n
    <2>2. /\ L[k + 1] <=> s[k + 1] # s[k] \/ ~L[k]
          /\ F[k] = IF ~L[k] THEN 0 ELSE IF s[k + 1] = s[k] THEN 2 * s[k] ELSE s[k]
          /\ s[k] \in Nat /\ s[k + 1] \in Nat /\ s[k] = 0 => s[k + 1] = 0
      BY <1>2, <1>3, <1>5, <1>n, <2>1
    <2>3. /\ u[k] = IF t[k] # 0 /\ t[k] = t[k + 1] THEN 2 * t[k] ELSE t[k]
          /\ u[k + 1] = IF t[k] # 0 /\ t[k] = t[k + 1] THEN 0 ELSE t[k + 1]
          /\ \A j \in 1 .. w : j # k /\ j # k + 1 => u[j] = t[j]
      BY <2>1 DEF RowsOf, Game!MergeAt
    <2> HIDE DEF u
    <2>4. u[k] = F[k]
      BY <2>1, <2>2, <2>3
    <2>5. u[k + 1] = IF L[k + 1] THEN s[k + 1] ELSE 0
      BY <2>1, <2>2, <2>3
    <2>6. \A j \in 1 .. k : u[j] = F[j]
      <3>1. ASSUME NEW j \in 1 .. k, j # k
            PROVE  u[j] = F[j]
        <4>1. j \in 1 .. k - 1 /\ j \in 1 .. w /\ j # k + 1
          BY <2>1, <3>1
        <4> QED  BY <2>1, <2>3, <3>1, <4>1
      <3> QED  BY <2>4, <3>1
    <2>7. \A j \in k + 2 .. w : u[j] = s[j]
      <3> SUFFICES ASSUME NEW j \in k + 2 .. w
                   PROVE  u[j] = s[j]
        OBVIOUS
      <3>1. j \in 1 .. w /\ j # k /\ j # k + 1
        BY <2>1
      <3> QED  BY <2>1, <2>3, <3>1
    <2>8. Done(u, k)
      BY <2>5, <2>6, <2>7
    <2> QED  BY <2>8 DEF u
  <1> HIDE DEF Done
  <1>8. ASSUME NEW k \in 1 .. n, k - 1 \in P
        PROVE  k \in P
    <2>1. k \in 0 .. n /\ k - 1 \in 0 .. n
      BY <1>n
    <2>2. Done(f[k - 1], k - 1) /\ f[k - 1] \in RowsOf(w) /\ f[k] = Game!MergeAt(f[k - 1], k)
      BY <1>1, <1>8, <2>1
    <2>3. Done(f[k], k)
      BY <1>7, <2>2, Zenon
    <2> QED  BY <2>1, <2>3
  <1> HIDE DEF P
  <1>9. n \in P
    <2>1. \A k \in 0 .. n : k \in P
      BY <1>n, <1>6, <1>8, CountingUp
    <2> QED  BY <1>n, <2>1
  <1>10. Done(f[n], n) /\ f[n] \in RowsOf(w)
    BY <1>1, <1>9, <1>n DEF P
  <1>11. ASSUME NEW k \in 1 .. w
         PROVE  f[n][k] = F[k]
    <2>1. CASE k = w
      <3>1. f[n][w] = IF L[w] THEN s[w] ELSE 0
        BY <1>10, <1>n DEF Done
      <3> QED  BY <1>3, <2>1, <3>1
    <2>2. CASE k # w
      <3>1. k \in 1 .. n
        BY <1>n, <2>2
      <3> QED  BY <1>10, <3>1 DEF Done
    <2> QED  BY <2>1, <2>2
  <1> QED  BY <1>1, <1>3, <1>4, <1>10, <1>11

\* How many tiles a packed row has.
LEMMA TilesOfPacked ==
  ASSUME NEW w \in Nat \ {0}, NEW r \in RowsOf(w), NEW e \in 0 .. w,
         \A n \in 1 .. w : r[n] # 0 <=> n <= e
  PROVE  Row!TilesTo(r, w) = e
  <1>1. {n \in 1 .. w : r[n] # 0} = 1 .. e
    OBVIOUS
  <1>2. 1 \in Int /\ e \in Int /\ e >= 0
    OBVIOUS
  <1>3. Cardinality(1 .. e) = IF 1 > e THEN 0 ELSE e - 1 + 1
    BY <1>2, FS_Interval
  <1>4. Row!TilesTo(r, w) = Cardinality(1 .. e)
    BY <1>1, SameLoops, Zenon DEF Row!TilesTo
  <1> QED  BY <1>2, <1>3, <1>4

\* A row with fewer tiles has fewer of them counted.
LEMMA TilesLost ==
  ASSUME NEW w \in Nat \ {0}, NEW r \in RowsOf(w), NEW q \in RowsOf(w),
         \A n \in 1 .. w : q[n] # 0 => r[n] # 0,
         NEW k \in 1 .. w, q[k] = 0, r[k] # 0
  PROVE  Row!TilesTo(q, w) # Row!TilesTo(r, w)
  <1> DEFINE R == {n \in 1 .. w : r[n] # 0}
             Q == {n \in 1 .. w : q[n] # 0}
  <1>1. Row!TilesTo(r, w) = Cardinality(R) /\ Row!TilesTo(q, w) = Cardinality(Q)
    BY SameLoops, Zenon DEF Row!TilesTo
  <1>2. Q \in SUBSET R /\ k \in R /\ k \notin Q /\ R \in SUBSET (1 .. w)
    OBVIOUS
  <1>3. IsFiniteSet(1 .. w)
    <2>1. 1 \in Int /\ w \in Int
      OBVIOUS
    <2> QED  BY <2>1, FS_Interval
  <1> HIDE DEF R, Q
  <1>4. IsFiniteSet(R)
    BY <1>2, <1>3, FS_Subset
  <1>5. Cardinality(R) = Cardinality(Q) => R = Q
    BY <1>2, <1>4, FS_Subset
  <1> QED  BY <1>1, <1>2, <1>5

\* A move of a row is the rule, and says so exactly when it has changed the row.
LEMMA RowByTheRule ==
  ASSUME NEW r \in RowsOf(RowSize)
  PROVE  /\ Row!SlideAndMergeRow(r) = Row!Rule(r)
         /\ Row!Rule(r) \in RowsOf(RowSize)
         /\ Row!Moved(r) <=> Row!Rule(r) # r
  <1> USE RowAssumption
  <1> DEFINE w == RowSize
             p == Row!Packed(r)
             m == Row!Merged(p)
             e == Row!TilesTo(r, w)
             d == Row!TilesTo(m, w)
  <1>1. /\ Row!Pad(Row!Tiles(r)) = p /\ p \in RowsOf(w) /\ e \in 0 .. w
        /\ \A n \in 1 .. w : p[n] # 0 <=> n <= e
    BY PackedRow
  <1>2. w \in Nat \ {0}
    OBVIOUS
  <1>3. /\ m \in RowsOf(w)
        /\ \A k \in 1 .. w : m[k] = IF ~Row!Leads(p, k) THEN 0
                                    ELSE IF k < w /\ p[k + 1] = p[k] THEN 2 * p[k] ELSE p[k]
    <2>1. \A k \in 1 .. w - 1 : p[k] = 0 => p[k + 1] = 0
      <3> HIDE DEF p, e
      <3>1. \A k \in 1 .. w - 1 : k \in 1 .. w /\ k + 1 \in 1 .. w
        OBVIOUS
      <3> QED  BY <1>1, <3>1
    <2>2. m = MergesOf(p, w)
      BY SameLoops
    <2> HIDE DEF p, m, w
    <2> QED  BY <1>1, <1>2, <2>1, <2>2, MergeIsRule
  <1>4. m = [k \in Row!Cells |-> IF Row!Leads(p, k) THEN Row!Grown(p, k) ELSE 0]
    <2> HIDE DEF p, m
    <2>1. m = [k \in 1 .. w |-> m[k]]
      BY <1>3 DEF RowsOf
    <2>2. \A k \in 1 .. w : m[k] = IF Row!Leads(p, k) THEN Row!Grown(p, k) ELSE 0
      BY <1>3 DEF Row!Grown
    <2> QED  BY <2>1, <2>2 DEF Row!Cells
  <1>5. /\ Row!Pad(Row!Tiles(m)) = Row!Packed(m) /\ Row!Packed(m) \in RowsOf(w) /\ d \in 0 .. w
        /\ \A n \in 1 .. w : Row!Packed(m)[n] # 0 <=> n <= d
    <2> HIDE DEF m
    <2> QED  BY <1>3, PackedRow
  <1>6. Row!Rule(r) = Row!Packed(m)
    <2> HIDE DEF m
    <2> QED  BY <1>4, Zenon DEF Row!Rule
  <1>7. Row!SlideAndMergeRow(r) = Row!Packed(m)
    BY <1>1, <1>5, Zenon DEF Row!SlideAndMergeRow
  <1>8. Row!Moved(r) <=> m # p \/ Row!Packed(m) # r
    BY <1>1, <1>7, Zenon DEF Row!Moved
  <1>9. ASSUME m # p, Row!Packed(m) = r
        PROVE  FALSE
    <2>1. e = d
      BY <1>5, <1>9, TilesOfPacked
    <2>2. PICK k \in 1 .. w : m[k] = 0 /\ p[k] # 0
      <3> HIDE DEF p, m
      <3>1. PICK k \in 1 .. w : m[k] # p[k]
        BY <1>1, <1>3, <1>9 DEF RowsOf
      <3>2. CASE m[k] = 0
        BY <3>1, <3>2
      <3>3. CASE m[k] # 0
        <4>1. k < w /\ p[k + 1] = p[k] /\ Row!Leads(p, k) /\ m[k] = 2 * p[k]
          BY <1>3, <3>1, <3>3
        <4>2. p[k] # 0
          BY <3>3, <4>1
        <4>3. k \in 1 .. w - 1 /\ k + 1 \in 1 .. w
          BY <4>1
        <4>4. ~Row!Leads(p, k + 1)
          BY <1>1, <1>2, <4>1, <4>3, LeadsStep
        <4>5. m[k + 1] = 0
          BY <1>3, <4>3, <4>4
        <4> QED  BY <4>1, <4>2, <4>3, <4>5
      <3> QED  BY <3>2, <3>3
    <2>3. \A n \in 1 .. w : m[n] # 0 => p[n] # 0
      <3> HIDE DEF p, m
      <3>1. \A n \in 1 .. w : p[n] \in Nat
        BY <1>1 DEF RowsOf
      <3> QED  BY <1>3, <3>1
    <2>4. Row!TilesTo(p, w) = e
      <3> HIDE DEF p, e
      <3> QED  BY <1>1, TilesOfPacked
    <2>5. d # Row!TilesTo(p, w)
      <3> HIDE DEF p, m
      <3> QED  BY <1>1, <1>3, <2>2, <2>3, TilesLost
    <2> QED  BY <2>1, <2>4, <2>5
  <1> HIDE DEF p, m
  <1> QED  BY <1>5, <1>6, <1>7, <1>8, <1>9

\* slideAndMergeRow follows the rule of the game for a row of any length and any numbers:
\* in every run of equal tiles, from the wall on, two and two merge, and its result is
\* true exactly when the row has changed.
THEOREM MovesFollowTheRule == Spec => []SlidesByTheRule
  <1> DEFINE I == program = "row" => row \in RowsOf(RowSize)
  <1>1. Init => I
    BY RowAssumption DEF Init, RowsOf
  <1>2. I /\ [Next]_vars => I'
    <2> SUFFICES ASSUME I, [Next]_vars, program' = "row"
                 PROVE  row' \in RowsOf(RowSize)
      OBVIOUS
    <2>1. CASE SlideAgain
      BY <2>1, RowByTheRule DEF SlideAgain
    <2>2. CASE UNCHANGED vars
      BY <2>2 DEF vars, rowVars
    <2>3. CASE Play \/ ListZip \/ AskFiglet \/ Checksum \/ Summarize \/ WriteLog
      BY <2>3 DEF Play, ListZip, AskFiglet, Checksum, Summarize, WriteLog
    <2> QED  BY <2>1, <2>2, <2>3 DEF Next
  <1>3. I => SlidesByTheRule
    BY RowByTheRule DEF SlidesByTheRule
  <1> QED  BY <1>1, <1>2, <1>3, PTL DEF Spec

-----------------------------------------------------------------------------
(* The board of 2048: what has moved has changed, and brings a tile.       *)

\* A merge loses a tile, so that a row in which something has merged is not the
\* row that it was.
LEMMA MovedRowChanges ==
  ASSUME NEW r \in Rows, Game!Moved(r)
  PROVE  Game!SlideAndMergeRow(r) # r
  <1> DEFINE w == BoardSize
             t == Game!Tiles(r)
             a == Game!Pad(t)
             m == Game!Merged(a)
             u == Game!Tiles(m)
             s == Game!Pad(u)
  <1>1. Game!SlideAndMergeRow(r) = s /\ (s = r => m # a)
    BY DEF Game!Moved, Game!SlideAndMergeRow
  <1>2. w \in Nat \ {0} /\ Rows = RowsOf(w)
    BY DEF Rows, RowsOf
  <1>3. /\ t \in Seq(Nat) /\ Len(t) \in 0 .. w /\ Len(t) = Row!TilesTo(r, w)
        /\ \A k \in 1 .. Len(t) : t[k] # 0
    <2>1. Len(t) = Row!TilesTo(r, w)
      BY <1>2, TilesAre
    <2> QED  BY <2>1, TilesOfRow
  <1>4. a \in Rows /\ \A k \in 1 .. w : a[k] = IF k <= Len(t) THEN t[k] ELSE 0
    <2> HIDE DEF t
    <2> QED  BY <1>3, PaddedRow
  <1>5. Row!TilesTo(a, w) = Len(t)
    <2> HIDE DEF t, a, w
    <2>1. \A k \in 1 .. w : a[k] # 0 <=> k <= Len(t)
      BY <1>2, <1>3, <1>4
    <2> QED  BY <1>2, <1>3, <1>4, <2>1, TilesOfPacked
  <1>6. /\ m \in Rows /\ \A k \in 1 .. w : a[k] = 0 => m[k] = 0
        /\ m # a => \E k \in 1 .. w : a[k] # 0 /\ m[k] = 0
    <2> HIDE DEF a
    <2> QED  BY <1>4, MergedRow
  <1>7. /\ u \in Seq(Nat) /\ Len(u) \in 0 .. w /\ Len(u) = Row!TilesTo(m, w)
        /\ \A k \in 1 .. Len(u) : u[k] # 0
    <2> HIDE DEF m
    <2>1. Len(u) = Row!TilesTo(m, w)
      BY <1>2, <1>6, TilesAre
    <2> QED  BY <1>6, <2>1, TilesOfRow
  <1>8. s \in Rows /\ \A k \in 1 .. w : s[k] = IF k <= Len(u) THEN u[k] ELSE 0
    <2> HIDE DEF u
    <2> QED  BY <1>7, PaddedRow
  <1>9. Row!TilesTo(s, w) = Len(u)
    <2> HIDE DEF u, s, w
    <2>1. \A k \in 1 .. w : s[k] # 0 <=> k <= Len(u)
      BY <1>2, <1>7, <1>8
    <2> QED  BY <1>2, <1>7, <1>8, <2>1, TilesOfPacked
  <1>10. m # a => Row!TilesTo(m, w) # Row!TilesTo(a, w)
    <2> HIDE DEF a, m, w
    <2> QED  BY <1>2, <1>4, <1>6, TilesLost
  <1> HIDE DEF t, a, m, u, s, w
  <1> QED  BY <1>1, <1>3, <1>5, <1>7, <1>9, <1>10

LEMMA MovedIsChanged ==
  ASSUME NEW b \in Boards, NEW key \in Game!Keys, Game!ShiftMoved(key, b)
  PROVE  Game!Shift(key, b) # b
  <1> SUFFICES ASSUME Game!Shift(key, b) = b PROVE FALSE
    OBVIOUS
  <1>1. PICK k \in 1 .. BoardSize : Game!Moved(Game!Line(b, key, k))
    BY DEF Game!ShiftMoved, Game!Cells
  <1> DEFINE r == Game!Line(b, key, k)
             s == Game!SlideAndMergeRow(r)
  <1>2. r \in Rows /\ \A n \in 1 .. BoardSize : r[n] = b[Game!Cell(key, k, n)]
    BY Lines
  <1>3. \A n \in 1 .. BoardSize : b[Game!Cell(key, k, n)] = s[n]
    BY ShiftedLines
  <1>4. s \in Rows
    <2> HIDE DEF r
    <2> QED  BY <1>2, SlidRow
  <1>5. s # r
    BY <1>1, <1>2, MovedRowChanges
  <1> HIDE DEF r, s
  <1>6. \A n \in 1 .. BoardSize : s[n] = r[n]
    BY <1>2, <1>3
  <1> QED  BY <1>2, <1>4, <1>5, <1>6 DEF Rows

LEMMA TileStep ==
  ASSUME GameInv, Game!Next
  PROVE  Game!TileIsEarned
  <1> SUFFICES ASSUME board' # board
               PROVE  \E key \in Game!Keys :
                         /\ Game!Shift(key, board) # board
                         /\ Game!OneMore(Game!Shift(key, board), board')
                         /\ Game!Sum(Game!Shift(key, board)) = Game!Sum(board)
    BY DEF Game!TileIsEarned
  <1>1. PICK key \in Game!Keys : Game!Press(key)
    BY DEF Game!Next, Game!Win, Game!Lose
  <1>2. board \in Boards
    BY DEF GameInv
  <1>3. Game!ShiftMoved(key, board)
    BY <1>1, <1>2, MovesNothing DEF Game!Press
  <1> DEFINE s == Game!Shift(key, board)
  <1>4. s \in Boards /\ Weigh(s, Grid) = Weigh(board, Grid)
    BY <1>2, ShiftedLines, ShiftKeepsSum
  <1>5. PICK e \in Grid : s[e] = 0
    BY <1>2, <1>3, RoomForATile
  <1>6. board' \in Game!WithTile(s)
    BY <1>1, <1>3 DEF Game!Press
  <1>7. s # board
    BY <1>2, <1>3, MovedIsChanged
  <1> HIDE DEF s
  <1>8. PICK d : d = board'
    OBVIOUS
  <1>9. Game!OneMore(s, d)
    BY <1>4, <1>5, <1>6, <1>8, TileIsNew
  <1>10. Game!Sum(s) = Game!Sum(board)
    BY <1>2, <1>4, SumWeighs
  <1> QED  BY <1>7, <1>8, <1>9, <1>10 DEF s

\* OneTilePerMove, for a board of any size: whatever the four keys do, the board
\* changes only by one that moves something, whose shift loses and makes no
\* number and leaves room for the tile that comes with it.
THEOREM EveryMoveAddsATile == Spec => OneTilePerMove
  <1> DEFINE I == program = "game" => GameInv
  <1>1. I /\ [Next]_vars => [Game!TileIsEarned]_vars
    <2> SUFFICES ASSUME I, Next
                 PROVE  Game!TileIsEarned
      OBVIOUS
    <2>1. CASE Play
      BY <2>1, TileStep DEF Play
    <2>2. CASE SlideAgain \/ WriteLog \/ ListZip \/ Checksum \/ AskFiglet \/ Summarize
      BY <2>2 DEF SlideAgain, WriteLog, ListZip, Checksum, AskFiglet, Summarize, gameVars,
                  Game!TileIsEarned
    <2> QED  BY <2>1, <2>2 DEF Next
  <1> QED  BY <1>1, GameAlways, PTL DEF Spec, OneTilePerMove

-----------------------------------------------------------------------------
(* The zip lister: where in the file the records of an archive are, and     *)
(* that the loops of zip_read and list_zip step from one to the next.       *)

\* A sequence of sequences, written one after the other.
Prefix(s, k)  == [j \in 1 .. k |-> s[j]]
Flat(s, k)    == List!FlattenSeq(Prefix(s, k))

\* A function that joins them from left to right.
JoinsUp(g, s, k) ==
    g[0] = <<>> /\ \A j \in 1 .. k : g[j] = g[j - 1] \o s[j]

LEMMA JoinExists ==
  ASSUME NEW R, NEW s \in Seq(Seq(R))
  PROVE  \E g \in [0 .. Len(s) -> Seq(R)] : JoinsUp(g, s, Len(s))
  <1> DEFINE n == Len(s)
             P == {k \in 0 .. n : \E g \in [0 .. k -> Seq(R)] : JoinsUp(g, s, k)}
  <1>1. n \in Nat /\ 0 \in 0 .. n /\ n \in 0 .. n /\ \A k \in 1 .. n : s[k] \in Seq(R)
    OBVIOUS
  <1>2. 0 \in P
    <2> DEFINE g == [k \in 0 .. 0 |-> <<>>]
    <2>1. g \in [0 .. 0 -> Seq(R)] /\ JoinsUp(g, s, 0)
      BY DEF JoinsUp
    <2> HIDE DEF g
    <2>2. \E f \in [0 .. 0 -> Seq(R)] : JoinsUp(f, s, 0)
      BY <2>1
    <2> QED  BY <1>1, <2>2
  <1>3. ASSUME NEW k \in 1 .. n, k - 1 \in P
        PROVE  k \in P
    <2>1. PICK g \in [0 .. k - 1 -> Seq(R)] : JoinsUp(g, s, k - 1)
      BY <1>3
    <2> DEFINE f == [j \in 0 .. k |-> IF j = k THEN g[k - 1] \o s[k] ELSE g[j]]
    <2>2. k - 1 \in 0 .. k - 1 /\ 0 \in 0 .. k /\ k \in 0 .. k /\ k # 0 /\ k \in 0 .. n
      BY <1>1
    <2>3. g[k - 1] \o s[k] \in Seq(R)
      BY <1>1, <2>2
    <2>4. f \in [0 .. k -> Seq(R)]
      BY <2>3
    <2>5. JoinsUp(f, s, k)
      <3>1. f[0] = <<>>
        BY <2>1, <2>2 DEF JoinsUp
      <3>2. ASSUME NEW j \in 1 .. k
            PROVE  f[j] = f[j - 1] \o s[j]
        <4>1. j \in 0 .. k /\ j - 1 \in 0 .. k /\ j - 1 # k
          OBVIOUS
        <4>2. CASE j = k
          BY <4>1, <4>2
        <4>3. CASE j # k
          <5>1. j \in 1 .. k - 1
            BY <4>3
          <5>2. g[j] = g[j - 1] \o s[j]
            BY <2>1, <5>1 DEF JoinsUp
          <5> QED  BY <4>1, <4>3, <5>2
        <4> QED  BY <4>2, <4>3
      <3> QED  BY <3>1, <3>2 DEF JoinsUp
    <2> HIDE DEF f
    <2>6. \E e \in [0 .. k -> Seq(R)] : JoinsUp(e, s, k)
      BY <2>4, <2>5
    <2> QED  BY <2>2, <2>6
  <1> HIDE DEF P
  <1>4. n \in P
    <2> HIDE DEF n
    <2>1. \A k \in 0 .. n : k \in P
      BY <1>1, <1>2, <1>3, CountingUp
    <2> QED  BY <1>1, <2>1
  <1> QED  BY <1>4 DEF P

\* The recursive function inside FlattenSeq.
JoinFold(h, p) == h = [j \in 1 .. Len(p) |-> IF j = 1 THEN p[1] ELSE h[j - 1] \o p[j]]

LEMMA FlattenIsFold ==
  /\ \A p : Len(p) = 0 => List!FlattenSeq(p) = p
  /\ \A p : Len(p) # 0 => List!FlattenSeq(p) = (CHOOSE h : JoinFold(h, p))[Len(p)]
  <1>1. \A p : Len(p) = 0 => List!FlattenSeq(p) = p
    BY Zenon DEF List!FlattenSeq
  <1>2. \A p : Len(p) # 0 => List!FlattenSeq(p) = (CHOOSE h : JoinFold(h, p))[Len(p)]
    BY Zenon DEF List!FlattenSeq, JoinFold
  <1> QED  BY <1>1, <1>2

LEMMA FlatJoins ==
  ASSUME NEW R, NEW s \in Seq(Seq(R)), NEW g \in [0 .. Len(s) -> Seq(R)],
         JoinsUp(g, s, Len(s)), NEW k \in 0 .. Len(s)
  PROVE  Flat(s, k) = g[k]
  <1> DEFINE p == Prefix(s, k)
  <1>1. Len(p) = k /\ k \in Nat /\ \A j \in 1 .. k : p[j] = s[j]
    BY DEF Prefix
  <1>2. ASSUME NEW j \in 1 .. k
        PROVE  g[j] = g[j - 1] \o s[j]
    <2>1. j \in 1 .. Len(s)
      OBVIOUS
    <2> QED  BY <2>1 DEF JoinsUp
  <1>3. CASE k = 0
    <2>1. p = <<>> /\ Len(p) = 0
      BY <1>1, <1>3 DEF Prefix
    <2>2. g[0] = <<>>
      BY DEF JoinsUp
    <2> QED  BY <1>3, <2>1, <2>2, FlattenIsFold DEF Flat
  <1>4. CASE k # 0
    <2> DEFINE f == [j \in 1 .. k |-> g[j]]
    <2>1. g[1] = s[1]
      <3>1. 1 \in 1 .. k /\ 1 - 1 = 0
        BY <1>1, <1>4
      <3>2. g[1] = <<>> \o s[1]
        BY <1>2, <3>1 DEF JoinsUp
      <3>3. s[1] \in Seq(R)
        BY <1>4
      <3> QED  BY <3>2, <3>3
    <2>2. JoinFold(f, p)
      <3>1. \A j \in 1 .. k : g[j] = IF j = 1 THEN p[1] ELSE f[j - 1] \o p[j]
        <4> SUFFICES ASSUME NEW j \in 1 .. k
                     PROVE  g[j] = IF j = 1 THEN p[1] ELSE f[j - 1] \o p[j]
          OBVIOUS
        <4>1. CASE j = 1
          BY <1>1, <2>1, <4>1
        <4>2. CASE j # 1
          <5>1. j - 1 \in 1 .. k
            BY <1>1, <4>2
          <5>2. f[j - 1] = g[j - 1]
            BY <5>1
          <5> QED  BY <1>1, <1>2, <4>2, <5>2
        <4> QED  BY <4>1, <4>2
      <3> HIDE DEF p
      <3> QED  BY <1>1, <3>1 DEF JoinFold
    <2> HIDE DEF f, p
    <2>3. PICK h : JoinFold(h, p) /\ Flat(s, k) = h[k]
      <3>1. JoinFold(CHOOSE h : JoinFold(h, p), p)
        BY <2>2, Zenon
      <3>2. Flat(s, k) = (CHOOSE h : JoinFold(h, p))[k]
        BY <1>1, <1>4, FlattenIsFold DEF Flat, p
      <3> QED  BY <3>1, <3>2
    <2> DEFINE P == {j \in 0 .. k : j # 0 => h[j] = g[j]}
    <2>4. 0 \in P
      BY <1>1
    <2>5. ASSUME NEW j \in 1 .. k, j - 1 \in P
          PROVE  j \in P
      <3>1. h[j] = IF j = 1 THEN p[1] ELSE h[j - 1] \o p[j]
        BY <1>1, <2>3 DEF JoinFold
      <3>2. CASE j = 1
        BY <1>1, <2>1, <3>1, <3>2
      <3>3. CASE j # 1
        <4>1. h[j - 1] = g[j - 1]
          BY <2>5, <3>3
        <4>2. h[j] = g[j - 1] \o s[j]
          BY <1>1, <3>1, <3>3, <4>1
        <4>3. h[j] = g[j]
          BY <1>2, <4>2
        <4> QED  BY <4>3
      <3> QED  BY <3>2, <3>3
    <2> HIDE DEF P
    <2>6. k \in P
      <3>1. \A j \in 0 .. k : j \in P
        BY <1>1, <2>4, <2>5, CountingUp
      <3> QED  BY <1>1, <3>1
    <2> QED  BY <1>4, <2>3, <2>6 DEF P
  <1> QED  BY <1>3, <1>4

\* What the proofs use of FlattenSeq.
LEMMA FlatParts ==
  ASSUME NEW R, NEW s \in Seq(Seq(R))
  PROVE  /\ Flat(s, 0) = <<>> /\ Flat(s, Len(s)) = List!FlattenSeq(s)
         /\ \A k \in 0 .. Len(s) : Flat(s, k) \in Seq(R)
         /\ \A k \in 1 .. Len(s) : Flat(s, k) = Flat(s, k - 1) \o s[k]
  <1>1. PICK g \in [0 .. Len(s) -> Seq(R)] : JoinsUp(g, s, Len(s))
    BY JoinExists
  <1>2. \A k \in 0 .. Len(s) : Flat(s, k) = g[k]
    BY <1>1, FlatJoins
  <1>3. 0 \in 0 .. Len(s) /\ \A k \in 1 .. Len(s) : k \in 0 .. Len(s) /\ k - 1 \in 0 .. Len(s)
    OBVIOUS
  <1>4. Flat(s, Len(s)) = List!FlattenSeq(s)
    <2>1. Prefix(s, Len(s)) = s
      BY DEF Prefix
    <2> QED  BY <2>1 DEF Flat
  <1> QED  BY <1>1, <1>2, <1>3, <1>4 DEF JoinsUp

\* Where the parts are in the whole, if none is empty.
LEMMA PartsAreThere ==
  ASSUME NEW R, NEW s \in Seq(Seq(R)), \A k \in 1 .. Len(s) : s[k] # <<>>
  PROVE  /\ List!FlattenSeq(s) \in Seq(R)
         /\ \A k \in 0 .. Len(s) : Len(Flat(s, k)) \in Nat
         /\ \A k \in 1 .. Len(s) :
               /\ Len(Flat(s, k)) = Len(Flat(s, k - 1)) + Len(s[k])
               /\ Len(Flat(s, k)) <= Len(List!FlattenSeq(s))
               /\ List!FlattenSeq(s)[Len(Flat(s, k - 1)) + 1] = s[k][1]
  <1> DEFINE n == Len(s)
             F == [k \in 0 .. n |-> Flat(s, k)]
             L == [k \in 0 .. n |-> Len(F[k])]
             P == {k \in 0 .. n : \A j \in 1 .. k :
                     L[j] <= L[k] /\ F[k][L[j - 1] + 1] = s[j][1]}
  <1>1. /\ F[n] = List!FlattenSeq(s)
        /\ \A k \in 0 .. n : F[k] \in Seq(R)
        /\ \A k \in 1 .. n : F[k] = F[k - 1] \o s[k]
    <2>1. /\ Flat(s, n) = List!FlattenSeq(s)
          /\ \A k \in 0 .. n : Flat(s, k) \in Seq(R)
          /\ \A k \in 1 .. n : Flat(s, k) = Flat(s, k - 1) \o s[k]
      BY FlatParts
    <2>2. n \in 0 .. n /\ \A k \in 1 .. n : k \in 0 .. n /\ k - 1 \in 0 .. n
      OBVIOUS
    <2>3. \A k \in 0 .. n : F[k] = Flat(s, k)
      OBVIOUS
    <2> HIDE DEF n, F
    <2> QED  BY <2>1, <2>2, <2>3
  <1>2. n \in Nat /\ \A k \in 1 .. n : s[k] \in Seq(R) /\ s[k] # <<>>
    OBVIOUS
  <1>a. \A k \in 0 .. n : F[k] = Flat(s, k) /\ L[k] = Len(F[k])
    OBVIOUS
  <1> HIDE DEF F, L, n
  <1>3. ASSUME NEW k \in 1 .. n
        PROVE  /\ k \in 0 .. n /\ k - 1 \in 0 .. n
               /\ L[k] = L[k - 1] + Len(s[k]) /\ Len(s[k]) \in Nat \ {0}
               /\ L[k - 1] \in Nat /\ L[k] \in Nat
               /\ F[k][L[k - 1] + 1] = s[k][1]
               /\ \A j \in 1 .. L[k - 1] : F[k][j] = F[k - 1][j]
    <2>1. k \in 0 .. n /\ k - 1 \in 0 .. n
      BY <1>2
    <2> DEFINE x == F[k - 1]
               y == s[k]
               z == F[k]
    <2>2. x \in Seq(R) /\ y \in Seq(R) /\ y # <<>> /\ z = x \o y
      BY <1>1, <1>2, <2>1
    <2> HIDE DEF x, y, z
    <2>3. Len(y) \in Nat \ {0} /\ Len(x) \in Nat
      BY <2>2
    <2>4. /\ Len(x \o y) = Len(x) + Len(y)
          /\ (x \o y)[Len(x) + 1] = y[1]
          /\ \A j \in 1 .. Len(x) : (x \o y)[j] = x[j]
      BY <2>2, <2>3
    <2>5. /\ Len(z) = Len(x) + Len(y) /\ Len(y) \in Nat \ {0} /\ Len(x) \in Nat /\ Len(z) \in Nat
          /\ z[Len(x) + 1] = y[1] /\ \A j \in 1 .. Len(x) : z[j] = x[j]
      BY <2>2, <2>3, <2>4
    <2>6. L[k - 1] = Len(x) /\ L[k] = Len(z)
      BY <1>a, <2>1 DEF x, z
    <2> QED  BY <2>1, <2>5, <2>6 DEF x, y, z
  <1>4. 0 \in P
    BY <1>2
  <1>5. ASSUME NEW k \in 1 .. n, k - 1 \in P
        PROVE  k \in P
    <2>1. /\ L[k] = L[k - 1] + Len(s[k]) /\ Len(s[k]) \in Nat
          /\ L[k - 1] \in Nat /\ L[k] \in Nat
          /\ F[k][L[k - 1] + 1] = s[k][1]
          /\ \A j \in 1 .. L[k - 1] : F[k][j] = F[k - 1][j]
      BY <1>3
    <2>2. ASSUME NEW j \in 1 .. k
          PROVE  L[j] <= L[k] /\ F[k][L[j - 1] + 1] = s[j][1]
      <3>1. CASE j = k
        BY <2>1, <3>1
      <3>2. CASE j # k
        <4>1. j \in 1 .. k - 1 /\ j \in 1 .. n
          BY <1>2, <3>2
        <4>2. L[j] <= L[k - 1] /\ F[k - 1][L[j - 1] + 1] = s[j][1]
          BY <1>5, <4>1
        <4>3. /\ L[j] = L[j - 1] + Len(s[j]) /\ Len(s[j]) \in Nat \ {0}
              /\ L[j - 1] \in Nat /\ L[j] \in Nat
          BY <1>3, <4>1
        <4> DEFINE u == L[j - 1]
                   v == L[j]
                   w == L[k - 1]
                   x == L[k]
                   lj == Len(s[j])
                   lk == Len(s[k])
        <4>4. /\ v = u + lj /\ lj \in Nat \ {0} /\ u \in Nat /\ v \in Nat /\ v <= w
              /\ x = w + lk /\ lk \in Nat /\ w \in Nat /\ x \in Nat
          BY <2>1, <4>2, <4>3
        <4>5. /\ F[k - 1][u + 1] = s[j][1]
              /\ \A m \in 1 .. w : F[k][m] = F[k - 1][m]
          BY <2>1, <4>2
        <4> HIDE DEF u, v, w, x, lj, lk
        <4>6. u + 1 \in 1 .. w /\ v <= x
          BY <4>4
        <4>7. F[k][u + 1] = s[j][1] /\ v <= x
          BY <4>5, <4>6
        <4> QED  BY <4>7 DEF u, v, x
      <3> QED  BY <3>1, <3>2
    <2> QED  BY <1>3, <2>2
  <1> HIDE DEF P
  <1>6. n \in P
    <2>1. \A k \in 0 .. n : k \in P
      BY <1>2, <1>4, <1>5, CountingUp
    <2> QED  BY <1>2, <2>1
  <1>7. \A k \in 1 .. n : L[k] <= L[n] /\ F[n][L[k - 1] + 1] = s[k][1]
    BY <1>6 DEF P
  <1>8. \A k \in 0 .. n : Len(Flat(s, k)) \in Nat /\ L[k] = Len(Flat(s, k))
    BY <1>1, <1>a
  <1>9. n \in 0 .. n /\ L[n] = Len(List!FlattenSeq(s)) /\ List!FlattenSeq(s) \in Seq(R)
    BY <1>1, <1>2, <1>a
  <1>10. ASSUME NEW k \in 1 .. n
         PROVE  /\ Len(Flat(s, k)) = Len(Flat(s, k - 1)) + Len(s[k])
                /\ Len(Flat(s, k)) <= Len(List!FlattenSeq(s))
                /\ List!FlattenSeq(s)[Len(Flat(s, k - 1)) + 1] = s[k][1]
    <2>1. L[k] = Len(Flat(s, k)) /\ L[k - 1] = Len(Flat(s, k - 1))
      BY <1>3, <1>8
    <2>2. L[k] = L[k - 1] + Len(s[k]) /\ L[k] <= L[n] /\ F[n][L[k - 1] + 1] = s[k][1]
      BY <1>3, <1>7
    <2> QED  BY <1>1, <1>9, <2>1, <2>2
  <1> QED  BY <1>8, <1>9, <1>10 DEF n

-----------------------------------------------------------------------------
\* An archive as it is written.
Lfh        == [rec |-> "lfh", len |-> 1]
Entry(a, k) == [rec |-> "cfh", name |-> a.members[k].name, len |-> 1 + a.members[k].more,
               comp_size |-> a.members[k].comp, sound |-> a.members[k].sound,
               lfh_offset |-> List!LfhOf(a, k)]
Sorts(a)   == {List!Byte, Lfh} \cup {Entry(a, k) : k \in 1 .. Len(a.members)}

LocalSeq(a) == [k \in DOMAIN a.members |-> List!Local(a.members[k])]
DirSeq(a)   == [k \in DOMAIN a.members |-> List!Central(a, k)]
LocalsTo(a, k) == Len(Flat(LocalSeq(a), k))
DirTo(a, k)    == Len(Flat(DirSeq(a), k))

LEMMA BytesAre ==
  ASSUME NEW n \in Nat
  PROVE  /\ List!Bytes(n) \in Seq({List!Byte}) /\ Len(List!Bytes(n)) = n
         /\ \A j \in 1 .. n : List!Bytes(n)[j] = List!Byte
  BY DEF List!Bytes

LEMMA OneRecord ==
  ASSUME NEW R, NEW h \in R, List!Byte \in R, NEW n \in Nat
  PROVE  LET s == <<h>> \o List!Bytes(n) IN
         s \in Seq(R) /\ Len(s) = n + 1 /\ s[1] = h /\ s # <<>>
  <1> DEFINE b == List!Bytes(n)
  <1>1. b \in Seq(R) /\ Len(b) = n
    <2>1. b \in Seq({List!Byte}) /\ Len(b) = n
      BY BytesAre
    <2> HIDE DEF b
    <2> QED  BY <2>1
  <1> HIDE DEF b
  <1>2. <<h>> \in Seq(R) /\ Len(<<h>>) = 1 /\ <<h>>[1] = h
    OBVIOUS
  <1>3. <<h>> \o b \in Seq(R) /\ Len(<<h>> \o b) = n + 1 /\ (<<h>> \o b)[1] = h
    BY <1>1, <1>2
  <1> QED  BY <1>3 DEF b

LEMMA MembersAre ==
  ASSUME NEW a \in Archives
  PROVE  /\ a.front \in Nat /\ a.lost \in Nat /\ a.single \in BOOLEAN
         /\ a.comment.len \in 0 .. MaxComment /\ a.comment.inner \in Nat
         /\ Len(a.members) \in Nat /\ DOMAIN a.members = 1 .. Len(a.members)
         /\ \A k \in 1 .. Len(a.members) :
               /\ a.members[k].more \in Nat /\ a.members[k].comp \in Nat
               /\ a.members[k].sound \in BOOLEAN
  <1>1. a \in [front : Nat, adjusted : BOOLEAN, single : BOOLEAN, lost : Nat,
                members : Seq([name : MemberNames, more : Nat, comp : Nat, sound : BOOLEAN]),
                comment : [len : 0 .. MaxComment, inner : Nat]]
    BY ArchivesAssumption
  <1>2. a.members \in Seq([name : MemberNames, more : Nat, comp : Nat, sound : BOOLEAN])
    BY <1>1
  <1>3. \A k \in 1 .. Len(a.members) :
           a.members[k] \in [name : MemberNames, more : Nat, comp : Nat, sound : BOOLEAN]
    <2>1. \A T : \A q \in Seq(T) : \A k \in 1 .. Len(q) : q[k] \in T
      OBVIOUS
    <2> QED  BY <1>2, <2>1, Zenon
  <1>4. a.comment \in [len : 0 .. MaxComment, inner : Nat]
    BY <1>1
  <1>5. Len(a.members) \in Nat /\ DOMAIN a.members = 1 .. Len(a.members)
    BY <1>2
  <1>6. a.front \in Nat /\ a.lost \in Nat /\ a.single \in BOOLEAN
    BY <1>1
  <1> QED  BY <1>3, <1>4, <1>5, <1>6

LEMMA Parts ==
  ASSUME NEW a \in Archives
  PROVE  LET n == Len(a.members) IN
         /\ List!Locals(a) \in Seq(Sorts(a)) /\ Len(List!Locals(a)) = LocalsTo(a, n)
         /\ List!Directory(a) \in Seq(Sorts(a)) /\ Len(List!Directory(a)) = DirTo(a, n)
         /\ LocalsTo(a, 0) = 0 /\ DirTo(a, 0) = 0
         /\ \A k \in 0 .. n : LocalsTo(a, k) \in Nat /\ DirTo(a, k) \in Nat
         /\ \A k \in 1 .. n :
               /\ LocalsTo(a, k) = LocalsTo(a, k - 1) + 2 + a.members[k].comp
               /\ LocalsTo(a, k) <= LocalsTo(a, n)
               /\ List!Locals(a)[LocalsTo(a, k - 1) + 1] = Lfh
               /\ List!LfhOf(a, k) = List!Start(a) + LocalsTo(a, k - 1)
               /\ DirTo(a, k) = DirTo(a, k - 1) + 2 + a.members[k].more
               /\ DirTo(a, k) <= DirTo(a, n)
               /\ List!Directory(a)[DirTo(a, k - 1) + 1] = Entry(a, k)
  <1> DEFINE n == Len(a.members)
             R == Sorts(a)
             p == LocalSeq(a)
             q == DirSeq(a)
  <1>1. /\ n \in Nat /\ DOMAIN a.members = 1 .. n
        /\ \A k \in 1 .. n : a.members[k].more \in Nat /\ a.members[k].comp \in Nat
    BY MembersAre
  <1>2. List!Byte \in R /\ Lfh \in R /\ \A k \in 1 .. n : Entry(a, k) \in R
    BY DEF Sorts
  <1>3. \A k \in 1 .. n : /\ p[k] = <<Lfh>> \o List!Bytes(1 + a.members[k].comp)
                         /\ q[k] = <<Entry(a, k)>> \o List!Bytes(1 + a.members[k].more)
    BY <1>1 DEF LocalSeq, DirSeq, List!Local, List!Central, Lfh, Entry
  <1>4. Len(p) = n /\ Len(q) = n /\ DOMAIN p = 1 .. n /\ DOMAIN q = 1 .. n
    BY <1>1 DEF LocalSeq, DirSeq
  <1>5. List!Locals(a) = List!FlattenSeq(p) /\ List!Directory(a) = List!FlattenSeq(q)
    BY DEF List!Locals, List!Directory, LocalSeq, DirSeq
  <1>6. \A k \in 1 .. n : List!LfhOf(a, k) = List!Start(a) + LocalsTo(a, k - 1)
    <2> SUFFICES ASSUME NEW k \in 1 .. n
                 PROVE  List!LfhOf(a, k) = List!Start(a) + LocalsTo(a, k - 1)
      OBVIOUS
    <2>1. [j \in 1 .. k - 1 |-> List!Local(a.members[j])] = Prefix(p, k - 1)
      BY <1>1 DEF Prefix, LocalSeq
    <2> QED  BY <2>1 DEF List!LfhOf, LocalsTo, Flat
  <1> HIDE DEF R, p, q, n
  <1>7. ASSUME NEW k \in 1 .. n
        PROVE  /\ p[k] \in Seq(R) /\ Len(p[k]) = 2 + a.members[k].comp /\ p[k][1] = Lfh
               /\ q[k] \in Seq(R) /\ Len(q[k]) = 2 + a.members[k].more /\ q[k][1] = Entry(a, k)
               /\ p[k] # <<>> /\ q[k] # <<>>
    <2> DEFINE c == 1 + a.members[k].comp
               m == 1 + a.members[k].more
    <2>1. c \in Nat /\ m \in Nat /\ c + 1 = 2 + a.members[k].comp /\ m + 1 = 2 + a.members[k].more
      BY <1>1
    <2>2. p[k] = <<Lfh>> \o List!Bytes(c) /\ q[k] = <<Entry(a, k)>> \o List!Bytes(m)
      BY <1>3
    <2> HIDE DEF c, m
    <2>3. p[k] \in Seq(R) /\ Len(p[k]) = c + 1 /\ p[k][1] = Lfh /\ p[k] # <<>>
      BY <1>2, <2>1, <2>2, OneRecord
    <2>4. q[k] \in Seq(R) /\ Len(q[k]) = m + 1 /\ q[k][1] = Entry(a, k) /\ q[k] # <<>>
      BY <1>2, <2>1, <2>2, OneRecord
    <2> QED  BY <2>1, <2>3, <2>4
  <1>8. p \in Seq(Seq(R)) /\ q \in Seq(Seq(R))
    <2>1. p \in [1 .. n -> Seq(R)] /\ q \in [1 .. n -> Seq(R)]
      BY <1>1, <1>7 DEF n, p, q, LocalSeq, DirSeq
    <2> QED  BY <1>1, <2>1
  <1>9. /\ List!FlattenSeq(p) \in Seq(R)
        /\ \A k \in 0 .. n : Len(Flat(p, k)) \in Nat
        /\ \A k \in 1 .. n : /\ Len(Flat(p, k)) = Len(Flat(p, k - 1)) + Len(p[k])
                            /\ Len(Flat(p, k)) <= Len(List!FlattenSeq(p))
                            /\ List!FlattenSeq(p)[Len(Flat(p, k - 1)) + 1] = p[k][1]
        /\ Flat(p, 0) = <<>> /\ Flat(p, n) = List!FlattenSeq(p)
    BY <1>4, <1>7, <1>8, PartsAreThere, FlatParts
  <1>10. /\ List!FlattenSeq(q) \in Seq(R)
         /\ \A k \in 0 .. n : Len(Flat(q, k)) \in Nat
         /\ \A k \in 1 .. n : /\ Len(Flat(q, k)) = Len(Flat(q, k - 1)) + Len(q[k])
                             /\ Len(Flat(q, k)) <= Len(List!FlattenSeq(q))
                             /\ List!FlattenSeq(q)[Len(Flat(q, k - 1)) + 1] = q[k][1]
         /\ Flat(q, 0) = <<>> /\ Flat(q, n) = List!FlattenSeq(q)
    BY <1>4, <1>7, <1>8, PartsAreThere, FlatParts
  <1>11. \A k \in 1 .. n : k - 1 \in 0 .. n
    BY <1>1
  <1>12. /\ List!Locals(a) \in Seq(R) /\ Len(List!Locals(a)) = LocalsTo(a, n)
         /\ List!Directory(a) \in Seq(R) /\ Len(List!Directory(a)) = DirTo(a, n)
         /\ LocalsTo(a, 0) = 0 /\ DirTo(a, 0) = 0
         /\ \A k \in 0 .. n : LocalsTo(a, k) \in Nat /\ DirTo(a, k) \in Nat
    BY <1>5, <1>9, <1>10 DEF LocalsTo, DirTo, p, q
  <1>13. ASSUME NEW k \in 1 .. n
         PROVE  /\ LocalsTo(a, k) = LocalsTo(a, k - 1) + 2 + a.members[k].comp
                /\ LocalsTo(a, k) <= LocalsTo(a, n)
                /\ List!Locals(a)[LocalsTo(a, k - 1) + 1] = Lfh
    <2>1. LocalsTo(a, k - 1) \in Nat /\ a.members[k].comp \in Nat
      BY <1>1, <1>11, <1>12
    <2>2. /\ LocalsTo(a, k) = LocalsTo(a, k - 1) + Len(p[k])
          /\ LocalsTo(a, k) <= LocalsTo(a, n)
          /\ List!Locals(a)[LocalsTo(a, k - 1) + 1] = p[k][1]
      BY <1>5, <1>9, <1>12 DEF LocalsTo, p
    <2>3. Len(p[k]) = 2 + a.members[k].comp /\ p[k][1] = Lfh
      BY <1>7
    <2>4. LocalsTo(a, k - 1) + (2 + a.members[k].comp) = LocalsTo(a, k - 1) + 2 + a.members[k].comp
      BY <2>1
    <2> QED  BY <2>2, <2>3, <2>4, Zenon
  <1>14. ASSUME NEW k \in 1 .. n
         PROVE  /\ DirTo(a, k) = DirTo(a, k - 1) + 2 + a.members[k].more
                /\ DirTo(a, k) <= DirTo(a, n)
                /\ List!Directory(a)[DirTo(a, k - 1) + 1] = Entry(a, k)
    <2>1. DirTo(a, k - 1) \in Nat /\ a.members[k].more \in Nat
      BY <1>1, <1>11, <1>12
    <2>2. /\ DirTo(a, k) = DirTo(a, k - 1) + Len(q[k])
          /\ DirTo(a, k) <= DirTo(a, n)
          /\ List!Directory(a)[DirTo(a, k - 1) + 1] = q[k][1]
      BY <1>5, <1>10, <1>12 DEF DirTo, q
    <2>3. Len(q[k]) = 2 + a.members[k].more /\ q[k][1] = Entry(a, k)
      BY <1>7
    <2>4. DirTo(a, k - 1) + (2 + a.members[k].more) = DirTo(a, k - 1) + 2 + a.members[k].more
      BY <2>1
    <2> QED  BY <2>2, <2>3, <2>4, Zenon
  <1> QED  BY <1>6, <1>12, <1>13, <1>14 DEF n, R

-----------------------------------------------------------------------------
\* Where the end record is, and how long the file is before anything is lost.
EndAt(a) == a.front + LocalsTo(a, Len(a.members)) + DirTo(a, Len(a.members)) + 1
FullLen(a) == EndAt(a) + a.comment.len

EndOf(a) == List!EndRecord(Len(a.members), DirTo(a, Len(a.members)),
                           List!Start(a) + LocalsTo(a, Len(a.members)),
                           a.comment.len, a.single)
Inner(a) == List!EndRecord(0, 0, 0, a.comment.len - a.comment.inner, TRUE)

Whole(a) == List!Bytes(a.front) \o List!Locals(a) \o List!Directory(a)
            \o <<EndOf(a)>> \o List!Comment(a.comment)

LEMMA Joined ==
  ASSUME NEW R, NEW x \in Seq(R), NEW y \in Seq(R)
  PROVE  /\ x \o y \in Seq(R) /\ Len(x \o y) = Len(x) + Len(y)
         /\ \A j \in 1 .. Len(x) : (x \o y)[j] = x[j]
         /\ \A j \in 1 .. Len(y) : (x \o y)[Len(x) + j] = y[j]
  OBVIOUS

LEMMA CommentIs ==
  ASSUME NEW a \in Archives
  PROVE  LET c == List!Comment(a.comment) IN
         /\ c \in Seq({List!Byte, Inner(a)}) /\ Len(c) = a.comment.len
         /\ \A j \in 1 .. a.comment.len :
               c[j] = IF j = a.comment.inner THEN Inner(a) ELSE List!Byte
  <1>1. a.comment.len \in Nat
    <2>1. a.comment.len \in 0 .. MaxComment /\ MaxComment \in Nat
      BY MembersAre, ArchivesAssumption
    <2> QED  BY <2>1
  <1>2. \A j \in 1 .. a.comment.len :
           List!Comment(a.comment)[j] = IF j = a.comment.inner THEN Inner(a) ELSE List!Byte
    BY DEF List!Comment, Inner
  <1>3. List!Comment(a.comment) \in [1 .. a.comment.len -> {List!Byte, Inner(a)}]
    BY DEF List!Comment, Inner
  <1> HIDE DEF Inner
  <1> QED  BY <1>1, <1>2, <1>3

LEMMA WholeIs ==
  ASSUME NEW a \in Archives
  PROVE  LET n == Len(a.members) IN
         /\ a.front + LocalsTo(a, n) \in Nat /\ EndAt(a) \in Nat \ {0} /\ FullLen(a) \in Nat
         /\ Whole(a) \in Seq(Sorts(a) \cup {EndOf(a), Inner(a)}) /\ Len(Whole(a)) = FullLen(a)
         /\ Whole(a)[EndAt(a)] = EndOf(a)
         /\ \A j \in 1 .. EndAt(a) - 1 : Whole(a)[j] \in Sorts(a)
         /\ \A j \in 1 .. a.comment.len :
               Whole(a)[EndAt(a) + j] = IF j = a.comment.inner THEN Inner(a) ELSE List!Byte
         /\ \A k \in 1 .. n :
               /\ Whole(a)[a.front + LocalsTo(a, k - 1) + 1] = Lfh
               /\ Whole(a)[a.front + LocalsTo(a, n) + DirTo(a, k - 1) + 1] = Entry(a, k)
  <1> DEFINE n  == Len(a.members)
             S  == Sorts(a)
             R  == S \cup {EndOf(a), Inner(a)}
             p1 == List!Bytes(a.front)
             p2 == List!Locals(a)
             p3 == List!Directory(a)
             p4 == <<EndOf(a)>>
             p5 == List!Comment(a.comment)
             s2 == p1 \o p2
             s3 == s2 \o p3
             s4 == s3 \o p4
             s5 == s4 \o p5
             L1 == a.front
             L2 == LocalsTo(a, n)
             L3 == DirTo(a, n)
             L5 == a.comment.len
  <1>1. p1 \in Seq(S) /\ Len(p1) = L1 /\ L1 \in Nat
    <2>1. p1 \in Seq({List!Byte}) /\ Len(p1) = L1 /\ L1 \in Nat
      BY BytesAre, MembersAre
    <2>2. List!Byte \in S
      BY DEF Sorts
    <2> HIDE DEF S, p1
    <2> QED  BY <2>1, <2>2
  <1>2. p2 \in Seq(S) /\ Len(p2) = L2 /\ L2 \in Nat /\ p3 \in Seq(S) /\ Len(p3) = L3 /\ L3 \in Nat
    <2>1. n \in 0 .. n
      <3>1. n \in Nat
        BY MembersAre
      <3> QED  BY <3>1
    <2> QED  BY <2>1, Parts
  <1>3. p5 \in Seq({List!Byte, Inner(a)}) /\ Len(p5) = L5 /\ L5 \in Nat
    <2>1. L5 \in Nat
      <3>1. L5 \in 0 .. MaxComment /\ MaxComment \in Nat
        BY MembersAre, ArchivesAssumption
      <3> QED  BY <3>1
    <2> QED  BY <2>1, CommentIs
  <1>4. List!Byte \in S
    BY DEF Sorts
  <1>5. \A k \in 1 .. n : /\ LocalsTo(a, k - 1) + 1 \in 1 .. L2 /\ p2[LocalsTo(a, k - 1) + 1] = Lfh
                         /\ LocalsTo(a, k - 1) \in Nat /\ DirTo(a, k - 1) \in Nat
                         /\ DirTo(a, k - 1) + 1 \in 1 .. L3 /\ p3[DirTo(a, k - 1) + 1] = Entry(a, k)
    <2> SUFFICES ASSUME NEW k \in 1 .. n
                 PROVE  /\ LocalsTo(a, k - 1) + 1 \in 1 .. L2 /\ p2[LocalsTo(a, k - 1) + 1] = Lfh
                        /\ LocalsTo(a, k - 1) \in Nat /\ DirTo(a, k - 1) \in Nat
                        /\ DirTo(a, k - 1) + 1 \in 1 .. L3 /\ p3[DirTo(a, k - 1) + 1] = Entry(a, k)
      OBVIOUS
    <2>1. n \in Nat /\ a.members[k].comp \in Nat /\ a.members[k].more \in Nat
      BY MembersAre
    <2>2. k - 1 \in 0 .. n
      BY <2>1
    <2>3. LocalsTo(a, k - 1) \in Nat /\ DirTo(a, k - 1) \in Nat
      BY <2>2, Parts
    <2>4. /\ LocalsTo(a, k) = LocalsTo(a, k - 1) + 2 + a.members[k].comp
          /\ LocalsTo(a, k) <= L2 /\ p2[LocalsTo(a, k - 1) + 1] = Lfh
          /\ DirTo(a, k) = DirTo(a, k - 1) + 2 + a.members[k].more
          /\ DirTo(a, k) <= L3 /\ p3[DirTo(a, k - 1) + 1] = Entry(a, k)
      BY Parts
    <2>5. \A u, v, w \in Nat : \A y : y = u + 2 + v /\ y <= w => u + 1 \in 1 .. w
      OBVIOUS
    <2>6. L2 \in Nat /\ L3 \in Nat
      BY <1>2
    <2> HIDE DEF L2, L3
    <2>7. LocalsTo(a, k - 1) + 1 \in 1 .. L2
      BY <2>1, <2>3, <2>4, <2>5, <2>6, Zenon
    <2>8. DirTo(a, k - 1) + 1 \in 1 .. L3
      BY <2>1, <2>3, <2>4, <2>5, <2>6, Zenon
    <2> QED  BY <2>3, <2>4, <2>7, <2>8
  <1>6. Whole(a) = s5 /\ p4 = <<EndOf(a)>>
    BY DEF Whole
  <1>7. \A j \in 1 .. L5 : p5[j] = IF j = a.comment.inner THEN Inner(a) ELSE List!Byte
    BY CommentIs
  <1> HIDE DEF p1, p2, p3, p4, p5, L1, L2, L3, L5, S
  <1>8. /\ s2 \in Seq(S) /\ Len(s2) = L1 + L2
        /\ \A j \in 1 .. L2 : s2[L1 + j] = p2[j]
    <2>1. p1 \in Seq(S) /\ p2 \in Seq(S)
      BY <1>1, <1>2
    <2>2. /\ s2 \in Seq(S) /\ Len(s2) = Len(p1) + Len(p2)
          /\ \A j \in 1 .. Len(p2) : s2[Len(p1) + j] = p2[j]
      BY <2>1
    <2> QED  BY <1>1, <1>2, <2>2, Zenon
  <1> HIDE DEF s2
  <1>9. /\ s3 \in Seq(S) /\ Len(s3) = L1 + L2 + L3
        /\ \A j \in 1 .. L1 + L2 : s3[j] = s2[j]
        /\ \A j \in 1 .. L3 : s3[L1 + L2 + j] = p3[j]
    <2>1. p3 \in Seq(S) /\ s2 \in Seq(S)
      BY <1>2, <1>8
    <2>2. /\ s3 \in Seq(S) /\ Len(s3) = Len(s2) + Len(p3)
          /\ \A j \in 1 .. Len(s2) : s3[j] = s2[j]
          /\ \A j \in 1 .. Len(p3) : s3[Len(s2) + j] = p3[j]
      BY <2>1
    <2> QED  BY <1>2, <1>8, <2>2, Zenon
  <1> HIDE DEF s3
  <1>10. \A j \in 1 .. L1 + L2 + L3 : s3[j] \in S
    <2>1. \A T : \A q \in Seq(T) : \A k \in 1 .. Len(q) : q[k] \in T
      OBVIOUS
    <2> QED  BY <1>9, <2>1, Zenon
  <1>11. s3 \in Seq(R) /\ p4 \in Seq(R) /\ p5 \in Seq(R) /\ Len(p4) = 1 /\ p4[1] = EndOf(a)
    BY <1>3, <1>4, <1>6, <1>9
  <1> HIDE DEF R
  <1>12. /\ s4 \in Seq(R) /\ Len(s4) = L1 + L2 + L3 + 1
         /\ \A j \in 1 .. L1 + L2 + L3 : s4[j] = s3[j]
         /\ \A j \in 1 .. 1 : s4[L1 + L2 + L3 + j] = p4[j]
    <2>0. s3 \in Seq(R) /\ p4 \in Seq(R)
      BY <1>11
    <2>1. /\ s4 \in Seq(R) /\ Len(s4) = Len(s3) + Len(p4)
          /\ \A j \in 1 .. Len(s3) : s4[j] = s3[j]
          /\ \A j \in 1 .. Len(p4) : s4[Len(s3) + j] = p4[j]
      BY <2>0
    <2> QED  BY <1>9, <1>11, <2>1, Zenon
  <1> HIDE DEF s4
  <1>13. /\ s5 \in Seq(R) /\ Len(s5) = L1 + L2 + L3 + 1 + L5
         /\ \A j \in 1 .. L1 + L2 + L3 + 1 : s5[j] = s4[j]
         /\ \A j \in 1 .. L5 : s5[L1 + L2 + L3 + 1 + j] = p5[j]
    <2>0. s4 \in Seq(R) /\ p5 \in Seq(R)
      BY <1>11, <1>12
    <2>1. /\ s5 \in Seq(R) /\ Len(s5) = Len(s4) + Len(p5)
          /\ \A j \in 1 .. Len(s4) : s5[j] = s4[j]
          /\ \A j \in 1 .. Len(p5) : s5[Len(s4) + j] = p5[j]
      BY <2>0
    <2> QED  BY <1>3, <1>12, <2>1, Zenon
  <1> HIDE DEF s5
  <1>14. EndAt(a) = L1 + L2 + L3 + 1 /\ FullLen(a) = L1 + L2 + L3 + 1 + L5
    BY DEF EndAt, FullLen, L1, L2, L3, L5
  <1>15. s5[L1 + L2 + L3 + 1] = EndOf(a)
    BY <1>1, <1>2, <1>11, <1>12, <1>13
  <1>16. \A j \in 1 .. L1 + L2 + L3 : s5[j] \in S /\ s5[j] = s3[j]
    BY <1>1, <1>2, <1>10, <1>12, <1>13
  <1>17. ASSUME NEW k \in 1 .. n
         PROVE  /\ s5[L1 + LocalsTo(a, k - 1) + 1] = Lfh
                /\ s5[L1 + L2 + DirTo(a, k - 1) + 1] = Entry(a, k)
    <2> DEFINE x == LocalsTo(a, k - 1) + 1
               y == DirTo(a, k - 1) + 1
    <2>1. /\ x \in 1 .. L2 /\ p2[x] = Lfh /\ y \in 1 .. L3 /\ p3[y] = Entry(a, k)
          /\ L1 + LocalsTo(a, k - 1) + 1 = L1 + x /\ L1 + L2 + DirTo(a, k - 1) + 1 = L1 + L2 + y
      <3>1. /\ x \in 1 .. L2 /\ p2[x] = Lfh /\ y \in 1 .. L3 /\ p3[y] = Entry(a, k)
            /\ LocalsTo(a, k - 1) \in Nat /\ DirTo(a, k - 1) \in Nat
        BY <1>5, Zenon
      <3>2. \A u, v \in Nat : L1 + u + 1 = L1 + (u + 1) /\ L1 + L2 + v + 1 = L1 + L2 + (v + 1)
        BY <1>1, <1>2
      <3> QED  BY <3>1, <3>2, Zenon
    <2> HIDE DEF x, y
    <2>2. s2[L1 + x] = Lfh /\ s3[L1 + L2 + y] = Entry(a, k)
      BY <1>8, <1>9, <2>1
    <2>3. L1 + x \in 1 .. L1 + L2 /\ L1 + x \in 1 .. L1 + L2 + L3 /\ L1 + L2 + y \in 1 .. L1 + L2 + L3
      BY <1>1, <1>2, <2>1
    <2>4. s3[L1 + x] = s2[L1 + x]
      BY <1>9, <2>3
    <2>5. s5[L1 + x] = s3[L1 + x] /\ s5[L1 + L2 + y] = s3[L1 + L2 + y]
      BY <1>16, <2>3
    <2> QED  BY <2>1, <2>2, <2>4, <2>5
  <1>18. /\ L1 + L2 \in Nat /\ EndAt(a) \in Nat \ {0} /\ FullLen(a) \in Nat
         /\ EndAt(a) - 1 = L1 + L2 + L3
    BY <1>1, <1>2, <1>3, <1>14
  <1>19. \A j \in 1 .. L5 :
            s5[EndAt(a) + j] = IF j = a.comment.inner THEN Inner(a) ELSE List!Byte
    BY <1>7, <1>13, <1>14
  <1>20. \A j \in 1 .. EndAt(a) - 1 : s5[j] \in S
    BY <1>16, <1>18
  <1>21. s5 \in Seq(R) /\ Len(s5) = FullLen(a) /\ s5[EndAt(a)] = EndOf(a)
    BY <1>13, <1>14, <1>15
  <1>22. /\ L1 + L2 \in Nat /\ EndAt(a) \in Nat \ {0} /\ FullLen(a) \in Nat
         /\ Whole(a) \in Seq(R) /\ Len(Whole(a)) = FullLen(a) /\ Whole(a)[EndAt(a)] = EndOf(a)
         /\ \A j \in 1 .. EndAt(a) - 1 : Whole(a)[j] \in S
         /\ \A j \in 1 .. L5 :
               Whole(a)[EndAt(a) + j] = IF j = a.comment.inner THEN Inner(a) ELSE List!Byte
         /\ \A k \in 1 .. n : /\ Whole(a)[L1 + LocalsTo(a, k - 1) + 1] = Lfh
                             /\ Whole(a)[L1 + L2 + DirTo(a, k - 1) + 1] = Entry(a, k)
    BY <1>6, <1>17, <1>18, <1>19, <1>20, <1>21, Zenon
  <1> QED  BY <1>22 DEF L1, L2, L5, R, S

LEMMA LayoutIs ==
  ASSUME NEW a \in Archives
  PROVE  LET s == List!Layout(a) IN
         /\ Len(s) \in Nat /\ Len(s) <= FullLen(a)
         /\ a.lost = 0 => Len(s) = FullLen(a)
         /\ a.lost # 0 => Len(s) = 0 \/ Len(s) + a.lost = FullLen(a)
         /\ \A j \in 1 .. Len(s) : s[j] = Whole(a)[j]
  <1> DEFINE n == Len(a.members)
             w == Whole(a)
             T == FullLen(a)
             s == List!Layout(a)
             l == a.lost
  <1>1. n \in 0 .. n /\ l \in Nat
    <2>1. n \in Nat /\ l \in Nat
      BY MembersAre
    <2> QED  BY <2>1
  <1>2. Len(List!Directory(a)) = DirTo(a, n) /\ Len(List!Locals(a)) = LocalsTo(a, n)
    BY Parts
  <1>3. s = SubSeq(w, 1, Len(w) - l)
    BY <1>2 DEF List!Layout, Whole, EndOf
  <1>4. PICK R : w \in Seq(R)
    BY WholeIs
  <1>5. Len(w) = T /\ T \in Nat
    BY WholeIs
  <1> HIDE DEF n, w, T, s, l
  <1>6. CASE l < T
    <2>1. T - l \in 1 .. T
      BY <1>1, <1>5, <1>6
    <2>2. Len(s) = T - l /\ \A j \in 1 .. T - l : s[j] = w[j]
      BY <1>3, <1>4, <1>5, <2>1
    <2> QED  BY <1>1, <1>5, <1>6, <2>2 DEF w, T, s, l
  <1>7. CASE ~(l < T)
    <2>1. Len(s) = 0
      <3>1. Len(w) - l < 1
        BY <1>1, <1>5, <1>7
      <3>2. Len(w) - l \in Int
        BY <1>1, <1>5
      <3> QED  BY <1>3, <1>4, <3>1, <3>2
    <2>2. l = 0 => T = 0
      BY <1>1, <1>5, <1>7
    <2>3. /\ Len(s) \in Nat /\ Len(s) <= T /\ (l = 0 => Len(s) = T)
          /\ (l # 0 => Len(s) = 0 \/ Len(s) + l = T)
          /\ \A j \in 1 .. Len(s) : s[j] = w[j]
      BY <1>5, <2>1, <2>2
    <2> QED  BY <2>3 DEF w, T, s, l
  <1> QED  BY <1>6, <1>7

\* The only end records are the archive's own and the one of its comment.
LEMMA EndRecords ==
  ASSUME NEW a \in Archives, NEW j \in 1 .. Len(List!Layout(a)),
         List!Layout(a)[j].rec = "eocdr"
  PROVE  \/ j = EndAt(a) /\ List!Layout(a)[j] = EndOf(a)
         \/ /\ a.comment.inner # 0 /\ a.comment.inner <= a.comment.len
            /\ j = EndAt(a) + a.comment.inner /\ List!Layout(a)[j] = Inner(a)
  <1> DEFINE s == List!Layout(a)
             w == Whole(a)
             E == EndAt(a)
             T == FullLen(a)
             c == a.comment.len
             m == a.comment.inner
  <1>1. Len(s) \in Nat /\ Len(s) <= T /\ \A x \in 1 .. Len(s) : s[x] = w[x]
    BY LayoutIs
  <1>2. /\ w[E] = EndOf(a) /\ E \in Nat \ {0}
        /\ \A x \in 1 .. E - 1 : w[x] \in Sorts(a)
        /\ \A x \in 1 .. c : w[E + x] = IF x = m THEN Inner(a) ELSE List!Byte
    BY WholeIs
  <1>3. T = E + c
    BY DEF FullLen
  <1>4. c \in Nat /\ m \in Nat
    <2>1. c \in 0 .. MaxComment /\ m \in Nat /\ MaxComment \in Nat
      BY MembersAre, ArchivesAssumption
    <2> QED  BY <2>1
  <1>5. \A r \in Sorts(a) : r.rec # "eocdr"
    BY DEF Sorts, Lfh, Entry, List!Byte
  <1>6. List!Byte.rec # "eocdr"
    BY DEF List!Byte
  <1>7. s[j].rec = "eocdr"
    OBVIOUS
  <1>8. j \in 1 .. Len(s)
    OBVIOUS
  <1> HIDE DEF s, w, E, T, c, m
  <1>9. PICK d : d = j
    OBVIOUS
  <1>10. s[j] = w[j] /\ j \in 1 .. T
    BY <1>1, <1>3, <1>4, <1>8
  <1>11. CASE j < E
    <2>1. j \in 1 .. E - 1
      BY <1>2, <1>10, <1>11
    <2> QED  BY <1>2, <1>5, <1>7, <1>10, <2>1, Zenon
  <1>12. CASE j = E
    BY <1>2, <1>10, <1>12 DEF s, w, E
  <1>13. CASE j > E
    <2>1. PICK x \in 1 .. c : j = E + x
      <3>1. j - E \in 1 .. c /\ j = E + (j - E)
        BY <1>2, <1>3, <1>4, <1>10, <1>13
      <3> QED  BY <3>1
    <2>2. w[E + x] = IF x = m THEN Inner(a) ELSE List!Byte
      BY <1>2
    <2>3. w[E + x].rec = "eocdr"
      BY <1>7, <1>10, <2>1, Zenon
    <2>4. x = m
      BY <1>6, <2>2, <2>3, Zenon
    <2>5. m # 0 /\ m <= c /\ j = E + m /\ s[j] = Inner(a)
      BY <1>4, <1>10, <2>1, <2>2, <2>4
    <2> QED  BY <2>5 DEF s, E, c, m
  <1>14. j < E \/ j = E \/ j > E
    BY <1>2, <1>10
  <1> QED  BY <1>11, <1>12, <1>13, <1>14

-----------------------------------------------------------------------------
\* Where entry k of the directory ends, on the archive's own offsets.
Off(a, k)     == List!Start(a) + LocalsTo(a, Len(a.members)) + DirTo(a, k)
NamesTo(a, k) == [j \in 1 .. k |-> a.members[j].name]

\* zip_read read the archive's own end record, or the one in its comment.
OwnZip ==
    /\ zip.base = archive.front - List!Start(archive)
    /\ zip.src_len = FullLen(archive) - zip.base
    /\ zip.num_members = Len(archive.members) /\ zip.begin = Off(archive, 0)
InnerZip ==
    /\ archive.comment.inner # 0
    /\ zip.num_members = 0 /\ zip.begin = 0

OwnState ==
    /\ OwnZip
    /\ pc = "check" => /\ i \in 0 .. Len(archive.members)
                       /\ offset = Off(archive, i) /\ listed = <<>>
    /\ pc = "list" => /\ zip.end = Off(archive, Len(archive.members))
                      /\ \E k \in 0 .. Len(archive.members) :
                            offset = Off(archive, k) /\ listed = NamesTo(archive, k)
    /\ pc = "done" => listed = NamesTo(archive, Len(archive.members))
InnerState ==
    /\ InnerZip
    /\ pc = "check" => i = 0 /\ offset = 0
    /\ pc = "list" => zip.end = 0 /\ offset = 0

ZipFields == [base : Int, src_len : Int, num_members : Nat, begin : Int, end : Int]
Refused   == \/ archive.lost > 0
             \/ \E k \in DOMAIN archive.members : ~archive.members[k].sound
             \/ ~archive.single
             \/ archive.members = <<>> /\ archive.front = 0

ZipSteps ==
    /\ pc = "read" => /\ file_sz \in Nat /\ buf_cap \in Nat \ {0} /\ file_sz <= buf_cap
                      /\ file_sz <= Len(List!src) /\ comment_len = 0
    /\ pc = "find" => /\ file_sz = Len(List!src) /\ comment_len \in Nat
                      /\ archive.lost = 0 => comment_len <= archive.comment.len
    /\ pc \in {"read", "find"} => i = 0 /\ listed = <<>>
    /\ pc \in {"check", "list", "done"} => archive.lost = 0 /\ (OwnState \/ InnerState)
    /\ pc = "failed" => archive.comment.inner # 0 \/ Refused

ZipInv ==
    /\ archive \in Archives /\ zip \in ZipFields
    /\ pc \in {"read", "find", "check", "list", "done", "error", "failed"}
    /\ ZipSteps

LEMMA ArchiveNumbers ==
  ASSUME NEW a \in Archives
  PROVE  LET n == Len(a.members) IN
         /\ n \in Nat /\ a.front \in Nat /\ List!Start(a) \in {0, a.front}
         /\ a.comment.len \in Nat /\ a.comment.len <= MaxComment
         /\ \A k \in 0 .. n : LocalsTo(a, k) \in Nat /\ DirTo(a, k) \in Nat
         /\ EndAt(a) = a.front + LocalsTo(a, n) + DirTo(a, n) + 1
         /\ FullLen(a) = EndAt(a) + a.comment.len
         /\ n \in 0 .. n /\ 0 \in 0 .. n /\ DirTo(a, 0) = 0
  <1>1. Len(a.members) \in Nat /\ a.front \in Nat
    BY MembersAre
  <1>2. a.comment.len \in Nat /\ a.comment.len <= MaxComment
    <2>1. a.comment.len \in 0 .. MaxComment /\ MaxComment \in Nat
      BY MembersAre, ArchivesAssumption
    <2> QED  BY <2>1
  <1>3. List!Start(a) \in {0, a.front}
    BY DEF List!Start
  <1>4. \A k \in 0 .. Len(a.members) : LocalsTo(a, k) \in Nat /\ DirTo(a, k) \in Nat
    BY Parts
  <1>5. DirTo(a, 0) = 0
    BY Parts
  <1> QED  BY <1>1, <1>2, <1>3, <1>4, <1>5 DEF EndAt, FullLen

\* What the parsers read of entry k.
LEMMA EntryIs ==
  ASSUME archive \in Archives, archive.lost = 0, OwnZip,
         NEW k \in 1 .. Len(archive.members)
  PROVE  LET n == Len(archive.members)
             o == Off(archive, k - 1)
             l == List!LfhOf(archive, k)
         IN  /\ List!Cell(o) = Entry(archive, k)
             /\ List!ReadRecord("cfh", o) /\ List!ReadRecord("lfh", l)
             /\ archive.members[k].comp <= zip.src_len - (l + List!Size(l))
             /\ List!NextEntry(o) = Off(archive, k)
             /\ Off(archive, 0) <= o /\ o < Off(archive, n) /\ Off(archive, k) <= Off(archive, n)
             /\ o \in Int /\ Off(archive, k) \in Int
  <1> DEFINE a  == archive
             n  == Len(a.members)
             f  == a.front
             S  == List!Start(a)
             LL == LocalsTo(a, n)
             DD == DirTo(a, n)
             u  == LocalsTo(a, k - 1)
             v  == LocalsTo(a, k)
             x  == DirTo(a, k - 1)
             y  == DirTo(a, k)
             T  == FullLen(a)
             c  == a.comment.len
             mc == a.members[k].comp
             mm == a.members[k].more
             o  == Off(a, k - 1)
             l  == List!LfhOf(a, k)
             s  == List!Layout(a)
  <1>1. /\ n \in Nat /\ f \in Nat /\ S \in {0, f} /\ c \in Nat /\ n \in 0 .. n
        /\ T = f + LL + DD + 1 + c /\ DirTo(a, 0) = 0
    BY ArchiveNumbers
  <1>2. mc \in Nat /\ mm \in Nat
    BY MembersAre
  <1>3. k - 1 \in 0 .. n /\ k \in 0 .. n
    BY <1>1
  <1>4. LL \in Nat /\ DD \in Nat /\ u \in Nat /\ v \in Nat /\ x \in Nat /\ y \in Nat
    BY <1>1, <1>3, ArchiveNumbers
  <1>5. v = u + 2 + mc /\ v <= LL /\ l = S + u /\ y = x + 2 + mm /\ y <= DD
    BY Parts
  <1>6. /\ zip.base = f - S /\ zip.src_len = T - (f - S)
        /\ o = S + LL + x /\ Off(a, k) = S + LL + y /\ Off(a, n) = S + LL + DD
        /\ Off(a, 0) = S + LL + 0
    BY <1>1 DEF OwnZip, Off
  <1>7. /\ Len(s) = T /\ \A j \in 1 .. Len(s) : s[j] = Whole(a)[j]
    BY LayoutIs
  <1>8. Whole(a)[f + u + 1] = Lfh /\ Whole(a)[f + LL + x + 1] = Entry(a, k)
    BY WholeIs
  <1>9. List!Cell(o) = s[zip.base + o + 1] /\ List!Cell(l) = s[zip.base + l + 1]
    BY DEF List!Cell, List!src
  <1>10. Entry(a, k).len = 1 + mm /\ Entry(a, k).rec = "cfh" /\ Lfh.len = 1 /\ Lfh.rec = "lfh"
    BY DEF Entry, Lfh
  <1> HIDE DEF n, f, S, LL, DD, u, v, x, y, T, c, mc, mm, o, l, s
  <1>11. zip.base + o + 1 = f + LL + x + 1 /\ zip.base + l + 1 = f + u + 1
    BY <1>1, <1>4, <1>5, <1>6
  <1>12. f + LL + x + 1 \in 1 .. T /\ f + u + 1 \in 1 .. T
    BY <1>1, <1>2, <1>4, <1>5
  <1>13. List!Cell(o) = Entry(a, k) /\ List!Cell(l) = Lfh
    BY <1>7, <1>8, <1>9, <1>11, <1>12
  <1>14. /\ o < zip.src_len /\ zip.src_len - o - 1 >= 1 + mm
         /\ l < zip.src_len /\ zip.src_len - l - 1 >= 1
         /\ mc <= zip.src_len - (l + (1 + 1))
    BY <1>1, <1>2, <1>4, <1>5, <1>6
  <1>15. List!ReadRecord("cfh", o) /\ List!ReadRecord("lfh", l)
    BY <1>10, <1>13, <1>14 DEF List!ReadRecord
  <1>16. List!Size(l) = 1 + 1 /\ List!Size(o) = 1 + (1 + mm)
    BY <1>10, <1>13 DEF List!Size
  <1>17. List!NextEntry(o) = Off(a, k)
    <2>1. List!NextEntry(o) = o + (1 + (1 + mm))
      BY <1>16 DEF List!NextEntry
    <2> QED  BY <1>1, <1>2, <1>4, <1>5, <1>6, <2>1
  <1>18. /\ Off(a, 0) <= o /\ o < Off(a, n) /\ Off(a, k) <= Off(a, n)
         /\ o \in Int /\ Off(a, k) \in Int
    BY <1>1, <1>2, <1>4, <1>5, <1>6
  <1>19. mc <= zip.src_len - (l + List!Size(l))
    BY <1>14, <1>16
  <1> QED  BY <1>13, <1>15, <1>17, <1>18, <1>19 DEF n, o, l, mc

LEMMA ZipStarts == List!Init => ZipInv
  <1> SUFFICES ASSUME List!Init
               PROVE  ZipInv
    OBVIOUS
  <1>1. archive \in Archives /\ pc = "read" /\ file_sz = 0 /\ comment_len = 0 /\ i = 0
        /\ listed = <<>> /\ buf_cap = FirstCap
    BY DEF List!Init
  <1>2. zip \in ZipFields
    BY DEF List!Init, ZipFields
  <1>3. Len(List!src) \in Nat
    BY <1>1, LayoutIs DEF List!src
  <1>4. FirstCap \in Nat \ {0}
    BY ArchivesAssumption
  <1>5. ZipSteps
    BY <1>1, <1>3, <1>4 DEF ZipSteps
  <1> QED  BY <1>1, <1>2, <1>5 DEF ZipInv

LEMMA ReadKeeps ==
  ASSUME ZipInv, List!ReadFile
  PROVE  ZipInv'
  <1> DEFINE N    == Len(List!src)
             cap  == IF buf_cap = file_sz THEN 2 * buf_cap ELSE buf_cap
             left == N - file_sz
             got  == IF left < cap - file_sz THEN left ELSE cap - file_sz
  <1>1. pc = "read" /\ archive \in Archives /\ zip \in ZipFields
        /\ file_sz \in Nat /\ buf_cap \in Nat \ {0} /\ file_sz <= buf_cap
        /\ file_sz <= N /\ comment_len = 0 /\ i = 0 /\ listed = <<>>
    BY DEF ZipInv, ZipSteps, List!ReadFile
  <1>2. /\ file_sz' = file_sz + got /\ buf_cap' = cap
        /\ pc' = (IF got < cap - file_sz THEN "find" ELSE "read")
        /\ UNCHANGED <<archive, comment_len, zip, offset, i, listed>>
    BY DEF List!ReadFile
  <1>3. N \in Nat /\ 0 <= archive.comment.len
    <2>1. N \in Nat
      BY <1>1, LayoutIs DEF List!src
    <2>2. archive.comment.len \in Nat
      BY <1>1, ArchiveNumbers
    <2> QED  BY <2>1, <2>2
  <1>4. List!src' = List!src
    BY <1>2 DEF List!src
  <1> HIDE DEF N
  <1>5. /\ file_sz' \in Nat /\ buf_cap' \in Nat \ {0} /\ file_sz' <= buf_cap' /\ file_sz' <= N
        /\ got < cap - file_sz => file_sz' = N
    BY <1>1, <1>2, <1>3
  <1>6. pc' \in {"find", "read"} /\ (pc' = "find" => file_sz' = N)
    BY <1>2, <1>5
  <1> HIDE DEF cap, got, left
  <1>7. /\ archive' = archive /\ zip' = zip /\ comment_len' = 0 /\ i' = 0 /\ listed' = <<>>
        /\ Len(List!src)' = N
    BY <1>1, <1>2, <1>4 DEF N
  <1>8. ZipSteps'
    BY <1>3, <1>5, <1>6, <1>7 DEF ZipSteps
  <1> QED  BY <1>1, <1>6, <1>7, <1>8 DEF ZipInv

LEMMA NoRoomForMembers ==
  ASSUME NEW a \in Archives, EndAt(a) = 1
  PROVE  a.members = <<>> /\ a.front = 0
  <1> DEFINE n == Len(a.members)
  <1>1. n \in Nat /\ n \in 0 .. n /\ a.front \in Nat /\ LocalsTo(a, n) \in Nat /\ DirTo(a, n) \in Nat
    BY ArchiveNumbers
  <1>2. EndAt(a) = a.front + LocalsTo(a, n) + DirTo(a, n) + 1
    BY ArchiveNumbers
  <1>3. a.front = 0 /\ LocalsTo(a, n) = 0
    BY <1>1, <1>2
  <1>4. n = 0
    <2> SUFFICES ASSUME n # 0
                 PROVE  FALSE
      OBVIOUS
    <2>1. n \in 1 .. n /\ n - 1 \in 0 .. n
      BY <1>1
    <2>2. LocalsTo(a, n) = LocalsTo(a, n - 1) + 2 + a.members[n].comp
      BY <2>1, Parts
    <2>3. LocalsTo(a, n - 1) \in Nat /\ a.members[n].comp \in Nat
      BY <2>1, Parts, MembersAre
    <2> QED  BY <1>3, <2>2, <2>3
  <1>5. a.members \in Seq([name : MemberNames, more : Nat, comp : Nat, sound : BOOLEAN])
    BY ArchivesAssumption
  <1> QED  BY <1>3, <1>4, <1>5

LEMMA FindKeeps ==
  ASSUME ZipInv, List!FindEocdr
  PROVE  ZipInv'
  <1> DEFINE a   == archive
             N   == Len(List!src)
             c   == comment_len
             cl  == a.comment.len
             off == List!src_len - 1 - c
             r   == List!src[off + 1]
             E   == EndAt(a)
             T   == FullLen(a)
             len == r.cd_offset + r.cd_size + List!src_len - off
  <1>1. /\ pc = "find" /\ a \in Archives /\ zip \in ZipFields /\ i = 0 /\ listed = <<>>
        /\ file_sz = N /\ c \in Nat /\ (a.lost = 0 => c <= cl)
    BY DEF ZipInv, ZipSteps, List!FindEocdr
  <1>2. /\ IF c > MaxComment \/ List!src_len < 1 + c
             THEN pc' = "failed" /\ UNCHANGED <<zip, offset, comment_len>>
           ELSE IF ~List!IsEnd(off, c)
             THEN comment_len' = c + 1 /\ UNCHANGED <<pc, zip, offset>>
           ELSE IF off = 0 \/ ~r.single
             THEN pc' = "failed" /\ UNCHANGED <<zip, offset, comment_len>>
           ELSE /\ zip' = [base |-> List!src_len - len, src_len |-> len,
                           num_members |-> r.cd_entries, begin |-> r.cd_offset, end |-> 0]
                /\ offset' = r.cd_offset
                /\ pc' = "check" /\ UNCHANGED comment_len
        /\ UNCHANGED <<archive, file_sz, buf_cap, i, listed>>
    BY DEF List!FindEocdr
  <1>3. /\ N \in Nat /\ (a.lost = 0 => N = T) /\ (a.lost # 0 => N = 0 \/ N + a.lost = T)
        /\ a.lost \in Nat /\ MaxComment \in Nat
    BY <1>1, LayoutIs, MembersAre, ArchivesAssumption DEF List!src
  <1>4. /\ cl \in Nat /\ cl <= MaxComment /\ T = E + cl /\ E \in Nat \ {0}
    <2>1. cl \in Nat /\ cl <= MaxComment /\ T = E + cl
      BY <1>1, ArchiveNumbers
    <2>2. E \in Nat \ {0}
      BY <1>1, WholeIs
    <2> QED  BY <2>1, <2>2
  <1>5. List!src_len = N /\ off = N - 1 - c /\ List!src = List!Layout(a)
    BY <1>1 DEF List!src_len, List!src
  <1>6. /\ archive' = archive /\ i' = 0 /\ listed' = <<>> /\ file_sz' = N /\ List!src' = List!src
    BY <1>1, <1>2 DEF List!src
  <1>7. CASE c > MaxComment \/ N < 1 + c
    <2>1. a.lost > 0
      BY <1>1, <1>3, <1>4, <1>7
    <2>2. pc' = "failed" /\ zip' = zip
      BY <1>2, <1>5, <1>7
    <2>3. Refused'
      BY <1>6, <2>1 DEF Refused
    <2>4. ZipSteps'
      BY <2>2, <2>3 DEF ZipSteps
    <2> QED  BY <1>1, <1>6, <2>2, <2>4 DEF ZipInv
  <1>8. CASE ~(c > MaxComment \/ N < 1 + c)
    <2>0. c <= MaxComment /\ 1 + c <= N /\ off + 1 \in 1 .. N /\ off + 1 = N - c /\ off \in Nat
      BY <1>1, <1>3, <1>5, <1>8
    <2>1. CASE ~List!IsEnd(off, c)
      <3>1. comment_len' = c + 1 /\ pc' = "find" /\ zip' = zip
        BY <1>1, <1>2, <1>5, <1>8, <2>1
      <3>2. ASSUME a.lost = 0
            PROVE  c # cl
        <4> SUFFICES ASSUME c = cl
                     PROVE  FALSE
          OBVIOUS
        <4>1. off + 1 = E
          BY <1>3, <1>4, <2>0, <3>2
        <4>2. List!Layout(a)[E] = Whole(a)[E]
          BY <1>1, <1>5, <2>0, <4>1, LayoutIs
        <4>3. Whole(a)[E] = EndOf(a)
          BY <1>1, WholeIs
        <4>4. r = EndOf(a)
          BY <1>5, <4>1, <4>2, <4>3
        <4>5. List!IsEnd(off, c)
          BY <4>4 DEF List!IsEnd, EndOf, List!EndRecord
        <4> QED  BY <2>1, <4>5
      <3>3. c + 1 \in Nat /\ (a.lost = 0 => c + 1 <= cl)
        BY <1>1, <1>4, <3>2
      <3>4. ZipSteps'
        BY <1>6, <3>1, <3>3 DEF ZipSteps
      <3> QED  BY <1>1, <1>6, <3>1, <3>4 DEF ZipInv
    <2>2. CASE List!IsEnd(off, c)
      <3>1. r.rec = "eocdr" /\ r.comment_len = c
        BY <2>2 DEF List!IsEnd
      <3> DEFINE m == a.comment.inner
      <3>2. m \in Nat
        BY <1>1, MembersAre
      <3>3. \/ off + 1 = E /\ r = EndOf(a)
            \/ m # 0 /\ m <= cl /\ off + 1 = E + m /\ r = Inner(a)
        <4>1. off + 1 \in 1 .. Len(List!Layout(a)) /\ List!Layout(a)[off + 1].rec = "eocdr"
          BY <1>5, <2>0, <3>1
        <4> HIDE DEF off
        <4>2. PICK d : d = off + 1
          OBVIOUS
        <4>3. \/ d = E /\ List!Layout(a)[d] = EndOf(a)
              \/ m # 0 /\ m <= cl /\ d = E + m /\ List!Layout(a)[d] = Inner(a)
          BY <1>1, <4>1, <4>2, EndRecords
        <4> QED  BY <1>5, <4>2, <4>3
      <3>4. r = EndOf(a) => /\ r.comment_len = cl /\ r.single = a.single
                            /\ r.cd_offset = Off(a, 0) /\ r.cd_entries = Len(a.members)
                            /\ r.cd_size = DirTo(a, Len(a.members))
        <4>1. Off(a, 0) = List!Start(a) + LocalsTo(a, Len(a.members))
          <5>1. DirTo(a, 0) = 0 /\ LocalsTo(a, Len(a.members)) \in Nat
                /\ List!Start(a) \in {0, a.front} /\ a.front \in Nat
            BY <1>1, ArchiveNumbers
          <5> QED  BY <5>1 DEF Off
        <4> QED  BY <4>1 DEF EndOf, List!EndRecord
      <3>5. r = Inner(a) => /\ r.comment_len = cl - m /\ r.cd_offset = 0 /\ r.cd_entries = 0
                            /\ r.cd_size = 0
        BY DEF Inner, List!EndRecord
      <3> HIDE DEF r, off, E, m
      <3>6. a.lost = 0
        <4>1. CASE off + 1 = E /\ r = EndOf(a)
          BY <1>1, <1>3, <1>4, <2>0, <3>1, <3>4, <4>1
        <4>2. CASE m # 0 /\ m <= cl /\ off + 1 = E + m /\ r = Inner(a)
          <5>1. c = cl - m /\ E + m = N - c
            BY <2>0, <3>1, <3>5, <4>2
          <5>2. N \in Nat /\ c \in Nat /\ cl \in Nat /\ m \in Nat /\ E \in Nat \ {0}
            BY <1>1, <1>3, <1>4, <3>2
          <5>3. T = E + cl /\ a.lost \in Nat /\ (a.lost # 0 => N = 0 \/ N + a.lost = T)
            BY <1>3, <1>4
          <5> HIDE DEF N, c, cl, T
          <5>4. N = E + cl
            BY <5>1, <5>2
          <5> QED  BY <5>2, <5>3, <5>4
        <4> QED  BY <3>3, <4>1, <4>2
      <3>7. CASE off = 0 \/ ~r.single
        <4>1. pc' = "failed" /\ zip' = zip
          BY <1>2, <1>5, <1>8, <2>2, <3>7
        <4>2. m # 0 \/ Refused
          <5>1. CASE off + 1 = E /\ r = EndOf(a) /\ off = 0
            <6>1. EndAt(a) = 1
              BY <5>1 DEF E
            <6> QED  BY <1>1, <6>1, NoRoomForMembers DEF Refused
          <5>2. CASE off + 1 = E /\ r = EndOf(a) /\ ~r.single
            BY <3>4, <5>2 DEF Refused
          <5> QED  BY <3>3, <3>7, <5>1, <5>2
        <4>3. ZipSteps'
          BY <1>6, <4>1, <4>2 DEF ZipSteps, Refused, m
        <4> QED  BY <1>1, <1>6, <4>1, <4>3 DEF ZipInv
      <3>8. CASE ~(off = 0 \/ ~r.single)
        <4>1. /\ zip' = [base |-> N - len, src_len |-> len,
                         num_members |-> r.cd_entries, begin |-> r.cd_offset, end |-> 0]
              /\ offset' = r.cd_offset /\ pc' = "check"
          BY <1>2, <1>5, <1>8, <2>2, <3>8
        <4>2. len = r.cd_offset + r.cd_size + N - off
          BY <1>5
        <4> HIDE DEF len
        <4>3. CASE off + 1 = E /\ r = EndOf(a)
          <5> DEFINE n  == Len(a.members)
                     L2 == LocalsTo(a, n)
                     L3 == DirTo(a, n)
                     S  == List!Start(a)
                     f  == a.front
          <5>1. /\ n \in Nat /\ L2 \in Nat /\ L3 \in Nat /\ S \in {0, f} /\ f \in Nat
                /\ E = f + L2 + L3 + 1 /\ DirTo(a, 0) = 0
            BY <1>1, ArchiveNumbers DEF E
          <5>2. r.cd_offset = Off(a, 0) /\ r.cd_entries = n /\ r.cd_size = L3 /\ Off(a, 0) = S + L2 + 0
            BY <3>4, <4>3, <5>1 DEF Off
          <5> HIDE DEF n, L2, L3, S, f, T
          <5>3. len = T - (f - S) /\ N - len = f - S /\ len \in Int /\ f - S \in Int
                /\ Off(a, 0) \in Int
            <6>0. off = f + L2 + L3
              BY <2>0, <4>3, <5>1
            <6>1. len = S + L2 + L3 + N - (f + L2 + L3)
              <7>1. len = Off(a, 0) + L3 + N - (f + L2 + L3) /\ Off(a, 0) = S + L2
                BY <4>2, <5>1, <5>2, <6>0
              <7> QED  BY <7>1
            <6>2. N = T /\ N \in Nat
              BY <1>3, <3>6
            <6>3. S \in Nat /\ f \in Nat /\ L2 \in Nat /\ L3 \in Nat
              BY <5>1
            <6>4. len = T - (f - S)
              BY <6>1, <6>2, <6>3
            <6> QED  BY <5>2, <6>2, <6>3, <6>4
          <5>4. /\ zip'.base = f - S /\ zip'.src_len = T - (f - S) /\ zip'.num_members = n
                /\ zip'.begin = Off(a, 0) /\ zip'.end = 0
            BY <4>1, <5>2, <5>3
          <5>5. zip' \in ZipFields
            BY <4>1, <5>1, <5>2, <5>3 DEF ZipFields
          <5>6. OwnZip'
            BY <1>6, <5>4 DEF OwnZip, n, S, f, T
          <5>7. OwnState'
            <6>1. 0 \in 0 .. n
              BY <5>1
            <6> QED  BY <1>6, <4>1, <5>2, <5>6, <6>1 DEF OwnState, n
          <5>8. ZipSteps'
            BY <1>6, <3>6, <4>1, <5>7 DEF ZipSteps
          <5> QED  BY <1>1, <1>6, <4>1, <5>5, <5>8 DEF ZipInv
        <4>4. CASE m # 0 /\ m <= cl /\ off + 1 = E + m /\ r = Inner(a)
          <5>1. r.cd_offset = 0 /\ r.cd_entries = 0 /\ r.cd_size = 0
            BY <3>5, <4>4
          <5>2. len \in Int /\ N - len \in Int
            BY <1>3, <2>0, <4>2, <5>1
          <5>3. zip' \in ZipFields /\ zip'.num_members = 0 /\ zip'.begin = 0 /\ offset' = 0
            BY <4>1, <5>1, <5>2 DEF ZipFields
          <5>4. InnerState'
            BY <1>6, <4>1, <4>4, <5>3 DEF InnerState, InnerZip, m
          <5>5. ZipSteps'
            BY <1>6, <3>6, <4>1, <5>4 DEF ZipSteps
          <5> QED  BY <1>1, <1>6, <4>1, <5>3, <5>5 DEF ZipInv
        <4> QED  BY <3>3, <4>3, <4>4
      <3> QED  BY <3>7, <3>8
    <2> QED  BY <2>1, <2>2
  <1> QED  BY <1>7, <1>8

LEMMA CheckKeeps ==
  ASSUME ZipInv, List!CheckMember
  PROVE  ZipInv'
  <1> DEFINE a == archive
             n == Len(a.members)
  <1>1. /\ pc = "check" /\ i < zip.num_members /\ a \in Archives /\ zip \in ZipFields
        /\ a.lost = 0 /\ (OwnState \/ InnerState)
    BY DEF ZipInv, ZipSteps, List!CheckMember
  <1>2. /\ IF List!Accepts(offset)
             THEN i' = i + 1 /\ offset' = List!NextEntry(offset) /\ UNCHANGED pc
             ELSE pc' = "failed" /\ UNCHANGED <<i, offset>>
        /\ UNCHANGED <<archive, file_sz, buf_cap, comment_len, zip, listed>>
    BY DEF List!CheckMember
  <1>3. ~InnerState
    BY <1>1 DEF InnerState, InnerZip
  <1>4. OwnZip /\ i \in 0 .. n /\ offset = Off(a, i) /\ listed = <<>> /\ i < n
    BY <1>1, <1>3 DEF OwnState, OwnZip
  <1>5. n \in Nat /\ DOMAIN a.members = 1 .. n
    BY <1>1, MembersAre
  <1> HIDE DEF n
  <1>6. PICK k : k = i + 1
    OBVIOUS
  <1>7. k \in 1 .. n /\ k \in 0 .. n /\ i = k - 1 /\ n \in Nat
    BY <1>4, <1>5, <1>6
  <1>8. offset = Off(a, k - 1)
    BY <1>4, <1>7
  <1>9. /\ List!Cell(offset) = Entry(a, k)
        /\ List!ReadRecord("cfh", offset) /\ List!ReadRecord("lfh", List!LfhOf(a, k))
        /\ a.members[k].comp
              <= zip.src_len - (List!LfhOf(a, k) + List!Size(List!LfhOf(a, k)))
        /\ List!NextEntry(offset) = Off(a, k)
    BY <1>1, <1>4, <1>7, <1>8, EntryIs DEF n
  <1>10. /\ archive' = archive /\ zip' = zip /\ listed' = <<>>
    BY <1>2, <1>4
  <1>11. CASE List!Accepts(offset)
    <2>1. i' = k /\ offset' = Off(a, k) /\ pc' = "check"
      BY <1>1, <1>2, <1>6, <1>9, <1>11
    <2>2. OwnState'
      BY <1>4, <1>7, <1>10, <2>1 DEF OwnState, OwnZip, n
    <2>3. ZipSteps'
      BY <1>1, <1>10, <2>1, <2>2 DEF ZipSteps
    <2> QED  BY <1>1, <1>10, <2>1, <2>3 DEF ZipInv
  <1>12. CASE ~List!Accepts(offset)
    <2>1. pc' = "failed"
      BY <1>2, <1>12
    <2>2. /\ List!Cell(offset).sound = a.members[k].sound
          /\ List!Cell(offset).lfh_offset = List!LfhOf(a, k)
          /\ List!Cell(offset).comp_size = a.members[k].comp
      BY <1>9 DEF Entry
    <2>3. ~a.members[k].sound
      BY <1>9, <1>12, <2>2 DEF List!Accepts
    <2>4. Refused'
      BY <1>5, <1>7, <1>10, <2>3 DEF Refused
    <2>5. ZipSteps'
      BY <2>1, <2>4 DEF ZipSteps
    <2> QED  BY <1>1, <1>10, <2>1, <2>5 DEF ZipInv
  <1> QED  BY <1>11, <1>12

LEMMA CheckDoneKeeps ==
  ASSUME ZipInv, List!CheckDone
  PROVE  ZipInv'
  <1> DEFINE a == archive
             n == Len(a.members)
  <1>1. /\ pc = "check" /\ i = zip.num_members /\ a \in Archives /\ zip \in ZipFields
        /\ a.lost = 0 /\ (OwnState \/ InnerState)
    BY DEF ZipInv, ZipSteps, List!CheckDone
  <1>2. /\ zip' = [zip EXCEPT !.end = offset]
        /\ offset' = zip.begin /\ pc' = "list"
        /\ UNCHANGED <<archive, file_sz, buf_cap, comment_len, i, listed>>
    BY DEF List!CheckDone
  <1>3. n \in Nat /\ n \in 0 .. n /\ 0 \in 0 .. n
    BY <1>1, ArchiveNumbers
  <1>4. /\ zip'.base = zip.base /\ zip'.src_len = zip.src_len
        /\ zip'.num_members = zip.num_members /\ zip'.begin = zip.begin /\ zip'.end = offset
    BY <1>1, <1>2 DEF ZipFields
  <1>5. CASE OwnState
    <2>1. OwnZip /\ offset = Off(a, n) /\ listed = <<>>
      BY <1>1, <1>5 DEF OwnState, OwnZip
    <2>2. offset \in Int
      <3>1. /\ List!Start(a) \in {0, a.front} /\ a.front \in Nat
            /\ LocalsTo(a, n) \in Nat /\ DirTo(a, n) \in Nat
        BY <1>1, ArchiveNumbers
      <3> QED  BY <2>1, <3>1 DEF Off
    <2>3. zip' \in ZipFields
      BY <1>1, <1>2, <2>2 DEF ZipFields
    <2>4. OwnZip' /\ offset' = Off(a, 0)
      BY <1>2, <1>4, <2>1 DEF OwnZip
    <2>5. NamesTo(a, 0) = <<>>
      BY DEF NamesTo
    <2>6. OwnState'
      BY <1>2, <1>3, <1>4, <2>1, <2>4, <2>5 DEF OwnState
    <2>7. ZipSteps'
      BY <1>1, <1>2, <2>6 DEF ZipSteps
    <2> QED  BY <1>1, <1>2, <2>3, <2>7 DEF ZipInv
  <1>6. CASE InnerState
    <2>1. InnerZip /\ offset = 0
      BY <1>1, <1>6 DEF InnerState
    <2>2. zip' \in ZipFields
      BY <1>1, <1>2, <2>1 DEF ZipFields
    <2>3. InnerState'
      BY <1>2, <1>4, <2>1 DEF InnerState, InnerZip
    <2>4. ZipSteps'
      BY <1>1, <1>2, <2>3 DEF ZipSteps
    <2> QED  BY <1>1, <1>2, <2>2, <2>4 DEF ZipInv
  <1> QED  BY <1>1, <1>5, <1>6

LEMMA ListKeeps ==
  ASSUME ZipInv, List!ListMember
  PROVE  ZipInv'
  <1> DEFINE a == archive
             n == Len(a.members)
  <1>1. /\ pc = "list" /\ offset # zip.end /\ a \in Archives /\ zip \in ZipFields
        /\ a.lost = 0 /\ (OwnState \/ InnerState)
    BY DEF ZipInv, ZipSteps, List!ListMember
  <1>2. /\ IF /\ offset >= zip.begin /\ offset < zip.end
              /\ List!ReadRecord("cfh", offset)
              /\ List!ReadRecord("lfh", List!Cell(offset).lfh_offset)
              /\ List!NextEntry(offset) <= zip.end
             THEN /\ listed' = Append(listed, List!Cell(offset).name)
                  /\ offset' = List!NextEntry(offset) /\ UNCHANGED pc
             ELSE pc' = "assert" /\ UNCHANGED <<listed, offset>>
        /\ UNCHANGED <<archive, file_sz, buf_cap, comment_len, zip, i>>
    BY DEF List!ListMember
  <1>3. ~InnerState
    BY <1>1 DEF InnerState
  <1>4. OwnZip /\ zip.end = Off(a, n)
    BY <1>1, <1>3 DEF OwnState, OwnZip
  <1>5. PICK j \in 0 .. n : offset = Off(a, j) /\ listed = NamesTo(a, j)
    BY <1>1, <1>3 DEF OwnState
  <1>6. n \in Nat
    BY <1>1, MembersAre
  <1> HIDE DEF n
  <1>7. PICK k : k = j + 1
    OBVIOUS
  <1>8. k \in 1 .. n /\ k \in 0 .. n /\ j = k - 1
    <2>1. j # n
      BY <1>1, <1>4, <1>5
    <2> QED  BY <1>5, <1>6, <1>7, <2>1
  <1>9. offset = Off(a, k - 1)
    BY <1>5, <1>8
  <1>10. /\ List!Cell(offset) = Entry(a, k)
         /\ List!ReadRecord("cfh", offset) /\ List!ReadRecord("lfh", List!LfhOf(a, k))
         /\ List!NextEntry(offset) = Off(a, k)
         /\ Off(a, 0) <= offset /\ offset < Off(a, n) /\ Off(a, k) <= Off(a, n)
         /\ offset \in Int
    BY <1>1, <1>4, <1>8, <1>9, EntryIs DEF n
  <1>11. List!Cell(offset).lfh_offset = List!LfhOf(a, k)
         /\ List!Cell(offset).name = a.members[k].name
    BY <1>10 DEF Entry
  <1>12. zip.begin = Off(a, 0) /\ zip.begin \in Int
    BY <1>1, <1>4 DEF OwnZip, ZipFields
  <1>13. offset >= zip.begin /\ offset < zip.end /\ List!NextEntry(offset) <= zip.end
    BY <1>4, <1>10, <1>12
  <1>14. /\ listed' = Append(NamesTo(a, j), a.members[k].name)
         /\ offset' = Off(a, k) /\ pc' = "list" /\ archive' = archive /\ zip' = zip /\ i' = i
    BY <1>1, <1>2, <1>5, <1>10, <1>11, <1>13
  <1>15. Append(NamesTo(a, j), a.members[k].name) = NamesTo(a, k)
    BY <1>5, <1>6, <1>7 DEF NamesTo
  <1>16. \E x \in 0 .. n : offset' = Off(a, x) /\ listed' = NamesTo(a, x)
    BY <1>8, <1>14, <1>15
  <1>17. OwnState'
    BY <1>4, <1>14, <1>16 DEF OwnState, OwnZip, n
  <1>18. ZipSteps'
    BY <1>1, <1>14, <1>17 DEF ZipSteps
  <1> QED  BY <1>1, <1>14, <1>18 DEF ZipInv

LEMMA ListDoneKeeps ==
  ASSUME ZipInv, List!ListDone
  PROVE  ZipInv'
  <1> DEFINE a == archive
             n == Len(a.members)
  <1>1. /\ pc = "list" /\ offset = zip.end /\ a \in Archives /\ zip \in ZipFields
        /\ a.lost = 0 /\ (OwnState \/ InnerState)
    BY DEF ZipInv, ZipSteps, List!ListDone
  <1>2. pc' = "done"
        /\ UNCHANGED <<archive, file_sz, buf_cap, comment_len, zip, offset, i, listed>>
    BY DEF List!ListDone
  <1>3. OwnState' \/ InnerState'
    <2>1. CASE InnerState
      BY <1>2, <2>1 DEF InnerState, InnerZip
    <2>2. CASE OwnState
      <3>1. OwnZip /\ zip.end = Off(a, n)
        BY <1>1, <2>2 DEF OwnState, OwnZip
      <3>2. PICK j \in 0 .. n : offset = Off(a, j) /\ listed = NamesTo(a, j)
        BY <1>1, <2>2 DEF OwnState
      <3>3. n \in Nat
        BY <1>1, MembersAre
      <3>4. j = n
        <4> SUFFICES ASSUME j # n
                     PROVE  FALSE
          OBVIOUS
        <4> HIDE DEF n
        <4>1. PICK k : k = j + 1
          OBVIOUS
        <4>2. k \in 1 .. n /\ j = k - 1
          BY <3>2, <3>3, <4>1
        <4>3. Off(a, k - 1) < Off(a, n) /\ Off(a, k - 1) \in Int
          BY <1>1, <3>1, <4>2, EntryIs DEF n
        <4>4. Off(a, k - 1) = Off(a, n)
          BY <1>1, <3>1, <3>2, <4>2
        <4> QED  BY <4>3, <4>4
      <3> QED  BY <1>2, <3>1, <3>2, <3>4 DEF OwnState, OwnZip
    <2> QED  BY <1>1, <2>1, <2>2
  <1>4. ZipSteps'
    BY <1>1, <1>2, <1>3 DEF ZipSteps
  <1> QED  BY <1>1, <1>2, <1>4 DEF ZipInv

LEMMA ZipKeeps == ZipInv /\ List!Next => ZipInv'
  <1>1. ZipInv /\ List!ReadFails => ZipInv'
    BY DEF ZipInv, ZipSteps, List!ReadFails
  <1> QED
    BY <1>1, ReadKeeps, FindKeeps, CheckKeeps, CheckDoneKeeps, ListKeeps, ListDoneKeeps
       DEF List!Next

\* The names printed are those of every member, in order and once, however long the
\* archive and wherever in the file it begins: the offsets that zip_read walks are those
\* the archiver wrote, and find_eocdr misses no end record but for one in the comment.
THEOREM EveryMemberIsListed == Spec => []ListsEveryMember
  <1> DEFINE I == program = "zip" => ZipInv
  <1>1. Init => I
    BY ZipStarts DEF Init
  <1>2. I /\ [Next]_vars => I'
    <2> SUFFICES ASSUME I, [Next]_vars, program' = "zip"
                 PROVE  ZipInv'
      OBVIOUS
    <2>1. CASE ListZip
      BY <2>1, ZipKeeps DEF ListZip
    <2>2. CASE UNCHANGED vars
      <3>1. /\ program = "zip"
            /\ UNCHANGED <<archive, pc, file_sz, buf_cap, comment_len, zip, offset, i, listed>>
        BY <2>2 DEF vars, zipVars
      <3> QED
        BY <3>1 DEF ZipInv, ZipSteps, OwnState, OwnZip, InnerState, InnerZip, Refused, List!src
    <2>3. CASE SlideAgain \/ Play \/ AskFiglet \/ Checksum \/ Summarize \/ WriteLog
      BY <2>3 DEF SlideAgain, Play, AskFiglet, Checksum, Summarize, WriteLog
    <2> QED  BY <2>1, <2>2, <2>3 DEF Next
  <1>3. I => ListsEveryMember
    <2> SUFFICES ASSUME ZipInv
                 PROVE  List!ListsEveryMember
      BY DEF ListsEveryMember
    <2>1. archive \in Archives /\ pc # "assert"
      BY DEF ZipInv
    <2>2. DOMAIN archive.members = 1 .. Len(archive.members)
      BY <2>1, MembersAre
    <2>3. List!Names = NamesTo(archive, Len(archive.members))
      BY <2>2 DEF List!Names, NamesTo
    <2>4. pc = "done" /\ archive.comment.inner = 0 => listed = List!Names /\ archive.lost = 0
      BY <2>3 DEF ZipInv, ZipSteps, OwnState, InnerState, InnerZip
    <2>5. pc = "failed" /\ archive.comment.inner = 0 => Refused
      BY DEF ZipInv, ZipSteps
    <2> QED  BY <2>1, <2>4, <2>5 DEF List!ListsEveryMember, Refused
  <1> QED  BY <1>1, <1>2, <1>3, PTL DEF Spec
=============================================================================

--------------------------- MODULE SmallPrograms ---------------------------
(***************************************************************************)
(* The small programs side by side: a behaviour runs one of them, chosen   *)
(* at the start, and the variables of the others stay idle.  The programs  *)
(* have nothing in common; one module checks them in one run of TLC.       *)
(***************************************************************************)
EXTENDS Integers, Sequences, FiniteSetsExt, SequencesExt

CONSTANTS RowSize, RowValues, BoardSize, BoardValues, Goal, MaxComment, FirstCap,
          Archives, MemberNames, MsgBuf, Addresses, PieceSize, PageSize, MaxFile, MaxRows, Numbers, Word, NaN,
          Workers, Owner, NoOne

ASSUME BufferAssumption ==
    MsgBuf \in Nat \ {0} /\ PieceSize \in Nat \ {0} /\ PageSize \in Nat \ {0} /\ MaxFile \in Nat

\* No comment is longer than its length field can say, and an archive may have lost
\* its end.
ASSUME ArchivesAssumption ==
    /\ MaxComment \in Nat /\ FirstCap \in Nat \ {0}
    /\ \A a \in Archives :
          a \in [front : Nat, adjusted : BOOLEAN, single : BOOLEAN, lost : Nat,
                members : Seq([name : MemberNames, more : Nat, comp : Nat, sound : BOOLEAN]),
                comment : [len : 0 .. MaxComment, inner : Nat]]

ASSUME BoardAssumption == BoardSize \in Nat \ {0}
ASSUME RowAssumption == RowSize \in Nat \ {0} /\ RowValues \subseteq Nat

ASSUME NumbersAssumption ==
    Numbers \subseteq Int /\ Word \notin Numbers /\ NaN \notin Numbers

ASSUME ThreadAssumption == Owner \notin Workers /\ NoOne \notin Workers \cup {Owner}

VARIABLES
    program, pc,                                                \* of all
    row, board, result,                                         \* 2048
    archive, file_sz, buf_cap, comment_len, zip, offset, i, listed,
    greeting, answer, tried, wire, peer, buffer, longest, shrunk, whole, shown,
    file, cut, fd, file_size, crc_offset, size, crc, fault,
    table, seen, next_row, count, sum, min_value, max_value, variance,
    initialized, log_fp, lock, destroyed, line, mixed, unflushed, life, overlapped

rowVars   == row
gameVars  == <<board, result>>
zipVars   == <<archive, file_sz, buf_cap, comment_len, zip, offset, i, listed>>
msgVars   == <<greeting, answer, tried, wire, peer, buffer, longest, shrunk, whole, shown>>
crcVars   == <<file, cut, fd, file_size, crc_offset, size, crc, fault>>
statVars  == <<table, seen, next_row, count, sum, min_value, max_value, variance>>
logVars   == <<initialized, log_fp, lock, destroyed, line, mixed, unflushed, life, overlapped>>

vars == <<program, pc, rowVars, gameVars, zipVars, msgVars, crcVars, statVars, logVars>>

\* Up to two characters and a prompt.
Messages == {Append(m, ".") : m \in BoundedSeq({"x", "."}, 2)}

Row   == INSTANCE SlideRow WITH SIZE <- RowSize
Game  == INSTANCE Game2048 WITH SIZE <- BoardSize, Values <- BoardValues
List  == INSTANCE ZipList
Msg   == INSTANCE Figlet WITH BufSize <- MsgBuf
Crc   == INSTANCE Crc32 WITH BUF_SIZE <- PieceSize, Bytes <- {1, 2}, MaxSize <- MaxFile,
                             offset <- crc_offset
Stats == INSTANCE ColumnStats
Log   == INSTANCE Logger

-----------------------------------------------------------------------------
RowIdle   == row = "idle"
GameIdle  == board = "idle" /\ result = "idle"
ZipIdle ==
    /\ archive = "idle" /\ file_sz = "idle" /\ buf_cap = "idle"
    /\ comment_len = "idle" /\ zip = "idle" /\ offset = "idle" /\ i = "idle"
    /\ listed = "idle"
MsgIdle ==
    /\ greeting = "idle" /\ answer = "idle" /\ tried = "idle" /\ wire = "idle"
    /\ peer = "idle" /\ buffer = "idle" /\ longest = "idle" /\ shrunk = "idle"
    /\ whole = "idle" /\ shown = "idle"
CrcIdle ==
    /\ file = "idle" /\ cut = "idle" /\ fd = "idle" /\ file_size = "idle"
    /\ crc_offset = "idle" /\ size = "idle" /\ crc = "idle" /\ fault = "idle"
StatsIdle ==
    /\ table = "idle" /\ seen = "idle" /\ next_row = "idle" /\ count = "idle"
    /\ sum = "idle" /\ min_value = "idle" /\ max_value = "idle"
    /\ variance = "idle"
LogIdle ==
    /\ initialized = "idle" /\ log_fp = "idle" /\ lock = "idle" /\ destroyed = "idle"
    /\ line = "idle" /\ mixed = "idle" /\ unflushed = "idle" /\ life = "idle"
    /\ overlapped = "idle"

Init ==
    \/ program = "row" /\ pc = "idle" /\ row \in [1 .. RowSize -> RowValues]
       /\ GameIdle /\ ZipIdle /\ MsgIdle /\ CrcIdle /\ StatsIdle /\ LogIdle
    \/ program = "game" /\ pc = "idle" /\ Game!Init
       /\ RowIdle /\ ZipIdle /\ MsgIdle /\ CrcIdle /\ StatsIdle /\ LogIdle
    \/ program = "zip" /\ List!Init
       /\ RowIdle /\ GameIdle /\ MsgIdle /\ CrcIdle /\ StatsIdle /\ LogIdle
    \/ program = "msg" /\ Msg!Init
       /\ RowIdle /\ GameIdle /\ ZipIdle /\ CrcIdle /\ StatsIdle /\ LogIdle
    \/ program = "crc" /\ Crc!Init
       /\ RowIdle /\ GameIdle /\ ZipIdle /\ MsgIdle /\ StatsIdle /\ LogIdle
    \/ program = "stats" /\ Stats!Init
       /\ RowIdle /\ GameIdle /\ ZipIdle /\ MsgIdle /\ CrcIdle /\ LogIdle
    \/ program = "log" /\ Log!Init
       /\ RowIdle /\ GameIdle /\ ZipIdle /\ MsgIdle /\ CrcIdle /\ StatsIdle

\* A player who only ever presses one key.
SlideAgain ==
    /\ program = "row" /\ Row!Moved(row) /\ row' = Row!SlideAndMergeRow(row)
    /\ UNCHANGED <<program, pc, gameVars, zipVars, msgVars, crcVars, statVars, logVars>>

Play ==
    /\ program = "game" /\ Game!Next
    /\ UNCHANGED <<program, pc, rowVars, zipVars, msgVars, crcVars, statVars, logVars>>

ListZip ==
    /\ program = "zip" /\ List!Next
    /\ UNCHANGED <<program, rowVars, gameVars, msgVars, crcVars, statVars, logVars>>

AskFiglet ==
    /\ program = "msg" /\ Msg!Next
    /\ UNCHANGED <<program, rowVars, gameVars, zipVars, crcVars, statVars, logVars>>

Checksum ==
    /\ program = "crc" /\ Crc!Next
    /\ UNCHANGED <<program, rowVars, gameVars, zipVars, msgVars, statVars, logVars>>

Summarize ==
    /\ program = "stats" /\ Stats!Next
    /\ UNCHANGED <<program, rowVars, gameVars, zipVars, msgVars, crcVars, logVars>>

WriteLog ==
    /\ program = "log" /\ Log!Next
    /\ UNCHANGED <<program, rowVars, gameVars, zipVars, msgVars, crcVars, statVars>>

Next == SlideAgain \/ Play \/ ListZip \/ AskFiglet \/ Checksum \/ Summarize \/ WriteLog

Spec == Init /\ [][Next]_vars

-----------------------------------------------------------------------------
\* slideAndMergeRow moves and merges the tiles by the rule of the game: each
\* tile merges at most once in a move, and the tiles nearest to the wall first.
\* The result that decides whether the player gets a new tile is true exactly
\* when that has changed the row.
SlidesByTheRule ==
    program = "row" =>
       /\ Row!SlideAndMergeRow(row) = Row!Rule(row)
       /\ Row!Moved(row) <=> Row!Rule(row) # row

\* canMove of 2048 agrees with what the four moves do: see Game2048.
CanMoveIsRight == program = "game" => Game!CanMoveIsRight

\* The board of 2048 changes only by a key that moves something, and then by
\* exactly one tile, a 2 or a 4, besides: see Game2048.
OneTilePerMove == [][Game!TileIsEarned]_vars

\* list_zip names the members of every archive that it accepts: see ZipList.
ListsEveryMember == program = "zip" => List!ListsEveryMember

\* When the figlet client waits in vain and what it prints: see Figlet.
FramingHolds == program = "msg" => Msg!FramingHolds

\* What the checksum of crc32 is a checksum of: see Crc32.
ChecksumOfAPrefix == program = "crc" => Crc!ChecksumOfAPrefix

\* Of which tables the moments of a column are: see ColumnStats.
MomentsOfOneTable == program = "stats" => Stats!MomentsOfOneTable

\* Lines of several threads do not get into each other, and what a call has
\* written is in the file, until a cleanup has destroyed the mutex: see Logger.
LogIsWhole == program = "log" => Log!LogIsWhole

\* Only a call that a cleanup has overlapped uses a closed file: see Logger.
OnlyOverlapUsesClosed == program = "log" => Log!OnlyOverlapUsesClosed
=============================================================================

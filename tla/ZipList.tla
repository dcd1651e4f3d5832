------------------------------- MODULE ZipList -------------------------------
(***************************************************************************)
(* list_zip of HW01-Zipjpeg/src: read the file, find the end of the        *)
(* archive from its back, check every member and print their names.  A     *)
(* file is a sequence of cells: the fixed part of a record is one, every   *)
(* byte of a name, a comment, the data or the JPEG in front is one.        *)
(***************************************************************************)
EXTENDS Integers, Sequences, SequencesExt

CONSTANTS
    Archives,   \* what the files were made from: see Layout
    MaxComment, \* UINT16_MAX, the longest comment that is tried
    FirstCap    \* 4096, the first size of the buffer for the file

VARIABLES
    archive,    \* the input
    pc,         \* "read", "find", "check", "list", "done"; "error" of a call, "failed"
                \* to parse, or a failed "assert"
    file_sz, buf_cap,
    comment_len, \* what find_eocdr tries
    zip,        \* where the archive begins in the file, and the fields of zip_t
    offset, i,  \* the loop of zip_read, and of list_zip
    listed      \* the names printed

vars == <<archive, pc, file_sz, buf_cap, comment_len, zip, offset, i, listed>>

-----------------------------------------------------------------------------
(* What archivers write: [front, members, comment, adjusted, single, lost],  *)
(* with members of [name, more, comp, sound].  Offsets count from the front  *)
(* of the file if they are adjusted, else from the first member; a part of   *)
(* several volumes is not single; the last cells of the file may be lost.    *)

Byte     == [rec |-> "byte"]
Bytes(n) == [k \in 1 .. n |-> Byte]

Local(m)   == <<[rec |-> "lfh", len |-> 1]>> \o Bytes(1 + m.comp)
Start(a)   == IF a.adjusted THEN a.front ELSE 0
Locals(a)  == FlattenSeq([k \in DOMAIN a.members |-> Local(a.members[k])])
LfhOf(a, k) == Start(a) + Len(FlattenSeq([j \in 1 .. k - 1 |-> Local(a.members[j])]))
Central(a, k) ==
    LET m == a.members[k]
    IN  <<[rec |-> "cfh", name |-> m.name, len |-> 1 + m.more, comp_size |-> m.comp,
           sound |-> m.sound, lfh_offset |-> LfhOf(a, k)]>> \o Bytes(1 + m.more)
Directory(a) == FlattenSeq([k \in DOMAIN a.members |-> Central(a, k)])

EndRecord(n, size, start, comment, single) ==
    [rec |-> "eocdr", cd_entries |-> n, cd_size |-> size, cd_offset |-> start,
     comment_len |-> comment, single |-> single]
\* A comment of n bytes, of which one may be the end record of an archive of its
\* own, with its own comment behind it.
Comment(c) ==
    [k \in 1 .. c.len |-> IF k = c.inner THEN EndRecord(0, 0, 0, c.len - k, TRUE) ELSE Byte]

Layout(a) ==
    LET whole == Bytes(a.front) \o Locals(a) \o Directory(a)
                 \o <<EndRecord(Len(a.members), Len(Directory(a)),
                                Start(a) + Len(Locals(a)), a.comment.len, a.single)>>
                 \o Comment(a.comment)
    IN  SubSeq(whole, 1, Len(whole) - a.lost)

src     == Layout(archive)
src_len == file_sz

-----------------------------------------------------------------------------
(* The parsers, on the archive's own offsets.                              *)

Cell(off)  == src[zip.base + off + 1]

\* read_cfh and read_lfh: a record of this sort with room for what follows it.
ReadRecord(sort, off) ==
    /\ off < zip.src_len
    /\ Cell(off).rec = sort
    /\ zip.src_len - off - 1 >= Cell(off).len

Size(off)  == 1 + Cell(off).len
\* Where zip_read and zip_member go on.
NextEntry(off) == off + Size(off)

\* Lines 176 to 204: everything zip_read asks of one entry.
Accepts(off) ==
    /\ ReadRecord("cfh", off)
    /\ Cell(off).sound
    /\ ReadRecord("lfh", Cell(off).lfh_offset)
    /\ Cell(off).comp_size <=
          zip.src_len - (Cell(off).lfh_offset + Size(Cell(off).lfh_offset))

Init ==
    /\ archive \in Archives
    /\ pc = "read" /\ file_sz = 0 /\ buf_cap = FirstCap
    /\ comment_len = 0
    /\ zip = [base |-> 0, src_len |-> 0, num_members |-> 0, begin |-> 0, end |-> 0]
    /\ offset = 0 /\ i = 0 /\ listed = <<>>

\* One turn of the loop of read_file: fread takes what there is or what fits, and
\* the end of the file shows only when it had wanted more.
ReadFile ==
    /\ pc = "read"
    /\ LET cap  == IF buf_cap = file_sz THEN 2 * buf_cap ELSE buf_cap
           left == Len(src) - file_sz
           n    == IF left < cap - file_sz THEN left ELSE cap - file_sz
       IN  /\ file_sz' = file_sz + n /\ buf_cap' = cap
           /\ pc' = IF n < cap - file_sz THEN "find" ELSE "read"
    /\ UNCHANGED <<archive, comment_len, zip, offset, i, listed>>

ReadFails ==
    /\ pc = "read"
    /\ pc' = "error"
    /\ UNCHANGED <<archive, file_sz, buf_cap, comment_len, zip, offset, i, listed>>

\* A slip: any end record will do.
AnyRecord(off, c) == src[off + 1].rec = "eocdr"
IsEnd(off, c) == src[off + 1].rec = "eocdr" /\ src[off + 1].comment_len = c

\* One turn of find_eocdr, and the first lines of zip_read after the last one.
\* Offset 0 means that nothing was found.
FindEocdr ==
    /\ pc = "find"
    /\ LET off == src_len - 1 - comment_len
           r   == src[off + 1]
       IN  IF comment_len > MaxComment \/ src_len < 1 + comment_len
             THEN pc' = "failed" /\ UNCHANGED <<zip, offset, comment_len>>
           ELSE IF ~IsEnd(off, comment_len)
             THEN comment_len' = comment_len + 1 /\ UNCHANGED <<pc, zip, offset>>
           ELSE IF off = 0 \/ ~r.single
             THEN pc' = "failed" /\ UNCHANGED <<zip, offset, comment_len>>
           ELSE /\ LET len == r.cd_offset + r.cd_size + src_len - off
                   IN  zip' = [base |-> src_len - len, src_len |-> len,
                               num_members |-> r.cd_entries,
                               begin |-> r.cd_offset, end |-> 0]
                /\ offset' = r.cd_offset
                /\ pc' = "check" /\ UNCHANGED comment_len
    /\ UNCHANGED <<archive, file_sz, buf_cap, i, listed>>

CheckMember ==
    /\ pc = "check" /\ i < zip.num_members
    /\ IF Accepts(offset)
         THEN i' = i + 1 /\ offset' = NextEntry(offset) /\ UNCHANGED pc
         ELSE pc' = "failed" /\ UNCHANGED <<i, offset>>
    /\ UNCHANGED <<archive, file_sz, buf_cap, comment_len, zip, listed>>

CheckDone ==
    /\ pc = "check" /\ i = zip.num_members
    /\ zip' = [zip EXCEPT !.end = offset]
    /\ offset' = zip.begin /\ pc' = "list"
    /\ UNCHANGED <<archive, file_sz, buf_cap, comment_len, i, listed>>

\* zip_member, with its assertions, and the loop of list_zip around it.
ListMember ==
    /\ pc = "list" /\ offset # zip.end
    /\ IF /\ offset >= zip.begin /\ offset < zip.end
          /\ ReadRecord("cfh", offset)
          /\ ReadRecord("lfh", Cell(offset).lfh_offset)
          /\ NextEntry(offset) <= zip.end
         THEN /\ listed' = Append(listed, Cell(offset).name)
              /\ offset' = NextEntry(offset) /\ UNCHANGED pc
         ELSE pc' = "assert" /\ UNCHANGED <<listed, offset>>
    /\ UNCHANGED <<archive, file_sz, buf_cap, comment_len, zip, i>>

ListDone ==
    /\ pc = "list" /\ offset = zip.end
    /\ pc' = "done"
    /\ UNCHANGED <<archive, file_sz, buf_cap, comment_len, zip, offset, i, listed>>

Next == \/ ReadFile \/ ReadFails \/ FindEocdr
        \/ CheckMember \/ CheckDone \/ ListMember \/ ListDone

Spec == Init /\ [][Next]_vars

-----------------------------------------------------------------------------
(* Properties.                                                             *)

Names == [k \in DOMAIN archive.members |-> archive.members[k].name]

\* What the program prints of a file that zip_read accepts are the names of the
\* members, in order and once, whatever stands in front and however the offsets
\* count, and no assertion of zip_member fails.  It accepts every whole archive
\* of members it can handle, but for one without members and with nothing in front, whose
\* end record is at offset 0; only a comment that holds an end record misleads it.
ListsEveryMember ==
    /\ pc # "assert"
    /\ archive.comment.inner = 0 =>
          /\ pc = "done" => listed = Names /\ archive.lost = 0
          /\ pc = "failed" => \/ archive.lost > 0
                              \/ \E k \in DOMAIN archive.members : ~archive.members[k].sound
                              \/ ~archive.single
                              \/ archive.members = <<>> /\ archive.front = 0
=============================================================================

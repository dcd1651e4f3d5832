-------------------------- MODULE MCSmallPrograms --------------------------
(* Constants that a cfg cannot write.                                       *)
EXTENDS SmallPrograms

\* Numbers of both signs and zero.
MCNumbers == {-1, 0, 2}

\* Archives with up to two members, with a front and without, offsets of both
\* sorts, in one volume or not, a cell of the end lost or not, and a comment of
\* any allowed length that may hold an end record.
Members    == [name : MemberNames, more : 0 .. 1, comp : 0 .. 1, sound : BOOLEAN]
Comments   == {c \in [len : 0 .. MaxComment, inner : 0 .. MaxComment] : c.inner <= c.len}
MCArchives == [front : 0 .. 1, members : BoundedSeq(Members, 2), adjusted : BOOLEAN,
               single : BOOLEAN, lost : 0 .. 1, comment : Comments]
=============================================================================

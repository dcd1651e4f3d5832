---------------------------- MODULE MCLogParser ----------------------------
(* Instances of LogParser for TLC.                                         *)
EXTENDS LogParser, TLC

CONSTANTS fa, fb, fc, fd, sub, u, v, r, s

Got(p, n, ref) == [get |-> TRUE, url |-> p, size |-> n, ref |-> ref]
Bad == [get |-> FALSE, url |-> u, size |-> 0, ref |-> NoRef]

\* fc cannot be opened.
MCLines == fa :> <<Got(u, 1, r), Bad, Got(v, 2, s)>>
        @@ fb :> <<Got(u, 2, s), Got(v, 0, NoRef)>>
        @@ fc :> <<>>
        @@ fd :> <<Got(v, 3, s)>>

MCRegular == {fa, fb, fc, fd}

\* Two urls whose weights differ by more than the largest int of three bits.
FarLines == fa :> <<Got(u, 1, r), Got(v, 5, s)>>
FarRegular == {fa}
=============================================================================

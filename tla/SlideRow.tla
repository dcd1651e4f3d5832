------------------------------ MODULE SlideRow ------------------------------
(***************************************************************************)
(* slideAndMergeRow of HW17-2048/src/main.c, the algorithm behind every    *)
(* move of the game, and the rule of the game that it should follow.  A    *)
(* row is a sequence of SIZE numbers, 0 for an empty cell.                 *)
(***************************************************************************)
EXTENDS Naturals, Sequences, FiniteSets, FiniteSetsExt, SequencesExt

CONSTANT SIZE       \* at least 1

Cells == 1 .. SIZE

\* Lines 76 to 81 and 93 to 97: what is not 0 goes to the next cell from the left.
Keep(temp, v) == IF v # 0 THEN Append(temp, v) ELSE temp
Tiles(row)    == FoldLeft(Keep, <<>>, row)
Pad(s)        == s \o [k \in 1 .. SIZE - Len(s) |-> 0]

\* Lines 83 to 89: from left to right a tile takes in its right neighbour, and
\* leaves a hole there, so that a merged tile does not merge again.
MergeAt(temp, i) ==
    IF temp[i] # 0 /\ temp[i] = temp[i + 1]
      THEN [temp EXCEPT ![i] = 2 * @, ![i + 1] = 0] ELSE temp

\* A slip: from right to left.
FromTheRight(temp) ==
    FoldLeft(MergeAt, temp, [i \in 1 .. SIZE - 1 |-> SIZE - i])

Merged(temp) == FoldLeft(MergeAt, temp, [i \in 1 .. SIZE - 1 |-> i])

SlideAndMergeRow(row) == Pad(Tiles(Merged(Pad(Tiles(row)))))

\* The result of the function: something has merged or a cell has changed.
Moved(row) ==
    \/ Merged(Pad(Tiles(row))) # Pad(Tiles(row))
    \/ SlideAndMergeRow(row) # row

-----------------------------------------------------------------------------
(* The rule of the game, without the loops: in every run of equal tiles    *)
(* the first merges with the second, the third with the fourth and so on,  *)
(* and what is left moves to the left.                                     *)

\* How many tiles there are up to cell k, and the row with the n-th tile in cell n.
TilesTo(row, k) == Cardinality({j \in 1 .. k : row[j] # 0})
Packed(row) ==
    [n \in Cells |->
        LET nth == {k \in Cells : row[k] # 0 /\ TilesTo(row, k) = n}
        IN  IF nth = {} THEN 0 ELSE row[CHOOSE k \in nth : TRUE]]

Offset(s, k) == k - Min({j \in 1 .. k : \A m \in j .. k : s[m] = s[k]})
Leads(s, k)  == Offset(s, k) % 2 = 0
Grown(s, k)  == IF k < SIZE /\ s[k + 1] = s[k] THEN 2 * s[k] ELSE s[k]

Rule(row) ==
    LET s == Packed(row)
    IN  Packed([k \in Cells |-> IF Leads(s, k) THEN Grown(s, k) ELSE 0])
=============================================================================

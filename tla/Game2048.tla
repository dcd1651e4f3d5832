------------------------------ MODULE Game2048 ------------------------------
(***************************************************************************)
(* gameLoop of HW17-2048/src/main.c: the board, the four moves, the random *)
(* tile after each move that changes the board, and the two tests that end *)
(* a game.                                                                 *)
(***************************************************************************)
EXTENDS SlideRow

CONSTANTS
    Values,     \* what a cell may hold: 0 and the powers of two up to Goal
    Goal        \* 2048

VARIABLES
    board,      \* the number in each cell, <<row, column>>
    result      \* "none" while the loop runs, "won" or "lost" after it

vars == <<board, result>>

Grid == Cells \X Cells

Keys == {"a", "d", "w", "s"}

\* moveLeft, moveRight, moveUp and moveDown hand the board to slideAndMergeRow
\* line by line: the cell at position n of the k-th line, and the line and the
\* position of a cell.
Cell(key, k, n) ==
    CASE key = "a" -> <<k, n>>
      [] key = "d" -> <<k, SIZE + 1 - n>>
      [] key = "w" -> <<n, k>>
      [] key = "s" -> <<SIZE + 1 - n, k>>

Place(key, c) ==
    CASE key = "a" -> <<c[1], c[2]>>
      [] key = "d" -> <<c[1], SIZE + 1 - c[2]>>
      [] key = "w" -> <<c[2], c[1]>>
      [] key = "s" -> <<c[2], SIZE + 1 - c[1]>>

Line(b, key, k) == [n \in Cells |-> b[Cell(key, k, n)]]

\* The four functions: the board they leave and what they return.
Shift(key, b) ==
    [c \in Grid |-> LET p == Place(key, c) IN SlideAndMergeRow(Line(b, key, p[1]))[p[2]]]
AnyKey(key, b) == TRUE      \* a slip: the result of the four is not looked at
ShiftMoved(key, b) == \E k \in Cells : Moved(Line(b, key, k))

\* addRandomTile: the boards it may make of b, which is b itself when full.
Empty(b) == {c \in Grid : b[c] = 0}
WithTile(b) ==
    IF Empty(b) = {} THEN {b}
    ELSE {[c \in Grid |-> IF c = e THEN v ELSE b[c]] : e \in Empty(b), v \in {2, 4}}

\* A slip: the last neighbours left out.
NotTheLast(b) ==
    \E i, j \in Cells :
       \/ b[<<i, j>>] = 0
       \/ j < SIZE - 1 /\ b[<<i, j>>] = b[<<i, j + 1>>]
       \/ i < SIZE - 1 /\ b[<<i, j>>] = b[<<i + 1, j>>]

CheckWin(b) == \E c \in Grid : b[c] = Goal

CanMove(b) ==
    \E i, j \in Cells :
       \/ b[<<i, j>>] = 0
       \/ j < SIZE /\ b[<<i, j>>] = b[<<i, j + 1>>]
       \/ i < SIZE /\ b[<<i, j>>] = b[<<i + 1, j>>]

Init ==
    /\ \E b \in WithTile([c \in Grid |-> 0]) : board \in WithTile(b)
    /\ result = "none"

Win ==
    /\ result = "none" /\ CheckWin(board)
    /\ result' = "won"
    /\ UNCHANGED board

Lose ==
    /\ result = "none" /\ ~CheckWin(board) /\ ~CanMove(board)
    /\ result' = "lost"
    /\ UNCHANGED board

\* A key that moves nothing, like any other key, leaves the board as it is.
Press(key) ==
    /\ result = "none" /\ ~CheckWin(board) /\ CanMove(board)
    /\ board' \in IF ShiftMoved(key, board) THEN WithTile(Shift(key, board))
                                            ELSE {Shift(key, board)}
    /\ UNCHANGED result

Next == Win \/ Lose \/ \E key \in Keys : Press(key)

Spec == Init /\ [][Next]_vars

-----------------------------------------------------------------------------
(* Properties.                                                             *)

Sum(b) == FoldFunction(LAMBDA v, total : v + total, 0, b)

TypeOK ==
    /\ board \in [Grid -> Values]
    /\ result \in {"none", "won", "lost"}

\* canMove says exactly whether one of the four keys changes the board: a game
\* is neither given up while there is a move nor asks for one that is not there.
CanMoveIsRight ==
    ~CheckWin(board) =>
       (CanMove(board) <=> \E key \in Keys : Shift(key, board) # board)

\* d is b with one new tile.
OneMore(b, d) ==
    \E c \in Grid : /\ b[c] = 0 /\ d[c] \in {2, 4}
                    /\ \A e \in Grid \ {c} : d[e] = b[e]

\* The board changes only by a key that moves something, and then has exactly
\* one new tile, a 2 or a 4, on what that key leaves: the tests of
\* slideAndMergeRow find every change and no other, there is room for the tile,
\* and no move loses or makes a number of its own.
TileIsEarned ==
    board' # board =>
       \E key \in Keys :
          /\ Shift(key, board) # board /\ OneMore(Shift(key, board), board')
          /\ Sum(Shift(key, board)) = Sum(board)
OneTilePerMove == [][TileIsEarned]_vars

=============================================================================

---------------------------- MODULE ColumnStats ----------------------------
(***************************************************************************)
(* HW15-DB/src/main.c: the moments of a column of a SQLite table, from two *)
(* queries that are two transactions.  Each sees one committed table, and  *)
(* another process may commit a new one between them.  Numbers are whole,  *)
(* and the variance is kept as count^3 times its value.                    *)
(***************************************************************************)
EXTENDS Integers, Sequences, SequencesExt, FiniteSetsExt

CONSTANTS
    Numbers,    \* what a cell may hold, if it is a number
    MaxRows,    \* of a table
    Word,       \* any cell that is none: parse_number makes NaN of it, and of NULL
    NaN

VARIABLES
    table,      \* what is committed: a sequence of cells
    pc,         \* "open", "first", "second", "none", "shown", "error"
    seen,       \* the tables that the queries have seen
    next_row,   \* of the query that runs
    count, sum, min_value, max_value, variance

vars == <<table, pc, seen, next_row, count, sum, min_value, max_value, variance>>

Tables == BoundedSeq(Numbers \cup {Word}, MaxRows)

Init ==
    /\ table \in Tables
    /\ pc = "open" /\ seen = <<>> /\ next_row = 1
    /\ count = 0 /\ sum = 0 /\ min_value = NaN /\ max_value = NaN /\ variance = 0

\* sqlite3_exec begins to read, unless it or sqlite3_open fails.
Query(pass) ==
    \/ pc' = pass /\ seen' = Append(seen, table) /\ next_row' = 1
    \/ pc' = "error" /\ UNCHANGED <<seen, next_row>>

Begin ==
    /\ pc = "open"
    /\ Query("first")
    /\ UNCHANGED <<table, count, sum, min_value, max_value, variance>>

Row     == seen[Len(seen)][next_row]
HasRow  == next_row <= Len(seen[Len(seen)])

\* A slip: the first value is the least whatever comes.
KeepsFirst(old, v)  == old = NaN
IsLess(old, v)      == old = NaN \/ old > v
IsGreater(old, v)   == old = NaN \/ old < v

FirstPassCallback ==
    /\ pc = "first" /\ HasRow
    /\ IF Row = Word
         THEN UNCHANGED <<count, sum, min_value, max_value>>
         ELSE /\ count' = count + 1 /\ sum' = sum + Row
              /\ min_value' = IF IsLess(min_value, Row) THEN Row ELSE min_value
              /\ max_value' = IF IsGreater(max_value, Row) THEN Row ELSE max_value
    /\ next_row' = next_row + 1
    /\ UNCHANGED <<table, pc, seen, variance>>

BetweenPasses ==
    /\ pc = "first" /\ ~HasRow
    /\ IF count = 0
         THEN pc' = "none" /\ UNCHANGED <<seen, next_row>>
         ELSE Query("second")
    /\ UNCHANGED <<table, count, sum, min_value, max_value, variance>>

SecondPassCallback ==
    /\ pc = "second" /\ HasRow
    /\ variance' = IF Row = Word THEN variance
                   ELSE LET diff == count * Row - sum IN variance + diff * diff
    /\ next_row' = next_row + 1
    /\ UNCHANGED <<table, pc, seen, count, sum, min_value, max_value>>

Report ==
    /\ pc = "second" /\ ~HasRow
    /\ pc' = "shown"
    /\ UNCHANGED <<table, seen, next_row, count, sum, min_value, max_value, variance>>

\* A query that has begun may still fail.
QueryFails ==
    /\ pc \in {"first", "second"}
    /\ pc' = "error"
    /\ UNCHANGED <<table, seen, next_row, count, sum, min_value, max_value, variance>>

\* Another process commits a table of its own; before the first query begins and
\* after the second has begun that shows nowhere.
Commit ==
    /\ pc = "first"
    /\ table' \in Tables
    /\ UNCHANGED <<pc, seen, next_row, count, sum, min_value, max_value, variance>>

Next == \/ Begin \/ FirstPassCallback \/ BetweenPasses \/ SecondPassCallback
        \/ Report \/ QueryFails \/ Commit

Spec == Init /\ [][Next]_vars

-----------------------------------------------------------------------------
(* Properties.                                                             *)

NumbersIn(t) == {t[k] : k \in {k \in DOMAIN t : t[k] # Word}}

\* What the numbers among the first rows of a table add up to, with the worth of each.
Sums(worth, t) ==
    LET sums[n \in 0 .. Len(t)] ==
          IF n = 0 THEN 0
          ELSE sums[n - 1] + IF t[n] = Word THEN 0 ELSE worth[t[n]]
    IN  sums

One    == [v \in Numbers |-> 1]
Itself == [v \in Numbers |-> v]
Square == [v \in Numbers |-> v * v]

Count(t)      == Sums(One, t)[Len(t)]
Sum(t)        == Sums(Itself, t)[Len(t)]
SumSquares(t) == Sums(Square, t)[Len(t)]

\* What is shown are the moments of the first table, but for the variance: it is
\* the mean square of the values of the second one about the mean of the first, and so the
\* mean square less the square of the mean if both queries have seen the same
\* table.  A column is said to hold no number only if it held none.
MomentsOfOneTable ==
    /\ pc = "shown" =>
          LET s == seen[1]
              t == seen[2]
          IN  /\ count = Count(s) /\ sum = Sum(s)
              /\ min_value = Min(NumbersIn(s)) /\ max_value = Max(NumbersIn(s))
              /\ variance = count * count * SumSquares(t)
                           - 2 * count * sum * Sum(t) + Count(t) * sum * sum
              /\ s = t => variance = count * (count * SumSquares(s) - sum * sum)
    /\ pc = "none" => NumbersIn(seen[1]) = {}
=============================================================================

-------------------------------- MODULE Hash --------------------------------
(***************************************************************************)
(* The word counter of HW03-Hash: main.c reads the words of a file one by  *)
(* one and counts them in the open-addressing table of hash.c.  A read or  *)
(* a write outside the array of the table ends the model in "overrun".     *)
(* remove_element is never called and is left out.                         *)
(***************************************************************************)
EXTENDS Integers, FiniteSets

CONSTANTS
    Words,
    HashString,         \* hash_string: negative where the sum overflows
    InitCapacity,       \* 10
    LoadNum, LoadDen,   \* load, 7 / 10
    MaxReads,           \* bound: the words of the file
    Null

ASSUME TableAssumption ==
    /\ IsFiniteSet(Words) /\ HashString \in [Words -> Int]
    /\ InitCapacity \in Nat \ {0} /\ MaxReads \in Nat
    /\ LoadNum \in Nat /\ LoadDen \in Nat /\ LoadNum < LoadDen
    /\ LoadDen <= LoadNum * InitCapacity    \* room for one word at least
    /\ Null \notin [key : Words, value : Nat]

VARIABLES
    pc,         \* main: "read", "done" or "overrun"
    elements,   \* table->elements, on 0 .. capacity - 1
    capacity, size,
    seen,       \* how often each word has been read so far
    reads       \* how many words that is in all

table == <<elements, capacity, size>>
vars  == <<pc, table, seen, reads>>

Cells(cap) == 0 .. cap - 1
Used       == {n \in Cells(capacity) : elements[n] # Null}

\* The remainder of C, which has the sign of its left operand.
Home(w, cap) == IF HashString[w] >= 0 THEN HashString[w] % cap
                                      ELSE -((-HashString[w]) % cap)

\* A slip: keys compared as pointers, which never are the same.
ComparesPointers(n, w) == elements[n] = Null

\* Where get_element stops: at the word or at the first free cell from its home
\* on, towards the end of the array and beyond it.
Stops(n, w) == elements[n] = Null \/ elements[n].key = w
Found(w) ==
    {n \in Cells(capacity) :
        /\ 0 <= Home(w, capacity) /\ Home(w, capacity) <= n
        /\ Stops(n, w)
        /\ \A m \in Home(w, capacity) .. n - 1 : ~Stops(m, w)}

\* Where add_element stops: at the first free cell, from the home round.
Free(w) ==
    LET at(d) == (Home(w, capacity) + d) % capacity
    IN  {at(d) : d \in {d \in Cells(capacity) :
                          /\ elements[at(d)] = Null
                          /\ \A k \in Cells(d) : elements[at(k)] # Null}}

\* A slip: a table that may fill up.
WhenFull(sz, cap) == sz > cap

IsRehashRequired(sz, cap) == sz * LoadDen > LoadNum * cap

\* A slip: an array the old one is copied into.
CopiedOver(elems, cap) ==
    [n \in Cells(2 * cap) |-> IF n < cap THEN elems[n] ELSE Null]

\* rehash does not probe: of the elements with one home in the new array only
\* the last one is left.
Rehashed(elems, cap) ==
    LET at(n) == {m \in Cells(cap) : elems[m] # Null /\ Home(elems[m].key, 2 * cap) = n}
    IN  [n \in Cells(2 * cap) |->
            IF at(n) = {} THEN Null
            ELSE elems[CHOOSE m \in at(n) : \A k \in at(n) : k <= m]]

Init ==
    /\ pc       = "read"
    /\ capacity = InitCapacity
    /\ elements = [n \in Cells(InitCapacity) |-> Null]
    /\ size     = 0
    /\ seen     = [w \in Words |-> 0]
    /\ reads    = 0

Read(w) ==
    /\ pc = "read" /\ reads < MaxReads
    /\ reads' = reads + 1
    /\ seen'  = [seen EXCEPT ![w] = @ + 1]

\* get_element walks past the end of the array.
Overrun(w) ==
    /\ Read(w)
    /\ Found(w) = {}
    /\ pc' = "overrun"
    /\ UNCHANGED table

Count(w) ==
    /\ Read(w)
    /\ \E n \in Found(w) :
          /\ elements[n] # Null
          /\ elements' = [elements EXCEPT ![n].value = @ + 1]
    /\ UNCHANGED <<pc, capacity, size>>

\* add_element, with the rehash at its end, which may store outside the array.
AddElement(w) ==
    /\ Read(w)
    /\ \E n \in Found(w) : elements[n] = Null
    /\ size' = size + 1
    /\ \E n \in Free(w) :
          LET added == [elements EXCEPT ![n] = [key |-> w, value |-> 1]] IN
          IF ~IsRehashRequired(size', capacity)
            THEN elements' = added /\ UNCHANGED <<pc, capacity>>
          ELSE /\ elements' = Rehashed(added, capacity)
               /\ capacity' = 2 * capacity
               /\ pc' = IF \E m \in Cells(capacity) : added[m] # Null
                              /\ Home(added[m].key, 2 * capacity) < 0
                          THEN "overrun" ELSE pc

EndOfFile ==
    /\ pc = "read"
    /\ pc' = "done"
    /\ UNCHANGED <<table, seen, reads>>

Next ==
    \/ \E w \in Words : Overrun(w) \/ Count(w) \/ AddElement(w)
    \/ EndOfFile

Spec == Init /\ [][Next]_vars

-----------------------------------------------------------------------------
(* Properties.                                                             *)

TypeOK ==
    /\ pc \in {"read", "done", "overrun"}
    /\ capacity \in Nat \ {0}
    /\ elements \in [Cells(capacity) -> [key : Words, value : Nat] \cup {Null}]
    /\ size \in Nat
    /\ seen \in [Words -> Nat]
    /\ reads \in 0 .. MaxReads

\* The loop of add_element ends: between two calls there is a free cell, also
\* after rehashes that have lost elements which size still counts.
ProbeEnds ==
    /\ Cardinality(Used) <= size
    /\ size * LoadDen <= LoadNum * capacity

\* What is in the table is found where it is, although add_element walks round
\* the end of the array and get_element does not, and so no word has a second
\* element.
FoundWhereStored ==
    pc # "overrun" => \A n \in Used : Found(elements[n].key) = {n}

\* A word is never counted more often than it was read, and less often only
\* after a rehash in which it shared its new home with another word.
Collide(w, v) ==
    \E cap \in {InitCapacity * 2^k : k \in 1 .. reads} :
       cap <= capacity /\ Home(w, cap) = Home(v, cap)
CountOf(w) == {elements[n].value : n \in {m \in Used : elements[m].key = w}}
CountsAreRight ==
    pc # "overrun" => \A w \in Words :
       LET counts == IF CountOf(w) = {} THEN {0} ELSE CountOf(w) IN
       \/ counts = {seen[w]}
       \/ /\ \A k \in counts : k < seen[w]
          /\ \E v \in Words \ {w} : seen[v] > 0 /\ Collide(w, v)

=============================================================================

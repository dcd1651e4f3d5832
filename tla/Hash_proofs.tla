---------------------------- MODULE Hash_proofs ----------------------------
(* Proofs about Hash, for any words, any hashes of them, negative ones      *)
(* included, any first capacity, any load and any length of the file.       *)
EXTENDS Hash, FiniteSetTheorems, WellFoundedInduction, TLAPS

USE TableAssumption

-----------------------------------------------------------------------------
(* Arithmetic.                                                             *)

\* A remainder is below its divisor, and a number below it is its own.
LEMMA Remainder ==
    \A k \in Nat, n \in Nat \ {0} : k % n \in 0 .. n - 1 /\ (k < n => k % n = k)
<1> SUFFICES ASSUME NEW k \in Nat, NEW n \in Nat \ {0}
             PROVE  k % n \in 0 .. n - 1 /\ (k < n => k % n = k)
  OBVIOUS
<1>1. k % n \in 0 .. n - 1
  OBVIOUS
<1>2. k < n => k % n = k
  OBVIOUS
<1>3. QED
  BY <1>1, <1>2

LEMMA HomeType ==
    \A w \in Words, cap \in Nat \ {0} : Home(w, cap) \in Int /\ Home(w, cap) < cap
<1> SUFFICES ASSUME NEW w \in Words, NEW cap \in Nat \ {0}
             PROVE  Home(w, cap) \in Int /\ Home(w, cap) < cap
  OBVIOUS
<1>1. HashString[w] \in Int
  OBVIOUS
<1>2. CASE HashString[w] >= 0
  <2>1. HashString[w] % cap \in 0 .. cap - 1
    BY <1>1, <1>2, Remainder
  <2>2. QED
    BY <1>2, <2>1 DEF Home
<1>3. CASE ~(HashString[w] >= 0)
  <2>1. (-HashString[w]) % cap \in 0 .. cap - 1
    BY <1>1, <1>3, Remainder
  <2>2. Home(w, cap) = -((-HashString[w]) % cap)
    BY <1>3 DEF Home
  <2>3. QED
    BY <2>1, <2>2
<1>4. QED
  BY <1>2, <1>3

\* The natural numbers are well ordered, and so a bounded set of them that is
\* not empty has a largest element.
LEMMA Largest ==
    ASSUME NEW b \in Nat, NEW T \in SUBSET (0 .. b), T # {}
    PROVE  \E n \in T : \A m \in T : m <= n
<1> DEFINE LT == {s \in Nat \X Nat : s[1] < s[2]}
           U  == {b - n : n \in T}
<1>1. LT = OpToRel(<, Nat)
  BY Zenon DEF OpToRel
<1>2. IsWellFoundedOn(LT, Nat)
  BY <1>1, NatLessThanWellFounded, Zenon
<1>3. U \subseteq Nat /\ U # {}
  <2>1. \A n \in T : b - n \in Nat
    OBVIOUS
  <2>2. PICK n \in T : TRUE
    OBVIOUS
  <2>3. b - n \in U
    OBVIOUS
  <2>4. QED
    BY <2>1, <2>3
<1>4. PICK u \in U : \A v \in U : <<v, u>> \notin LT
  <2> HIDE DEF LT, U
  <2>1. QED
    BY <1>2, <1>3, WFMin
<1>5. ASSUME NEW v \in U PROVE u <= v
  <2>1. u \in Nat /\ v \in Nat /\ <<v, u>> \in Nat \X Nat
    BY <1>3
  <2>2. ~(v < u)
    <3> HIDE DEF U
    <3>1. <<v, u>> \notin LT
      BY <1>4
    <3>2. QED
      BY <2>1, <3>1
  <2>3. QED
    BY <2>1, <2>2
<1>6. PICK n \in T : u = b - n
  OBVIOUS
<1>7. ASSUME NEW m \in T PROVE m <= n
  <2>1. b - m \in U
    OBVIOUS
  <2>2. b - n <= b - m
    BY <1>5, <1>6, <2>1
  <2>3. QED
    BY <2>2
<1>8. QED
  BY <1>7

\* Powers of two, as the sizes of the powersets of 1 .. k.
LEMMA PowerIsSize ==
    ASSUME NEW k \in Nat
    PROVE  /\ IsFiniteSet(SUBSET (1 .. k))
           /\ Cardinality(SUBSET (1 .. k)) = 2^k /\ 2^k \in Nat
<1>1. IsFiniteSet(1 .. k) /\ Cardinality(1 .. k) = k
  BY FS_Interval
<1>2. IsFiniteSet(SUBSET (1 .. k)) /\ Cardinality(SUBSET (1 .. k)) = 2^Cardinality(1 .. k)
  BY <1>1, FS_SUBSET
<1>3. QED
  BY <1>1, <1>2, FS_CardinalityType

LEMMA PowersDouble == \A k \in Nat : 2^(k + 1) = 2 * 2^k
<1> SUFFICES ASSUME NEW k \in Nat PROVE 2^(k + 1) = 2 * 2^k
  OBVIOUS
<1> DEFINE S == SUBSET (1 .. k)
           T == {U \cup {k + 1} : U \in S}
           f == [U \in S |-> U \cup {k + 1}]
<1>1. IsFiniteSet(S) /\ Cardinality(S) = 2^k /\ 2^k \in Nat
  BY PowerIsSize
<1>2. f \in Bijection(S, T)
  <2>1. \A U, V \in S : f[U] = f[V] => U = V
    <3>1. ASSUME NEW U \in S, NEW V \in S, f[U] = f[V] PROVE U \subseteq V
      <4>1. ASSUME NEW x \in U PROVE x \in V
        <5>1. x \in f[U] /\ x # k + 1
          OBVIOUS
        <5>2. x \in f[V]
          BY <3>1, <5>1
        <5>3. QED
          BY <5>1, <5>2
      <4>2. QED
        BY <4>1
    <3> HIDE DEF f, S
    <3>2. ASSUME NEW U \in S, NEW V \in S, f[U] = f[V] PROVE U = V
      <4>1. U \subseteq V /\ V \subseteq U
        BY <3>1, <3>2, Zenon
      <4>2. QED
        BY <4>1
    <3>3. QED
      BY <3>2, Zenon
  <2>2. f \in [S -> T] /\ \A t \in T : \E s \in S : f[s] = t
    OBVIOUS
  <2>3. QED
    BY <2>1, <2>2, Zenon DEF Bijection, Injection, Surjection, IsInjective
<1>3. IsFiniteSet(T) /\ Cardinality(T) = 2^k
  BY <1>1, <1>2, FS_Bijection DEF ExistsBijection
<1>4. S \cap T = {}
  OBVIOUS
<1>5. SUBSET (1 .. k + 1) = S \cup T
  <2>1. ASSUME NEW U \in SUBSET (1 .. k + 1) PROVE U \in S \cup T
    <3>1. CASE k + 1 \in U
      <4>1. U \ {k + 1} \in S /\ U = (U \ {k + 1}) \cup {k + 1}
        BY <3>1
      <4>2. QED
        BY <4>1
    <3>2. CASE k + 1 \notin U
      BY <3>2
    <3>3. QED
      BY <3>1, <3>2
  <2>2. ASSUME NEW U \in S \cup T PROVE U \subseteq 1 .. k + 1
    <3>1. PICK V \in S : U = V \/ U = V \cup {k + 1}
      OBVIOUS
    <3>2. QED
      BY <3>1
  <2>3. QED
    BY <2>1, <2>2
<1> HIDE DEF S, T
<1>6. Cardinality(S \cup T) = 2^k + 2^k - 0
  <2>1. Cardinality(S \cup T) = Cardinality(S) + Cardinality(T) - Cardinality(S \cap T)
    BY <1>1, <1>3, FS_Union
  <2>2. QED
    BY <1>1, <1>3, <1>4, <2>1, FS_EmptySet
<1>7. Cardinality(SUBSET (1 .. k + 1)) = 2^(k + 1)
  <2>1. k + 1 \in Nat
    OBVIOUS
  <2>2. QED
    BY <2>1, PowerIsSize
<1>8. 2^(k + 1) = 2^k + 2^k - 0
  BY <1>5, <1>6, <1>7, Zenon
<1>9. \A m \in Nat : m + m - 0 = 2 * m
  OBVIOUS
<1>10. QED
  BY <1>1, <1>8, <1>9, Zenon

-----------------------------------------------------------------------------
(* The table between two reads.                                            *)

Element == [key : Words, value : Nat]
UsedIn(elems, cap) == {n \in Cells(cap) : elems[n] # Null}

\* An element lies at its home or after it, and between the two there is no
\* free cell and no other element of the word.
PlacedIn(elems, cap, n) ==
    /\ Home(elems[n].key, cap) \in 0 .. n
    /\ \A m \in Home(elems[n].key, cap) .. n - 1 :
          elems[m] # Null /\ elems[m].key # elems[n].key

TableInv == pc # "overrun" => \A n \in Used : PlacedIn(elements, capacity, n)

\* A rehash takes a read of its own.
CapacityInv == \E k \in 0 .. reads : capacity = InitCapacity * 2^k

\* A word with a wrong count has shared a home with another word that was read.
Robbed(w) ==
    /\ seen[w] > 0
    /\ \A n \in Used : elements[n].key = w => elements[n].value < seen[w]
    /\ \E v \in Words \ {w} : seen[v] > 0 /\ Collide(w, v)

CountInv ==
    pc # "overrun" =>
       /\ \A n \in Used : elements[n].value \in 1 .. seen[elements[n].key]
       /\ \A w \in Words :
             \/ seen[w] = 0
             \/ \E n \in Used : elements[n].key = w /\ elements[n].value = seen[w]
             \/ Robbed(w)

IInv == TypeOK /\ ProbeEnds /\ TableInv /\ CapacityInv /\ CountInv

LEMMA UsedElements ==
    ASSUME TypeOK
    PROVE  /\ Used = UsedIn(elements, capacity)
           /\ \A n \in Used : n \in Cells(capacity) /\ elements[n] \in Element
  BY DEF TypeOK, Used, UsedIn, Element

-----------------------------------------------------------------------------
(* get_element and add_element.                                            *)

\* In a table whose elements are in their places, get_element finds each of
\* them where it is and nowhere else.
LEMMA FoundAtItsPlace ==
    ASSUME TypeOK, NEW n \in Used, PlacedIn(elements, capacity, n)
    PROVE  Found(elements[n].key) = {n}
<1> DEFINE w == elements[n].key
           h == Home(w, capacity)
<1>1. /\ n \in Cells(capacity) /\ elements[n] # Null /\ w \in Words
      /\ h \in Int /\ 0 <= h /\ h <= n /\ Stops(n, w)
      /\ \A m \in h .. n - 1 : ~Stops(m, w)
  BY UsedElements DEF PlacedIn, Used, Element, Stops, Cells
<1>2. n \in Found(w)
  BY <1>1 DEF Found
<1>3. ASSUME NEW m \in Found(w) PROVE m = n
  <2>1. /\ m \in Int /\ n \in Int /\ h <= m /\ Stops(m, w)
        /\ \A k \in h .. m - 1 : ~Stops(k, w)
    BY <1>1 DEF Found, Cells, TypeOK
  <2>2. ~(m < n)
    BY <1>1, <2>1
  <2>3. ~(n < m)
    BY <1>1, <2>1
  <2>4. QED
    BY <2>1, <2>2, <2>3
<1>4. QED
  BY <1>2, <1>3

\* add_element, which walks round the end of the array, stores a new word in
\* the free cell at which get_element, which does not, has stopped.
LEMMA FreeWhereSought ==
    ASSUME TypeOK, NEW w \in Words, NEW n \in Found(w), elements[n] = Null,
           NEW f \in Free(w)
    PROVE  f = n
<1> DEFINE h     == Home(w, capacity)
           at(d) == (h + d) % capacity
<1>1. /\ capacity \in Nat \ {0} /\ h \in Nat /\ n \in 0 .. capacity - 1 /\ h <= n
      /\ \A m \in h .. n - 1 : elements[m] # Null
  BY HomeType DEF TypeOK, Found, Stops, Cells
<1>2. PICK d \in Cells(capacity) : /\ f = at(d) /\ elements[at(d)] = Null
                                   /\ \A k \in Cells(d) : elements[at(k)] # Null
  BY DEF Free
<1>3. d \in Nat
  BY <1>1, <1>2 DEF Cells
<1>4. ASSUME NEW k \in Nat, h + k < capacity PROVE at(k) = h + k
  <2>1. h + k \in Nat
    BY <1>1
  <2> HIDE DEF h
  <2>2. QED
    BY <1>1, <1>4, <2>1, Remainder
<1> HIDE DEF h, at
<1>5. ~(d < n - h)
  <2> SUFFICES ASSUME d < n - h PROVE FALSE
    OBVIOUS
  <2>1. at(d) = h + d /\ h + d \in h .. n - 1
    BY <1>1, <1>3, <1>4
  <2>2. QED
    BY <1>1, <1>2, <2>1
<1>6. ~(n - h < d)
  <2> SUFFICES ASSUME n - h < d PROVE FALSE
    OBVIOUS
  <2>1. n - h \in Nat /\ at(n - h) = n
    BY <1>1, <1>4
  <2>2. n - h \in Cells(d)
    BY <1>3, <2>1 DEF Cells
  <2>3. QED
    BY <1>2, <2>1, <2>2
<1>7. d = n - h
  BY <1>1, <1>3, <1>5, <1>6
<1>8. QED
  BY <1>1, <1>2, <1>4, <1>7

Added(w, n) == [elements EXCEPT ![n] = [key |-> w, value |-> 1]]

\* What add_element does, in terms of where get_element has stopped.
LEMMA AddsWhereSought ==
    ASSUME TypeOK, NEW w \in Words, AddElement(w)
    PROVE  \E n \in Found(w) :
              /\ pc = "read" /\ elements[n] = Null /\ size' = size + 1
              /\ reads' = reads + 1 /\ reads < MaxReads
              /\ seen' = [seen EXCEPT ![w] = @ + 1]
              /\ \/ /\ ~IsRehashRequired(size', capacity)
                    /\ elements' = Added(w, n) /\ UNCHANGED <<pc, capacity>>
                 \/ /\ IsRehashRequired(size', capacity)
                    /\ elements' = Rehashed(Added(w, n), capacity)
                    /\ capacity' = 2 * capacity
                    /\ pc' = IF \E m \in Cells(capacity) : Added(w, n)[m] # Null
                                   /\ Home(Added(w, n)[m].key, 2 * capacity) < 0
                               THEN "overrun" ELSE pc
<1>1. PICK n \in Found(w) : elements[n] = Null
  BY DEF AddElement
<1>2. PICK f \in Free(w) :
         \/ /\ ~IsRehashRequired(size', capacity)
            /\ elements' = Added(w, f) /\ UNCHANGED <<pc, capacity>>
         \/ /\ IsRehashRequired(size', capacity)
            /\ elements' = Rehashed(Added(w, f), capacity)
            /\ capacity' = 2 * capacity
            /\ pc' = IF \E m \in Cells(capacity) : Added(w, f)[m] # Null
                           /\ Home(Added(w, f)[m].key, 2 * capacity) < 0
                       THEN "overrun" ELSE pc
  BY DEF AddElement, Added
<1>3. f = n
  BY <1>1, FreeWhereSought
<1>4. /\ pc = "read" /\ size' = size + 1 /\ reads' = reads + 1
      /\ reads < MaxReads /\ seen' = [seen EXCEPT ![w] = @ + 1]
  BY DEF AddElement, Read
<1>5. QED
  BY <1>1, <1>2, <1>3, <1>4

\* The array with the new element: all are in their places, and the word had
\* none before.
LEMMA AddedInPlace ==
    ASSUME TypeOK, TableInv, pc = "read",
           NEW w \in Words, NEW n \in Found(w), elements[n] = Null
    PROVE  /\ n \in Cells(capacity) /\ n \notin Used
           /\ Added(w, n) \in [Cells(capacity) -> Element \cup {Null}]
           /\ Added(w, n)[n] = [key |-> w, value |-> 1]
           /\ \A m \in Used : Added(w, n)[m] = elements[m] /\ elements[m].key # w
           /\ UsedIn(Added(w, n), capacity) = Used \cup {n}
           /\ \A m \in Used \cup {n} : PlacedIn(Added(w, n), capacity, m)
<1> DEFINE a == Added(w, n)
           h == Home(w, capacity)
<1>1. /\ n \in Cells(capacity) /\ n \notin Used /\ n \in Int /\ h \in 0 .. n
      /\ \A m \in h .. n - 1 : elements[m] # Null /\ elements[m].key # w
  BY HomeType DEF TypeOK, Found, Stops, Cells, Used
<1>2. a \in [Cells(capacity) -> Element \cup {Null}]
  BY <1>1 DEF TypeOK, Added, Element
<1>3. /\ a[n] = [key |-> w, value |-> 1] /\ a[n] # Null
      /\ \A m \in Cells(capacity) \ {n} : a[m] = elements[m]
  BY <1>1 DEF TypeOK, Added
<1>4. UsedIn(a, capacity) = Used \cup {n}
  BY <1>1, <1>3 DEF UsedIn, Used
<1> HIDE DEF a
<1>5. ASSUME NEW m \in Used PROVE a[m] = elements[m] /\ elements[m].key # w
  <2>1. Found(elements[m].key) = {m}
    BY FoundAtItsPlace DEF TableInv
  <2>2. m # n /\ m \in Cells(capacity)
    BY <1>1 DEF Used
  <2>3. QED
    BY <1>3, <2>1, <2>2
<1>6. PlacedIn(a, capacity, n)
  <2>1. \A m \in h .. n - 1 : m \in Cells(capacity) /\ m # n
    BY <1>1 DEF Cells, TypeOK
  <2>2. QED
    BY <1>1, <1>3, <2>1 DEF PlacedIn
<1>7. ASSUME NEW m \in Used PROVE PlacedIn(a, capacity, m)
  <2> DEFINE g == Home(elements[m].key, capacity)
  <2>1. /\ PlacedIn(elements, capacity, m) /\ elements[m].key \in Words
        /\ a[m] = elements[m] /\ m \in Cells(capacity) /\ g \in Int
    BY <1>5, UsedElements, HomeType DEF TableInv, Element, TypeOK
  <2>2. ASSUME NEW k \in g .. m - 1
        PROVE  a[k] # Null /\ a[k].key # elements[m].key
    <3>1. elements[k] # Null /\ elements[k].key # elements[m].key
      BY <2>1 DEF PlacedIn
    <3>2. k \in Cells(capacity)
      BY <2>1 DEF PlacedIn, Cells, TypeOK
    <3>3. k # n
      BY <1>1, <3>1 DEF Used, Found
    <3>4. QED
      BY <1>3, <3>1, <3>2, <3>3
  <2>3. QED
    BY <2>1, <2>2 DEF PlacedIn
<1>8. QED
  BY <1>1, <1>2, <1>3, <1>4, <1>5, <1>6, <1>7 DEF a

\* rehash keeps elements of the old array, each at its home, and loses one
\* only to another that has the same home; elements whose home is negative it
\* stores elsewhere.
LEMMA RehashKeepsTheLast ==
    ASSUME NEW cap \in Nat \ {0},
           NEW elems \in [Cells(cap) -> Element \cup {Null}]
    PROVE  LET new == Rehashed(elems, cap) IN
           /\ new \in [Cells(2 * cap) -> Element \cup {Null}]
           /\ \A n \in UsedIn(new, 2 * cap) : \E m \in UsedIn(elems, cap) :
                 new[n] = elems[m] /\ Home(elems[m].key, 2 * cap) = n
           /\ \A m \in UsedIn(elems, cap) :
                 Home(elems[m].key, 2 * cap) >= 0 =>
                    Home(elems[m].key, 2 * cap) \in UsedIn(new, 2 * cap)
<1> DEFINE at(n) == {m \in Cells(cap) : elems[m] # Null
                                        /\ Home(elems[m].key, 2 * cap) = n}
           last(n) == CHOOSE m \in at(n) : \A k \in at(n) : k <= m
           new == Rehashed(elems, cap)
<1>1. ASSUME NEW n, at(n) # {} PROVE last(n) \in at(n)
  <2>1. cap - 1 \in Nat /\ at(n) \in SUBSET (0 .. cap - 1)
    BY DEF Cells
  <2> HIDE DEF at
  <2>2. \E m \in at(n) : \A k \in at(n) : k <= m
    BY <1>1, <2>1, Largest
  <2>3. QED
    BY <2>2
<1>2. new = [n \in Cells(2 * cap) |-> IF at(n) = {} THEN Null ELSE elems[last(n)]]
  BY DEF Rehashed
<1>3. \A n : at(n) \subseteq UsedIn(elems, cap) /\ at(n) \subseteq Cells(cap)
  BY DEF UsedIn
<1>4. \A m \in UsedIn(elems, cap) : m \in Cells(cap) /\ elems[m] \in Element
  BY DEF UsedIn
<1>5. ASSUME NEW n \in Cells(2 * cap), at(n) # {}
      PROVE  \E m \in UsedIn(elems, cap) : /\ new[n] = elems[m]
                                           /\ Home(elems[m].key, 2 * cap) = n
  <2>1. last(n) \in at(n) /\ new[n] = elems[last(n)]
    BY <1>1, <1>2, <1>5
  <2>2. last(n) \in UsedIn(elems, cap) /\ Home(elems[last(n)].key, 2 * cap) = n
    BY <2>1 DEF UsedIn
  <2>3. QED
    BY <2>1, <2>2
<1>6. \A n \in Cells(2 * cap) : at(n) = {} => new[n] = Null
  BY <1>2
<1>7. ASSUME NEW m \in UsedIn(elems, cap), Home(elems[m].key, 2 * cap) >= 0
      PROVE  Home(elems[m].key, 2 * cap) \in UsedIn(new, 2 * cap)
  <2> DEFINE g == Home(elems[m].key, 2 * cap)
  <2>1. 2 * cap \in Nat \ {0} /\ elems[m].key \in Words
    BY <1>4 DEF Element
  <2>2. g \in Cells(2 * cap)
    BY <1>7, <2>1, HomeType DEF Cells
  <2>3. m \in at(g)
    BY DEF UsedIn
  <2> HIDE DEF g, at, last, new
  <2>4. at(g) # {}
    BY <2>3
  <2>5. PICK k \in UsedIn(elems, cap) : new[g] = elems[k]
    BY <1>5, <2>2, <2>4
  <2>6. new[g] # Null
    BY <2>5 DEF UsedIn
  <2>7. QED
    BY <2>2, <2>6 DEF UsedIn, g
<1> HIDE DEF at, last
<1>8. new \in [Cells(2 * cap) -> Element \cup {Null}]
  <2>1. \A n \in Cells(2 * cap) : new[n] \in Element \cup {Null}
    BY <1>4, <1>5, <1>6
  <2>2. QED
    BY <1>2, <2>1
<1>9. \A n \in UsedIn(new, 2 * cap) : n \in Cells(2 * cap) /\ at(n) # {}
  BY <1>6 DEF UsedIn
<1> HIDE DEF new
<1>10. QED
  BY <1>5, <1>7, <1>8, <1>9 DEF new

-----------------------------------------------------------------------------
(* The invariant.                                                          *)

LEMMA InitIInv == Init => IInv
<1> SUFFICES ASSUME Init PROVE IInv
  OBVIOUS
<1>1. TypeOK /\ Used = {} /\ capacity = InitCapacity /\ size = 0 /\ reads = 0
  BY DEF Init, TypeOK, Used, Cells
<1>2. ProbeEnds
  <2>1. Cardinality(Used) = 0
    BY <1>1, FS_EmptySet
  <2>2. LoadNum * InitCapacity \in Nat /\ 0 * LoadDen = 0
    OBVIOUS
  <2>3. QED
    BY <1>1, <2>1, <2>2 DEF ProbeEnds
<1>3. CapacityInv
  <2>1. 2^0 = 1
    OBVIOUS
  <2>2. InitCapacity = InitCapacity * 1 /\ 0 \in 0 .. reads
    BY <1>1
  <2>3. capacity = InitCapacity * 2^0
    BY <1>1, <2>1, <2>2, Zenon
  <2>4. QED
    BY <2>2, <2>3, Zenon DEF CapacityInv
<1>4. TableInv /\ CountInv
  BY <1>1 DEF TableInv, CountInv, Init
<1>5. QED
  BY <1>1, <1>2, <1>3, <1>4 DEF IInv

\* Two words that have shared a home have done so for good.
LEMMA CollisionsStay ==
    ASSUME TypeOK, reads' \in Nat, reads <= reads',
           capacity' \in Nat, capacity <= capacity', NEW w \in Words, NEW v \in Words
    PROVE  Collide(w, v) => Collide(w, v)'
<1> SUFFICES ASSUME Collide(w, v) PROVE Collide(w, v)'
  OBVIOUS
<1>1. PICK k \in 1 .. reads : /\ InitCapacity * 2^k <= capacity
                              /\ Home(w, InitCapacity * 2^k) = Home(v, InitCapacity * 2^k)
  BY DEF Collide
<1>2. k \in 1 .. reads' /\ InitCapacity * 2^k \in Nat
  <2>1. k \in Nat /\ 2^k \in Nat
    <3>1. k \in Nat
      BY DEF TypeOK
    <3>2. QED
      BY <3>1, PowerIsSize
  <2>2. QED
    BY <2>1 DEF TypeOK
<1>3. InitCapacity * 2^k <= capacity'
  BY <1>1, <1>2 DEF TypeOK
<1>4. QED
  BY <1>1, <1>2, <1>3 DEF Collide, Home

LEMMA OverrunKeeps ==
    ASSUME IInv, NEW w \in Words, Overrun(w)
    PROVE  IInv'
<1> USE DEF IInv
<1>1. /\ pc' = "overrun" /\ UNCHANGED <<elements, capacity, size>>
      /\ reads' = reads + 1 /\ reads < MaxReads /\ seen' = [seen EXCEPT ![w] = @ + 1]
  BY DEF Overrun, Read, table
<1>2. TypeOK'
  BY <1>1 DEF TypeOK
<1>3. ProbeEnds'
  BY <1>1 DEF ProbeEnds, Used
<1>4. CapacityInv'
  BY <1>1 DEF CapacityInv, TypeOK
<1>5. TableInv' /\ CountInv'
  BY <1>1 DEF TableInv, CountInv
<1>6. QED
  BY <1>2, <1>3, <1>4, <1>5

LEMMA CountKeeps ==
    ASSUME IInv, NEW w \in Words, Count(w)
    PROVE  IInv'
<1> USE DEF IInv
<1>1. PICK n \in Found(w) :
         elements[n] # Null /\ elements' = [elements EXCEPT ![n].value = @ + 1]
  BY DEF Count
<1>2. /\ pc = "read" /\ UNCHANGED <<pc, capacity, size>>
      /\ reads' = reads + 1 /\ reads < MaxReads /\ seen' = [seen EXCEPT ![w] = @ + 1]
  BY DEF Count, Read
<1>3. n \in Used /\ n \in Cells(capacity) /\ elements[n].key = w
  BY <1>1 DEF Found, Stops, Used
<1>4. \A m \in Used : m \in Cells(capacity) /\ elements[m] \in Element
  BY UsedElements
<1>5. /\ elements' \in [Cells(capacity) -> Element \cup {Null}]
      /\ elements'[n] = [key |-> w, value |-> elements[n].value + 1]
      /\ \A m \in Cells(capacity) \ {n} : elements'[m] = elements[m]
  <2>1. [elements[n] EXCEPT !.value = @ + 1]
           = [key |-> w, value |-> elements[n].value + 1]
    BY <1>3, <1>4 DEF Element
  <2>2. elements' = [elements EXCEPT ![n] = [key |-> w, value |-> elements[n].value + 1]]
    BY <1>1, <2>1
  <2>3. [key |-> w, value |-> elements[n].value + 1] \in Element
    BY <1>3, <1>4 DEF Element
  <2>4. QED
    BY <1>3, <2>2, <2>3 DEF TypeOK, Element
<1>6. Used' = Used
  <2>1. elements'[n] # Null
    <3>1. elements[n].value \in Nat
      BY <1>3, <1>4 DEF Element
    <3>2. [key |-> w, value |-> elements[n].value + 1] \in [key : Words, value : Nat]
      BY <3>1
    <3>3. QED
      BY <1>5, <3>2
  <2>2. QED
    BY <1>2, <1>3, <1>5, <2>1 DEF Used
<1>7. \A m \in Used : elements'[m].key = elements[m].key
  BY <1>3, <1>4, <1>5
<1>8. TypeOK'
  BY <1>2, <1>5 DEF TypeOK, Element
<1>9. ProbeEnds'
  BY <1>2, <1>6 DEF ProbeEnds
<1>10. TableInv'
  <2>1. ASSUME NEW m \in Used PROVE PlacedIn(elements', capacity, m)
    <3>1. /\ PlacedIn(elements, capacity, m) /\ elements[m].key \in Words
          /\ elements'[m].key = elements[m].key /\ m \in Cells(capacity)
      BY <1>2, <1>4, <1>7 DEF TableInv, Element
    <3>2. ASSUME NEW k \in Home(elements[m].key, capacity) .. m - 1
          PROVE  k \in Used
      BY <3>1 DEF PlacedIn, Used, Cells, TypeOK
    <3>3. \A k \in Used : elements'[k] # Null
      BY <1>6 DEF Used
    <3>4. QED
      BY <1>7, <3>1, <3>2, <3>3 DEF PlacedIn
  <2>2. QED
    BY <1>2, <1>6, <2>1 DEF TableInv
<1>11. CapacityInv'
  BY <1>2 DEF CapacityInv, TypeOK
<1>12. CountInv'
  <2>1. \A m \in Used : elements[m].value \in 1 .. seen[elements[m].key]
    BY <1>2 DEF CountInv
  <2>2. /\ seen'[w] = seen[w] + 1 /\ seen \in [Words -> Nat]
        /\ \A u \in Words \ {w} : seen'[u] = seen[u]
    BY <1>2 DEF TypeOK
  <2>3. ASSUME NEW m \in Used
        PROVE  /\ elements'[m].value \in 1 .. seen'[elements'[m].key]
               /\ elements[m].key # w => elements'[m].value = elements[m].value
               /\ elements[m].key = w => elements'[m].value = elements[m].value + 1
    <3>1. elements[m].key = w => m = n
      <4>1. Found(elements[m].key) = {m}
        BY <1>2, FoundAtItsPlace DEF TableInv
      <4>2. QED
        BY <4>1
    <3>2. CASE m = n
      <4>1. elements'[m].key = w /\ elements'[m].value = elements[m].value + 1
        BY <1>5, <3>2
      <4>2. elements[m].value \in 1 .. seen[w]
        BY <1>3, <2>1, <3>2
      <4>3. QED
        BY <1>3, <2>2, <3>2, <4>1, <4>2
    <3>3. CASE m # n
      BY <1>4, <1>5, <2>1, <2>2, <3>1, <3>3 DEF Element
    <3>4. QED
      BY <3>2, <3>3
  <2>4. ASSUME NEW u \in Words
        PROVE  \/ seen'[u] = 0
               \/ \E m \in Used : elements'[m].key = u /\ elements'[m].value = seen'[u]
               \/ Robbed(u)'
    <3>1. \A m \in Used : elements[m].value \in Nat /\ elements[m].key \in Words
      BY <1>4 DEF Element
    <3>2. CASE \E m \in Used : elements[m].key = u /\ elements[m].value = seen[u]
      BY <1>7, <2>2, <2>3, <3>2
    <3>3. CASE Robbed(u)
      <4>1. seen'[u] > 0
        BY <2>2, <3>3 DEF Robbed
      <4>2. \A m \in Used' : elements'[m].key = u => elements'[m].value < seen'[u]
        BY <1>6, <1>7, <2>2, <2>3, <3>1, <3>3 DEF Robbed
      <4>3. PICK v \in Words \ {u} : seen[v] > 0 /\ Collide(u, v)
        BY <3>3 DEF Robbed
      <4>4. seen'[v] > 0
        BY <2>2, <4>3
      <4>5. Collide(u, v)'
        BY <1>2, <4>3, CollisionsStay DEF TypeOK
      <4>6. QED
        BY <4>1, <4>2, <4>4, <4>5 DEF Robbed
    <3>4. CASE seen[u] = 0 /\ u # w
      BY <2>2, <3>4
    <3>5. CASE seen[u] = 0 /\ u = w
      BY <1>3, <2>1, <3>5
    <3>6. QED
      BY <1>2, <3>2, <3>3, <3>4, <3>5 DEF CountInv
  <2>5. QED
    BY <1>6, <2>3, <2>4 DEF CountInv
<1>13. QED
  BY <1>8, <1>9, <1>10, <1>11, <1>12

\* The counts in an array a with elements in the cells U, after a read.
CountedIn(a, U) ==
    /\ \A m \in U : a[m].value \in 1 .. seen'[a[m].key]
    /\ \A u \in Words :
          \/ seen'[u] = 0
          \/ \E m \in U : a[m].key = u /\ a[m].value = seen'[u]
          \/ /\ seen'[u] > 0
             /\ \A m \in U : a[m].key = u => a[m].value < seen'[u]
             /\ \E v \in Words \ {u} : seen'[v] > 0 /\ Collide(u, v)'

\* A word that was not in the table and is stored at n, before a rehash.
LEMMA AddedCounts ==
    ASSUME IInv, pc = "read", NEW w \in Words, NEW n \in Found(w), elements[n] = Null,
           seen' = [seen EXCEPT ![w] = @ + 1],
           reads' = reads + 1, capacity' \in Nat, capacity <= capacity'
    PROVE  CountedIn(Added(w, n), UsedIn(Added(w, n), capacity))
<1> PICK a, U : a = Added(w, n) /\ U = UsedIn(a, capacity)
  OBVIOUS
<1>1. /\ n \notin Used /\ U = Used \cup {n} /\ a[n] = [key |-> w, value |-> 1]
      /\ \A m \in Used : a[m] = elements[m] /\ elements[m].key # w
  BY AddedInPlace DEF IInv
<1>2. /\ seen'[w] = seen[w] + 1 /\ seen \in [Words -> Nat] /\ reads \in Nat
      /\ \A u \in Words \ {w} : seen'[u] = seen[u]
  BY DEF IInv, TypeOK
<1>3. /\ \A m \in Used : elements[m].value \in 1 .. seen[elements[m].key]
      /\ \A m \in Used : elements[m].key \in Words
  BY UsedElements DEF IInv, CountInv, Element
<1>4. \A m \in U : a[m].value \in 1 .. seen'[a[m].key]
  BY <1>1, <1>2, <1>3
<1>5. ASSUME NEW u \in Words, NEW v \in Words \ {u}, seen[v] > 0, Collide(u, v)
      PROVE  seen'[v] > 0 /\ Collide(u, v)'
  BY <1>2, <1>5, CollisionsStay DEF IInv, TypeOK
<1>6. ASSUME NEW u \in Words \ {w}
      PROVE  \/ seen'[u] = 0
             \/ \E m \in U : a[m].key = u /\ a[m].value = seen'[u]
             \/ /\ seen'[u] > 0
                /\ \A m \in U : a[m].key = u => a[m].value < seen'[u]
                /\ \E v \in Words \ {u} : seen'[v] > 0 /\ Collide(u, v)'
  <2>1. CASE seen[u] = 0
    BY <1>2, <2>1
  <2>2. CASE \E m \in Used : elements[m].key = u /\ elements[m].value = seen[u]
    BY <1>1, <1>2, <2>2
  <2>3. CASE Robbed(u)
    <3>1. seen'[u] > 0 /\ \A m \in U : a[m].key = u => a[m].value < seen'[u]
      BY <1>1, <1>2, <2>3 DEF Robbed
    <3>2. QED
      BY <1>5, <2>3, <3>1 DEF Robbed
  <2>4. QED
    BY <2>1, <2>2, <2>3 DEF IInv, CountInv
<1>7. \/ \E m \in U : a[m].key = w /\ a[m].value = seen'[w]
      \/ /\ seen'[w] > 0
         /\ \A m \in U : a[m].key = w => a[m].value < seen'[w]
         /\ \E v \in Words \ {w} : seen'[v] > 0 /\ Collide(w, v)'
  <2>1. CASE seen[w] = 0
    BY <1>1, <1>2, <2>1
  <2>2. CASE seen[w] # 0
    <3>1. Robbed(w)
      BY <1>1, <2>2 DEF IInv, CountInv
    <3>2. seen'[w] > 0 /\ \A m \in U : a[m].key = w => a[m].value < seen'[w]
      BY <1>1, <1>2, <3>1 DEF Robbed
    <3>3. QED
      BY <1>5, <3>1, <3>2 DEF Robbed
  <2>3. QED
    BY <2>1, <2>2
<1>8. QED
  BY <1>4, <1>6, <1>7 DEF CountedIn

\* The number of elements: one more in the array, and none more in the next one.
LEMMA AddedSize ==
    ASSUME IInv, pc = "read", NEW w \in Words, NEW n \in Found(w), elements[n] = Null
    PROVE  /\ IsFiniteSet(UsedIn(Added(w, n), capacity))
           /\ Cardinality(UsedIn(Added(w, n), capacity)) <= size + 1
<1>1. UsedIn(Added(w, n), capacity) = Used \cup {n} /\ n \notin Used
  BY AddedInPlace DEF IInv
<1>2. IsFiniteSet(Used) /\ Cardinality(Used) \in Nat
  <2>1. IsFiniteSet(Cells(capacity))
    BY FS_Interval DEF IInv, TypeOK, Cells
  <2>2. Used \in SUBSET Cells(capacity)
    BY DEF Used
  <2>3. QED
    BY <2>1, <2>2, FS_Subset, FS_CardinalityType
<1>3. Cardinality(Used \cup {n}) = Cardinality(Used) + 1 /\ IsFiniteSet(Used \cup {n})
  BY <1>1, <1>2, FS_AddElement
<1>4. Cardinality(Used) <= size /\ size \in Nat
  BY DEF IInv, ProbeEnds, TypeOK
<1>5. QED
  BY <1>1, <1>2, <1>3, <1>4

LEMMA RehashLosesOnly ==
    ASSUME NEW cap \in Nat \ {0}, NEW elems \in [Cells(cap) -> Element \cup {Null}],
           IsFiniteSet(UsedIn(elems, cap))
    PROVE  Cardinality(UsedIn(Rehashed(elems, cap), 2 * cap))
              <= Cardinality(UsedIn(elems, cap))
<1> DEFINE new  == Rehashed(elems, cap)
           S    == UsedIn(new, 2 * cap)
           T    == UsedIn(elems, cap)
           of(n, m) == new[n] = elems[m] /\ Home(elems[m].key, 2 * cap) = n
           f    == [n \in S |-> CHOOSE m \in T : of(n, m)]
<1>1. \A n \in S : \E m \in T : of(n, m)
  BY RehashKeepsTheLast
<1>2. \A n \in S : f[n] \in T /\ of(n, f[n])
  BY <1>1
<1>3. f \in [S -> T] /\ \A n, m \in S : f[n] = f[m] => n = m
  BY <1>2
<1>4. f \in Injection(S, T)
  BY <1>3, Zenon DEF Injection, IsInjective
<1> HIDE DEF f, S, T
<1>5. Cardinality(S) <= Cardinality(T)
  BY <1>4, FS_Injection DEF T
<1>6. QED
  BY <1>5 DEF S, T

\* The load after an element has been added, with a rehash and without one.
LEMMA LoadAfter ==
    ASSUME NEW sz \in Nat, NEW cap \in Nat, InitCapacity <= cap,
           sz * LoadDen <= LoadNum * cap
    PROVE  (sz + 1) * LoadDen <= LoadNum * (2 * cap)
<1>1. /\ LoadNum * cap \in Nat /\ sz * LoadDen \in Nat
      /\ LoadNum * InitCapacity <= LoadNum * cap
  OBVIOUS
<1>2. (sz + 1) * LoadDen = sz * LoadDen + LoadDen
  OBVIOUS
<1>3. LoadNum * (2 * cap) = LoadNum * cap + LoadNum * cap
  OBVIOUS
<1>4. QED
  BY <1>1, <1>2, <1>3

LEMMA CapacityGrows ==
    ASSUME TypeOK, CapacityInv
    PROVE  /\ InitCapacity <= capacity
           /\ reads' = reads + 1 /\ capacity' \in {capacity, 2 * capacity} => CapacityInv'
<1>1. PICK k \in 0 .. reads : capacity = InitCapacity * 2^k
  BY DEF CapacityInv
<1>2. reads \in Nat /\ k \in Nat /\ 2^k \in Nat \ {0}
  <2>1. reads \in Nat /\ k \in Nat
    BY DEF TypeOK
  <2>2. 2^k \in Nat /\ capacity # 0
    BY <2>1, PowerIsSize DEF TypeOK
  <2>3. InitCapacity * 0 = 0
    OBVIOUS
  <2>4. QED
    BY <1>1, <2>1, <2>2, <2>3
<1>3. InitCapacity <= capacity
  <2>1. \A x \in Nat \ {0} : InitCapacity <= InitCapacity * x
    OBVIOUS
  <2>2. QED
    BY <1>1, <1>2, <2>1
<1>4. ASSUME reads' = reads + 1, capacity' = capacity PROVE CapacityInv'
  BY <1>1, <1>2, <1>4 DEF CapacityInv
<1>5. ASSUME reads' = reads + 1, capacity' = 2 * capacity PROVE CapacityInv'
  <2>1. 2^(k + 1) = 2 * 2^k
    BY <1>2, PowersDouble
  <2>2. \A x \in Nat : 2 * (InitCapacity * x) = InitCapacity * (2 * x)
    OBVIOUS
  <2>3. capacity' = InitCapacity * 2^(k + 1)
    BY <1>1, <1>2, <1>5, <2>1, <2>2, Zenon
  <2>4. k + 1 \in 0 .. reads'
    BY <1>2, <1>5
  <2>5. QED
    BY <2>3, <2>4, Zenon DEF CapacityInv
<1>6. QED
  BY <1>3, <1>4, <1>5

LEMMA AddElementKeeps ==
    ASSUME IInv, NEW w \in Words, AddElement(w)
    PROVE  IInv'
<1> USE DEF IInv
<1>1. PICK n \in Found(w) :
         /\ pc = "read" /\ elements[n] = Null /\ size' = size + 1
         /\ reads' = reads + 1 /\ reads < MaxReads
         /\ seen' = [seen EXCEPT ![w] = @ + 1]
         /\ \/ /\ ~IsRehashRequired(size', capacity)
               /\ elements' = Added(w, n) /\ UNCHANGED <<pc, capacity>>
            \/ /\ IsRehashRequired(size', capacity)
               /\ elements' = Rehashed(Added(w, n), capacity)
               /\ capacity' = 2 * capacity
               /\ pc' = IF \E m \in Cells(capacity) : Added(w, n)[m] # Null
                              /\ Home(Added(w, n)[m].key, 2 * capacity) < 0
                          THEN "overrun" ELSE pc
  BY AddsWhereSought
<1> DEFINE a == Added(w, n)
           U == UsedIn(a, capacity)
<1>2. /\ a \in [Cells(capacity) -> Element \cup {Null}]
      /\ U = Used \cup {n} /\ \A m \in U : PlacedIn(a, capacity, m)
      /\ \A m \in U, k \in U : a[m].key = a[k].key => m = k
  <2>1. /\ a[n] = [key |-> w, value |-> 1]
        /\ \A m \in Used : a[m] = elements[m] /\ elements[m].key # w
        /\ U = Used \cup {n}
    BY <1>1, AddedInPlace
  <2>2. ASSUME NEW m \in Used, NEW k \in Used, elements[m].key = elements[k].key
        PROVE  m = k
    <3>1. Found(elements[m].key) = {m} /\ Found(elements[k].key) = {k}
      BY <1>1, FoundAtItsPlace DEF TableInv
    <3>2. QED
      BY <2>2, <3>1
  <2>3. \A m \in U, k \in U : a[m].key = a[k].key => m = k
    <3> HIDE DEF a, U
    <3>1. QED
      BY <2>1, <2>2
  <2>4. QED
    BY <1>1, <2>3, AddedInPlace
<1>3. /\ capacity' \in {capacity, 2 * capacity} /\ capacity \in Nat \ {0}
      /\ capacity' \in Nat \ {0} /\ capacity <= capacity'
      /\ size \in Nat /\ reads \in Nat /\ seen \in [Words -> Nat]
  BY <1>1 DEF TypeOK
<1>4. CapacityInv' /\ InitCapacity <= capacity
  BY <1>1, <1>3, CapacityGrows
<1>5. /\ \A m \in U : a[m].value \in 1 .. seen'[a[m].key]
      /\ \A u \in Words :
            \/ seen'[u] = 0
            \/ \E m \in U : a[m].key = u /\ a[m].value = seen'[u]
            \/ /\ seen'[u] > 0
               /\ \A m \in U : a[m].key = u => a[m].value < seen'[u]
               /\ \E v \in Words \ {u} : seen'[v] > 0 /\ Collide(u, v)'
  <2>1. capacity' \in Nat /\ capacity <= capacity'
    BY <1>3
  <2> HIDE DEF IInv
  <2>2. /\ pc = "read" /\ elements[n] = Null /\ reads' = reads + 1
        /\ seen' = [seen EXCEPT ![w] = @ + 1]
    BY <1>1
  <2>3. CountedIn(a, U)
    BY <2>1, <2>2, AddedCounts, Zenon
  <2> HIDE DEF a, U
  <2>4. QED
    BY <2>3 DEF CountedIn
<1>6. IsFiniteSet(U) /\ Cardinality(U) <= size'
  BY <1>1, AddedSize
<1>7. seen' \in [Words -> Nat] /\ reads' \in 0 .. MaxReads /\ size' \in Nat
  BY <1>1, <1>3
<1> HIDE DEF a, U
<1>8. CASE ~IsRehashRequired(size', capacity)
  <2>1. elements' = a /\ UNCHANGED <<pc, capacity>>
    BY <1>1, <1>8 DEF a
  <2>2. Used' = U
    BY <2>1 DEF Used, UsedIn, U
  <2>3. TypeOK'
    BY <1>2, <1>3, <1>7, <2>1 DEF TypeOK, Element
  <2>4. ProbeEnds'
    <3>1. size' * LoadDen <= LoadNum * capacity'
      <4>1. size' * LoadDen \in Int /\ LoadNum * capacity \in Int
        BY <1>3, <1>7
      <4>2. QED
        BY <1>8, <2>1, <4>1 DEF IsRehashRequired
    <3>2. QED
      BY <1>6, <2>2, <3>1 DEF ProbeEnds
  <2>5. TableInv'
    BY <1>2, <2>1, <2>2 DEF TableInv
  <2>6. CountInv'
    BY <1>5, <2>1, <2>2 DEF CountInv, Robbed
  <2>7. QED
    BY <1>4, <2>3, <2>4, <2>5, <2>6
<1>9. CASE IsRehashRequired(size', capacity)
  <2>1. elements' = Rehashed(a, capacity) /\ capacity' = 2 * capacity
    BY <1>1, <1>9 DEF a
  <2>2. Used' = UsedIn(Rehashed(a, capacity), 2 * capacity)
    BY <2>1 DEF Used, UsedIn
  <2>3. /\ elements' \in [Cells(2 * capacity) -> Element \cup {Null}]
        /\ \A k \in Used' : \E m \in U :
              elements'[k] = a[m] /\ Home(a[m].key, 2 * capacity) = k
        /\ \A m \in U : Home(a[m].key, 2 * capacity) >= 0 =>
                           Home(a[m].key, 2 * capacity) \in Used'
    BY <1>2, <1>3, <2>1, <2>2, RehashKeepsTheLast DEF U
  <2>4. pc' \in {"read", "overrun"}
    BY <1>1, <1>9
  <2>5. TypeOK'
    BY <1>3, <1>7, <2>1, <2>3, <2>4 DEF TypeOK, Element
  <2>6. ProbeEnds'
    <3>1. Cardinality(Used') <= Cardinality(U)
      BY <1>2, <1>3, <1>6, <2>2, RehashLosesOnly DEF U
    <3>2. IsFiniteSet(Used')
      <4>1. Used' \in SUBSET Cells(2 * capacity)
        BY <2>2 DEF UsedIn
      <4>2. IsFiniteSet(0 .. 2 * capacity - 1)
        BY <1>3, FS_Interval
      <4>3. QED
        BY <4>1, <4>2, FS_Subset DEF Cells
    <3>3. Cardinality(Used') \in Nat /\ Cardinality(U) \in Nat
      BY <1>6, <3>2, FS_CardinalityType
    <3>4. Cardinality(Used') <= size'
      BY <1>6, <1>7, <3>1, <3>3
    <3>5. size' * LoadDen <= LoadNum * capacity'
      BY <1>1, <1>3, <1>4, <2>1, LoadAfter DEF ProbeEnds
    <3>6. QED
      BY <3>4, <3>5 DEF ProbeEnds
  <2>7. ASSUME pc' # "overrun" PROVE \A m \in U : Home(a[m].key, 2 * capacity) >= 0
    <3>1. ASSUME NEW m \in U PROVE Home(a[m].key, 2 * capacity) >= 0
      <4>1. m \in Cells(capacity) /\ a[m] # Null /\ a[m].key \in Words
        BY <1>2 DEF U, UsedIn, Element
      <4>2. ~(Home(a[m].key, 2 * capacity) < 0)
        BY <1>1, <1>9, <2>7, <4>1 DEF a
      <4>3. Home(a[m].key, 2 * capacity) \in Int
        BY <1>3, <4>1, HomeType
      <4>4. QED
        BY <4>2, <4>3
    <3>2. QED
      BY <3>1
  <2>8. TableInv'
    <3>1. ASSUME pc' # "overrun", NEW k \in Used'
          PROVE  PlacedIn(elements', 2 * capacity, k)
      <4>1. PICK m \in U : elements'[k] = a[m] /\ Home(a[m].key, 2 * capacity) = k
        BY <2>3
      <4>2. k \in Nat
        BY <1>3, <2>2 DEF UsedIn, Cells
      <4>3. QED
        BY <4>1, <4>2 DEF PlacedIn
    <3>2. QED
      BY <2>1, <3>1 DEF TableInv
  <2>9. CountInv'
    <3> SUFFICES ASSUME pc' # "overrun"
                 PROVE  /\ \A k \in Used' : elements'[k].value
                                               \in 1 .. seen'[elements'[k].key]
                        /\ \A u \in Words :
                              \/ seen'[u] = 0
                              \/ \E k \in Used' : /\ elements'[k].key = u
                                                  /\ elements'[k].value = seen'[u]
                              \/ Robbed(u)'
      BY DEF CountInv
    <3>1. \A k \in Used' : elements'[k].value \in 1 .. seen'[elements'[k].key]
      BY <1>5, <2>3
    <3>2. ASSUME NEW u \in Words, seen'[u] > 0,
                 \A m \in U : a[m].key = u => a[m].value < seen'[u],
                 \E v \in Words \ {u} : seen'[v] > 0 /\ Collide(u, v)'
          PROVE  Robbed(u)'
      BY <2>3, <3>2 DEF Robbed
    <3>3. ASSUME NEW u \in Words, NEW m \in U, a[m].key = u, a[m].value = seen'[u]
          PROVE  \/ \E k \in Used' : /\ elements'[k].key = u
                                     /\ elements'[k].value = seen'[u]
                 \/ Robbed(u)'
      <4> DEFINE k == Home(u, 2 * capacity)
      <4>1. k \in Used'
        BY <2>3, <2>7, <3>3
      <4>2. PICK l \in U : elements'[k] = a[l] /\ Home(a[l].key, 2 * capacity) = k
        BY <2>3, <4>1
      <4>3. CASE l = m
        BY <3>3, <4>1, <4>2, <4>3
      <4>4. CASE l # m
        <5> PICK v : v = a[l].key
          OBVIOUS
        <5>1. v \in Words \ {u} /\ seen'[v] > 0 /\ seen'[u] > 0
          <6>1. v \in Words /\ seen'[v] \in Nat /\ seen'[u] \in Nat
            BY <1>2, <1>7 DEF U, UsedIn, Element
          <6>2. a[l].value \in 1 .. seen'[v] /\ a[m].value \in 1 .. seen'[u]
            BY <1>5, <3>3
          <6>3. v # u
            BY <1>2, <3>3, <4>4
          <6>4. QED
            BY <6>1, <6>2, <6>3
        <5>2. Collide(u, v)'
          <6>1. PICK j \in 0 .. reads : capacity = InitCapacity * 2^j
            BY DEF CapacityInv
          <6>2. j \in Nat /\ 2^j \in Nat /\ 2^(j + 1) = 2 * 2^j
            BY <1>3, <6>1, PowerIsSize, PowersDouble
          <6>3. \A x \in Nat : 2 * (InitCapacity * x) = InitCapacity * (2 * x)
            OBVIOUS
          <6>4. capacity' = InitCapacity * 2^(j + 1)
            BY <2>1, <6>1, <6>2, <6>3, Zenon
          <6>5. j + 1 \in 1 .. reads'
            BY <1>1, <1>3, <6>2
          <6>6. Home(u, capacity') = Home(v, capacity') /\ capacity' <= capacity'
            BY <1>3, <2>1, <4>2
          <6>7. capacity' \in {InitCapacity * 2^i : i \in 1 .. reads'}
            BY <6>4, <6>5
          <6>8. QED
            BY <6>6, <6>7 DEF Collide, Home
        <5>3. ASSUME NEW i \in Used', elements'[i].key = u PROVE FALSE
          <6>1. PICK o \in U : elements'[i] = a[o] /\ Home(a[o].key, 2 * capacity) = i
            BY <2>3
          <6>2. i = k
            BY <5>3, <6>1
          <6>3. QED
            BY <4>2, <5>1, <5>3, <6>2
        <5>4. \A i \in Used' : elements'[i].key = u => elements'[i].value < seen'[u]
          BY <5>3
        <5>5. \E o \in Words \ {u} : seen'[o] > 0 /\ Collide(u, o)'
          BY <5>1, <5>2
        <5>6. QED
          BY <5>1, <5>4, <5>5 DEF Robbed
      <4>5. QED
        BY <4>3, <4>4
    <3>4. QED
      BY <1>5, <3>1, <3>2, <3>3
  <2>10. QED
    BY <1>4, <2>5, <2>6, <2>8, <2>9
<1>10. QED
  BY <1>8, <1>9

LEMMA NextIInv == IInv /\ [Next]_vars => IInv'
<1> SUFFICES ASSUME IInv, [Next]_vars PROVE IInv'
  OBVIOUS
<1>1. ASSUME UNCHANGED <<table, seen, reads>>, pc' \in {pc, "done"}, pc # "overrun" \/ pc' = pc
      PROVE  IInv'
  <2>1. UNCHANGED <<elements, capacity, size, seen, reads>> /\ Used' = Used
    BY <1>1 DEF table, Used
  <2>2. TypeOK' /\ ProbeEnds' /\ CapacityInv'
    BY <1>1, <2>1 DEF IInv, TypeOK, ProbeEnds, CapacityInv
  <2>3. \A u, v : Collide(u, v)' = Collide(u, v)
    BY <2>1 DEF Collide, Home
  <2>4. TableInv'
    BY <1>1, <2>1 DEF IInv, TableInv
  <2>5. CountInv'
    BY <1>1, <2>1, <2>3 DEF IInv, CountInv, Robbed
  <2>6. QED
    BY <2>2, <2>4, <2>5 DEF IInv
<1>2. CASE EndOfFile
  BY <1>1, <1>2 DEF EndOfFile
<1>3. CASE UNCHANGED vars
  BY <1>1, <1>3 DEF vars
<1>4. QED
  BY <1>2, <1>3, OverrunKeeps, CountKeeps, AddElementKeeps DEF Next

LEMMA AlwaysIInv == Spec => []IInv
  BY InitIInv, NextIInv, PTL DEF Spec

-----------------------------------------------------------------------------
(* What follows from it.                                                   *)

\* The types, for any words and any hashes: rehash always makes an array of
\* twice the size and every count is a number.
THEOREM TypeCorrect == Spec => []TypeOK
<1>1. IInv => TypeOK
  BY DEF IInv
<1>2. QED
  BY <1>1, AlwaysIInv, PTL

\* The table is never loaded beyond its limit, so that the loop of add_element
\* ends: size counts every element at least once, for any load below one.
THEOREM ProbesEnd == Spec => []ProbeEnds
<1>1. IInv => ProbeEnds
  BY DEF IInv
<1>2. QED
  BY <1>1, AlwaysIInv, PTL

\* get_element finds every element where it is and no word has two, whatever
\* the hashes and however often the table has been rehashed.
THEOREM StoredIsFound == Spec => []FoundWhereStored
<1>1. IInv => FoundWhereStored
  BY FoundAtItsPlace DEF IInv, TableInv, FoundWhereStored
<1>2. QED
  BY <1>1, AlwaysIInv, PTL

\* No word is counted more often than it was read, and less often only after
\* it has shared its home in a new array with another word.
THEOREM CountsAreExplained == Spec => []CountsAreRight
<1>1. ASSUME IInv PROVE CountsAreRight
  <2> SUFFICES ASSUME pc # "overrun", NEW w \in Words,
                      NEW counts, counts = IF CountOf(w) = {} THEN {0} ELSE CountOf(w)
               PROVE  \/ counts = {seen[w]}
                      \/ /\ \A k \in counts : k < seen[w]
                         /\ \E v \in Words \ {w} : seen[v] > 0 /\ Collide(w, v)
    BY DEF CountsAreRight
  <2>1. /\ CountOf(w) = {elements[n].value : n \in {m \in Used : elements[m].key = w}}
        /\ seen[w] \in Nat
    BY <1>1 DEF CountOf, IInv, TypeOK
  <2>2. \A n, m \in Used : elements[n].key = w /\ elements[m].key = w => n = m
    <3>1. \A n \in Used : Found(elements[n].key) = {n}
      BY <1>1, FoundAtItsPlace DEF IInv, TableInv
    <3>2. QED
      BY <3>1
  <2>3. \A n \in Used : elements[n].key = w => elements[n].value \in 1 .. seen[w]
    BY <1>1 DEF IInv, CountInv
  <2>4. CASE seen[w] = 0
    BY <2>1, <2>3, <2>4
  <2>5. CASE \E n \in Used : elements[n].key = w /\ elements[n].value = seen[w]
    BY <2>1, <2>2, <2>5
  <2>6. CASE Robbed(w)
    BY <2>1, <2>6 DEF Robbed
  <2>7. QED
    BY <1>1, <2>4, <2>5, <2>6 DEF IInv, CountInv
<1>2. QED
  BY <1>1, AlwaysIInv, PTL

=============================================================================

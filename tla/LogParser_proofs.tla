-------------------------- MODULE LogParser_proofs --------------------------
(* Proofs about LogParser, for every directory and any number of threads.  *)
EXTENDS LogParser, SequenceTheorems, FiniteSetTheorems, WellFoundedInduction, TLAPS

USE InputAssumption

\* The threads asked for number the first identifiers.
LEMMA AskedIds == \A n \in ThreadCounts : 0 .. n - 1 \subseteq Ids /\ n \in Nat \ {0}
  BY DEF Ids

\* The first files go to one thread each; later ones go round again.
LEMMA BucketIndex ==
    \A k \in Nat, n \in Nat \ {0} :
        k % n \in 0 .. n - 1 /\ k % n <= k /\ (k < n => k % n = k)
<1> SUFFICES ASSUME NEW k \in Nat, NEW n \in Nat \ {0}
             PROVE  k % n \in 0 .. n - 1 /\ k % n <= k /\ (k < n => k % n = k)
  OBVIOUS
<1>1. k % n \in 0 .. n - 1
  OBVIOUS
<1>2. k < n => k % n = k
  OBVIOUS
<1>3. QED
  BY <1>1, <1>2

\* While files are dealt out, the threads with a file are those below index;
\* so nothing is left behind the first thread that has none.
Filled ==
    /\ index \in Nat /\ i \in Nat /\ nthreads \in Nat
    /\ buckets \in [Ids -> Seq(Regular)]
    /\ pc \in {"split", "create", "join", "report", "done"}
    /\ pc \in {"split", "create"} =>
         /\ nthreads \in ThreadCounts
         /\ i <= nthreads
         /\ \A t \in Ids : t < nthreads => (buckets[t] = <<>> <=> index <= t)
         /\ \A t \in Ids : t >= nthreads => buckets[t] = <<>>
    /\ NoBucketLeftOut

\* A file is dealt out once: the names in the buckets are all different, and
\* none of them is still to come from readdir.
Dealt ==
    /\ FilesArePrivate
    /\ \A t \in Ids : \A m \in DOMAIN buckets[t] : buckets[t][m] \notin dir

\* The threads below index, and only they, have files until main has created
\* the threads.
LEMMA FilledAlways == Spec => []Filled
<1>1. Init => Filled
  BY AskedIds DEF Init, Filled, NoBucketLeftOut
<1>2. Filled /\ [Next]_vars => Filled'
  <2> SUFFICES ASSUME Filled, [Next]_vars PROVE Filled'
    OBVIOUS
  <2> USE DEF Filled
  <2>1. ASSUME NEW e \in Entries, DealOut(e) PROVE Filled'
    <3>1. CASE e \notin Regular
      BY <2>1, <3>1 DEF DealOut, NoBucketLeftOut
    <3>2. CASE e \in Regular
      <4> DEFINE b == index % nthreads
      <4>1. /\ pc = "split" /\ pc' = "split"
            /\ nthreads' = nthreads /\ i' = i /\ index' = index + 1
            /\ buckets' = [buckets EXCEPT ![b] = Append(@, e)]
        BY <2>1, <3>2 DEF DealOut, Bucket
      <4>2. nthreads \in ThreadCounts /\ nthreads \in Nat \ {0}
        BY <4>1, AskedIds
      <4>3. b \in 0 .. nthreads - 1 /\ b <= index /\ (index < nthreads => b = index)
        BY <4>2, BucketIndex
      <4>4. b \in Ids
        BY <4>2, <4>3, AskedIds
      <4> HIDE DEF b
      <4>5. buckets' \in [Ids -> Seq(Regular)]
        BY <3>2, <4>1, <4>4
      <4>6. buckets'[b] # <<>>
        BY <4>1, <4>4
      <4>7. \A t \in Ids : t # b => buckets'[t] = buckets[t]
        BY <4>1, <4>4
      <4>8. ASSUME NEW t \in Ids, t < nthreads
            PROVE  buckets'[t] = <<>> <=> index + 1 <= t
        <5>1. t \in Nat
          BY AskedIds DEF Ids
        <5>2. CASE t = b
          BY <5>1, <5>2, <4>3, <4>6
        <5>3. CASE t # b
          BY <5>1, <5>3, <4>1, <4>2, <4>3, <4>7, <4>8
        <5>4. QED
          BY <5>2, <5>3
      <4>9. ASSUME NEW t \in Ids, t >= nthreads PROVE buckets'[t] = <<>>
        <5>1. t \in Nat /\ b < nthreads
          BY <4>2, <4>3 DEF Ids
        <5>2. t # b
          BY <4>2, <4>3, <4>9, <5>1
        <5>3. QED
          BY <4>1, <4>7, <4>9, <5>2
      <4>10. QED
        BY <4>1, <4>2, <4>5, <4>8, <4>9 DEF NoBucketLeftOut
    <3>3. QED
      BY <3>1, <3>2
  <2>2. CASE EndOfDir
    BY <2>2 DEF EndOfDir, NoBucketLeftOut
  <2>3. CASE CreateThread
    BY <2>3, AskedIds DEF CreateThread, NoBucketLeftOut
  <2>4. CASE EndOfCreate
    <3>1. /\ pc = "create" /\ pc' = "join" /\ nthreads' = i /\ i' = 0
          /\ UNCHANGED <<index, buckets>>
          /\ i < nthreads => buckets[i] = <<>>
      BY <2>4 DEF EndOfCreate
    <3>2. ASSUME NEW t \in Ids, t >= i PROVE buckets[t] = <<>>
      <4>1. t \in Nat /\ nthreads \in ThreadCounts /\ nthreads \in Nat
        BY <3>1, AskedIds DEF Ids
      <4>2. CASE t >= nthreads
        BY <3>1, <4>2
      <4>3. CASE i < nthreads /\ t < nthreads
        <5>1. i \in Ids
          BY <4>1, <4>3, AskedIds
        <5>2. index <= i
          BY <3>1, <4>3, <5>1
        <5>3. QED
          BY <3>1, <3>2, <4>1, <4>3, <5>2
      <4>4. QED
        BY <3>1, <3>2, <4>1, <4>2, <4>3
    <3>3. QED
      BY <3>1, <3>2 DEF NoBucketLeftOut
  <2>5. CASE JoinThread
    BY <2>5 DEF JoinThread, NoBucketLeftOut
  <2>6. CASE EndOfJoin
    BY <2>6 DEF EndOfJoin, NoBucketLeftOut
  <2>7. CASE Report
    BY <2>7 DEF Report, NoBucketLeftOut
  <2>8. ASSUME UNCHANGED main PROVE Filled'
    BY <2>8 DEF main, NoBucketLeftOut
  <2>9. QED
    BY <2>1, <2>2, <2>3, <2>4, <2>5, <2>6, <2>7, <2>8
       DEF Next, Main, Thread, ParseLine, CloseFile, Terminated, vars
<1>3. QED
  BY <1>1, <1>2, PTL DEF Spec

\* Every bucket with a file in it gets a thread, for any number of files and
\* of threads: main may stop creating threads at the first empty bucket.
LEMMA EveryBucketGetsAThread == Spec => []NoBucketLeftOut
<1>1. Filled => NoBucketLeftOut
  BY DEF Filled
<1>2. QED
  BY <1>1, FilledAlways, PTL

LEMMA DealtAlways == Spec => []Dealt
<1>1. Init => Dealt
  BY DEF Init, Dealt, FilesArePrivate
<1>2. Filled /\ Dealt /\ [Next]_vars => Dealt'
  <2> SUFFICES ASSUME Filled, Dealt, [Next]_vars PROVE Dealt'
    OBVIOUS
  <2>1. ASSUME NEW e \in Entries, DealOut(e), e \in Regular PROVE Dealt'
    <3> DEFINE b == index % nthreads
    <3>1. /\ e \in dir /\ dir' = dir \ {e}
          /\ buckets' = [buckets EXCEPT ![b] = Append(@, e)]
          /\ nthreads \in ThreadCounts
      BY <2>1 DEF DealOut, Bucket, Filled
    <3>2. b \in Ids
      BY <3>1, AskedIds, BucketIndex DEF Filled
    <3> HIDE DEF b
    <3>3. buckets \in [Ids -> Seq(Regular)]
      BY DEF Filled
    <3> DEFINE last == Len(buckets[b]) + 1
    <3>4. /\ DOMAIN buckets'[b] = DOMAIN buckets[b] \cup {last}
          /\ last \notin DOMAIN buckets[b]
          /\ buckets'[b][last] = e
          /\ \A m \in DOMAIN buckets[b] : buckets'[b][m] = buckets[b][m]
      BY <2>1, <3>1, <3>2, <3>3
    <3>5. \A t \in Ids : t # b => buckets'[t] = buckets[t]
      BY <3>1, <3>2, <3>3
    <3> HIDE DEF last
    <3>6. \A t \in Ids : \A m \in DOMAIN buckets'[t] :
             buckets'[t][m] = e <=> t = b /\ m = last
      BY <3>1, <3>4, <3>5 DEF Dealt
    <3>7. FilesArePrivate'
      BY <3>4, <3>5, <3>6 DEF Dealt, FilesArePrivate
    <3>8. \A t \in Ids : \A m \in DOMAIN buckets'[t] : buckets'[t][m] \notin dir'
      BY <3>1, <3>4, <3>5, <3>6 DEF Dealt
    <3>9. QED
      BY <3>7, <3>8 DEF Dealt
  <2>2. ASSUME UNCHANGED buckets, dir' \subseteq dir PROVE Dealt'
    BY <2>2 DEF Dealt, FilesArePrivate
  <2>3. ASSUME NEW e \in Entries, DealOut(e), e \notin Regular PROVE Dealt'
    BY <2>2, <2>3 DEF DealOut
  <2>4. QED
    BY <2>1, <2>2, <2>3
       DEF Next, Main, Thread, EndOfDir, CreateThread, EndOfCreate, JoinThread,
           EndOfJoin, Report, ParseLine, CloseFile, Terminated, main, vars
<1>3. QED
  BY <1>1, <1>2, FilledAlways, PTL DEF Spec

\* No two threads ever get the same file, and no thread gets one twice, in
\* whatever order the directory is listed.
LEMMA FilesStayPrivate == Spec => []FilesArePrivate
<1>1. Dealt => FilesArePrivate
  BY DEF Dealt
<1>2. QED
  BY <1>1, DealtAlways, PTL

\* The two together: a file that was dealt out is read by one thread, and by
\* one only, although split_files and the loop of main rest on a count.
THEOREM FilesHaveOneThread == Spec => []EachFileOneThread
<1>1. NoBucketLeftOut /\ FilesArePrivate => EachFileOneThread
  BY DEF EachFileOneThread
<1>2. QED
  BY <1>1, EveryBucketGetsAThread, FilesStayPrivate, PTL

-----------------------------------------------------------------------------
(* The sizes of a set of lines.                                            *)

\* A line of a file that can be opened.
LEMMA PlaceTypes ==
    ASSUME NEW p \in Places
    PROVE  /\ p = <<p[1], p[2]>> /\ p[1] \in Regular
           /\ p[2] \in 1 .. Len(Lines[p[1]]) /\ LineAt(p) \in Line
           /\ Size(p) \in Nat
<1>1. PICK f \in Regular : p \in {f} \X (1 .. Len(Lines[f]))
  BY DEF Places
<1>2. /\ p = <<p[1], p[2]>> /\ p[1] \in Regular /\ p[2] \in 1 .. Len(Lines[p[1]])
      /\ Lines[p[1]] \in Seq(Line)
  BY <1>1
<1>3. LineAt(p) \in Line
  BY <1>2 DEF LineAt
<1>4. QED
  BY <1>2, <1>3 DEF Size, Line

\* As many pairs as there are numbers.
LEMMA CellsAreFinite ==
    ASSUME NEW x, NEW n \in Nat
    PROVE  /\ IsFiniteSet({x} \X (1 .. n))
           /\ Cardinality({x} \X (1 .. n)) = n
<1>1. IsFiniteSet({x}) /\ Cardinality({x}) = 1
  BY FS_Singleton
<1>2. IsFiniteSet(1 .. n) /\ Cardinality(1 .. n) = n
  <2>1. /\ IsFiniteSet(1 .. n)
        /\ Cardinality(1 .. n) = IF 1 > n THEN 0 ELSE n - 1 + 1
    BY FS_Interval
  <2>2. QED
    BY <2>1
<1> DEFINE B == 1 .. n
<1> HIDE DEF B
<1>3. IsFiniteSet(B) /\ Cardinality(B) = n
  BY <1>2 DEF B
<1>4. /\ IsFiniteSet({x} \X B)
      /\ Cardinality({x} \X B) = Cardinality({x}) * Cardinality(B)
  BY <1>1, <1>3, FS_Product
<1>5. Cardinality({x} \X B) = n
  BY <1>1, <1>3, <1>4
<1>6. QED
  BY <1>4, <1>5 DEF B

LEMMA PlacesAreFinite == IsFiniteSet(Places)
<1> DEFINE of(f) == {f} \X (1 .. Len(Lines[f]))
           S     == {of(f) : f \in Regular}
           g     == [f \in Regular |-> of(f)]
<1>1. ASSUME NEW f \in Regular PROVE IsFiniteSet(of(f))
  <2>1. Len(Lines[f]) \in Nat
    OBVIOUS
  <2>2. QED
    BY <2>1, CellsAreFinite
<1>2. IsFiniteSet(Regular)
  BY FS_Subset
<1>3. g \in Surjection(Regular, S)
  BY DEF Surjection
<1>4. IsFiniteSet(S) /\ \A T \in S : IsFiniteSet(T)
  <2> HIDE DEF g, of
  <2>1. IsFiniteSet(S)
    BY <1>2, <1>3, FS_Surjection
  <2>2. QED
    BY <1>1, <2>1
<1>5. Places = UNION S
  BY DEF Places
<1> HIDE DEF S
<1>6. QED
  BY <1>4, <1>5, FS_UNION

\* One unit for every byte of a set of lines: what Weight counts.
Units(P) == {q \in P \X Nat : q[2] \in 1 .. Size(q[1])}

LEMMA UnitsAreFinite ==
    ASSUME NEW P \in SUBSET Places
    PROVE  IsFiniteSet(Units(P)) /\ Cardinality(Units(P)) \in Nat
<1> DEFINE of(p) == {p} \X (1 .. Size(p))
           S     == {of(p) : p \in P}
           g     == [p \in P |-> of(p)]
<1>1. ASSUME NEW p \in P PROVE IsFiniteSet(of(p))
  <2>1. Size(p) \in Nat
    BY PlaceTypes
  <2>2. QED
    BY <2>1, CellsAreFinite
<1>2. IsFiniteSet(P)
  BY PlacesAreFinite, FS_Subset
<1>3. g \in Surjection(P, S)
  BY DEF Surjection
<1>4. IsFiniteSet(S) /\ \A T \in S : IsFiniteSet(T)
  <2> HIDE DEF g, of
  <2>1. IsFiniteSet(S)
    BY <1>2, <1>3, FS_Surjection
  <2>2. QED
    BY <1>1, <2>1
<1>5. Units(P) = UNION S
  <2>1. \A p \in P : 1 .. Size(p) \subseteq Nat
    BY PlaceTypes
  <2>2. QED
    BY <2>1 DEF Units
<1> HIDE DEF S
<1>6. IsFiniteSet(Units(P))
  BY <1>4, <1>5, FS_UNION
<1>7. QED
  BY <1>6, FS_CardinalityType

LEMMA UnitsOfOne ==
    ASSUME NEW p \in Places
    PROVE  Cardinality(Units({p})) = Size(p)
<1>1. Size(p) \in Nat
  BY PlaceTypes
<1>2. Units({p}) = {p} \X (1 .. Size(p))
  BY <1>1 DEF Units
<1>3. QED
  BY <1>1, <1>2, CellsAreFinite, Zenon

\* Two finite sets without a common element.
LEMMA DisjointSizes ==
    ASSUME NEW A, NEW B, IsFiniteSet(A), IsFiniteSet(B), A \cap B = {}
    PROVE  Cardinality(A \cup B) = Cardinality(A) + Cardinality(B)
<1>1. Cardinality(A \cup B) = Cardinality(A) + Cardinality(B) - Cardinality({})
  BY FS_Union
<1>2. Cardinality({}) = 0
  BY FS_EmptySet
<1>3. Cardinality(A) \in Nat /\ Cardinality(B) \in Nat
  BY FS_CardinalityType
<1> DEFINE m == Cardinality(A)
           n == Cardinality(B)
<1> HIDE DEF m, n
<1>4. Cardinality(A \cup B) = m + n - 0
  BY <1>1, <1>2 DEF m, n
<1>5. m \in Nat /\ n \in Nat
  BY <1>3 DEF m, n
<1>6. Cardinality(A \cup B) = m + n
  BY <1>4, <1>5
<1>7. QED
  BY <1>6 DEF m, n

LEMMA UnitsAdd ==
    ASSUME NEW P \in SUBSET Places, NEW Q \in SUBSET Places, P \cap Q = {}
    PROVE  Cardinality(Units(P \cup Q)) = Cardinality(Units(P)) + Cardinality(Units(Q))
<1>1. Units(P \cup Q) = Units(P) \cup Units(Q) /\ Units(P) \cap Units(Q) = {}
  BY DEF Units
<1>2. IsFiniteSet(Units(P)) /\ IsFiniteSet(Units(Q))
  BY UnitsAreFinite
<1>3. QED
  BY <1>1, <1>2, DisjointSizes

\* The function that the fold over a set of lines defines on its subsets.
Pick(s)        == CHOOSE p \in s : TRUE
IsFold(g, P) == g = [s \in SUBSET P |-> IF s = {} THEN 0
                                        ELSE Size(Pick(s)) + g[s \ {Pick(s)}]]

LEMMA WeightIsFold ==
    \A P : \E g : g = (CHOOSE h : IsFold(h, P)) /\ Weight(P) = g[P]
  BY DEF Weight, MapThenSumSet, MapThenFoldSet, IsFold, Pick

\* The order in which the fold takes the lines does not matter: it counts
\* their units.
LEMMA WeightCounts ==
    ASSUME NEW P \in SUBSET Places
    PROVE  Weight(P) = Cardinality(Units(P))
<1> DEFINE g == [s \in SUBSET P |-> Cardinality(Units(s))]
<1>1. Cardinality(Units({})) = 0
  <2>1. Units({}) = {}
    BY DEF Units
  <2>2. QED
    BY <2>1, FS_EmptySet
<1>2. ASSUME NEW s \in SUBSET P, s # {}
      PROVE  /\ Pick(s) \in s
             /\ Cardinality(Units(s))
                   = Size(Pick(s)) + Cardinality(Units(s \ {Pick(s)}))
  <2>1. Pick(s) \in s
    BY <1>2 DEF Pick
  <2> DEFINE p == Pick(s)
  <2> HIDE DEF p
  <2>2. p \in Places /\ s \ {p} \in SUBSET Places /\ {p} \in SUBSET Places
    BY <2>1 DEF p
  <2>3. {p} \cup (s \ {p}) = s /\ {p} \cap (s \ {p}) = {}
    BY <2>1 DEF p
  <2>4. Cardinality(Units(s)) = Cardinality(Units({p})) + Cardinality(Units(s \ {p}))
    BY <2>2, <2>3, UnitsAdd
  <2>5. QED
    BY <2>1, <2>2, <2>4, UnitsOfOne DEF p
<1>3. IsFold(g, P)
  <2>1. \A s \in SUBSET P : s \ {Pick(s)} \in SUBSET P
    OBVIOUS
  <2>2. QED
    BY <1>1, <1>2, <2>1 DEF IsFold
<1>4. PICK h : IsFold(h, P) /\ Weight(P) = h[P]
  <2> HIDE DEF g
  <2>1. IsFold(CHOOSE h : IsFold(h, P), P)
    BY <1>3, Zenon
  <2>2. QED
    BY <2>1, WeightIsFold, Zenon
<1> DEFINE B == {s \in SUBSET P : h[s] # g[s]}
<1>5. B = {}
  <2> SUFFICES ASSUME B # {} PROVE FALSE
    OBVIOUS
  <2>1. B \subseteq FiniteSubsetsOf(P)
    BY PlacesAreFinite, FS_Subset DEF FiniteSubsetsOf
  <2>2. PICK s \in B : \A r \in B : <<r, s>> \notin StrictSubsetOrdering(P)
    <3> HIDE DEF B
    <3>1. QED
      BY <2>1, FS_StrictSubsetOrderingWellFounded, WFMin
  <2>3. s \in SUBSET P /\ h[s] # g[s]
    OBVIOUS
  <2>4. s # {}
    BY <1>1, <1>4, <2>3 DEF IsFold
  <2> DEFINE r == s \ {Pick(s)}
  <2>5. r \in SUBSET P /\ r # s /\ r \subseteq s
    BY <1>2, <2>3, <2>4
  <2>6. <<r, s>> \in StrictSubsetOrdering(P)
    BY <2>3, <2>5 DEF StrictSubsetOrdering
  <2>7. h[r] = g[r]
    BY <2>2, <2>5, <2>6
  <2>8. h[s] = Size(Pick(s)) + h[r]
    BY <1>4, <2>3, <2>4 DEF IsFold
  <2>9. g[s] = Size(Pick(s)) + g[r]
    BY <1>2, <2>3, <2>4, <2>5
  <2> HIDE DEF g, r
  <2>10. QED
    BY <2>3, <2>7, <2>8, <2>9
<1>6. QED
  BY <1>4, <1>5

\* The sum over two sets of lines that have none in common.
LEMMA WeightAdds ==
    /\ Weight({}) = 0
    /\ \A P \in SUBSET Places : Weight(P) \in Nat
    /\ \A p \in Places : Weight({p}) = Size(p)
    /\ \A P, Q \in SUBSET Places : P \cap Q = {} => Weight(P \cup Q) = Weight(P) + Weight(Q)
<1>1. Weight({}) = 0
  <2>1. Units({}) = {} /\ {} \in SUBSET Places
    BY DEF Units
  <2>2. QED
    BY <2>1, WeightCounts, FS_EmptySet
<1>2. \A P \in SUBSET Places : Weight(P) \in Nat
  BY WeightCounts, UnitsAreFinite
<1>3. ASSUME NEW p \in Places PROVE Weight({p}) = Size(p)
  <2>1. {p} \in SUBSET Places
    OBVIOUS
  <2>2. QED
    BY <2>1, WeightCounts, UnitsOfOne
<1>4. ASSUME NEW P \in SUBSET Places, NEW Q \in SUBSET Places, P \cap Q = {}
      PROVE  Weight(P \cup Q) = Weight(P) + Weight(Q)
  <2>1. P \cup Q \in SUBSET Places
    OBVIOUS
  <2>2. QED
    BY <1>4, <2>1, WeightCounts, UnitsAdd
<1>5. QED
  BY <1>1, <1>2, <1>3, <1>4

-----------------------------------------------------------------------------
(* What the statistics are after a set of GET lines, in whatever order they *)
(* were read.                                                               *)

OfUrl(P, u) == {p \in P : LineAt(p).url = u}
OfRef(P, r) == {p \in P : LineAt(p).ref = r}
UrlTally(P) == [u \in {LineAt(p).url : p \in P} |-> Weight(OfUrl(P, u))]
RefTally(P) == [r \in {LineAt(p).ref : p \in P} \ {NoRef} |-> Cardinality(OfRef(P, r))]
Tally(P)    == [urls |-> UrlTally(P), refs |-> RefTally(P), bytes |-> Weight(P)]

LEMMA TallyOfAll == Tally(Gets) = Reference
  BY Zenon DEF Tally, UrlTally, RefTally, OfUrl, OfRef, Reference

\* Sets of lines and their parts are finite.
LEMMA PartsAreFinite ==
    \A P \in SUBSET Places :
       /\ IsFiniteSet(P) /\ Cardinality(P) \in Nat
       /\ \A x : OfUrl(P, x) \in SUBSET Places /\ OfRef(P, x) \in SUBSET Places
<1>1. ASSUME NEW P \in SUBSET Places PROVE IsFiniteSet(P) /\ Cardinality(P) \in Nat
  BY PlacesAreFinite, FS_Subset, FS_CardinalityType
<1>2. QED
  BY <1>1 DEF OfUrl, OfRef

LEMMA TallyOfNone == Tally({}) = NoStats
<1>1. UrlTally({}) = NoEntries
  BY DEF UrlTally, NoEntries
<1>2. RefTally({}) = NoEntries
  BY DEF RefTally, NoEntries
<1>3. QED
  BY <1>1, <1>2, WeightAdds DEF Tally, NoStats

\* Adding an entry is merging a map that has only that one.
LEMMA EntryIsMap ==
    ASSUME NEW map, NEW key, NEW delta
    PROVE  AddEntry(map, key, delta) = Merge(map, [k \in {key} |-> delta])
  BY DEF AddEntry, Merge

\* Merging what two threads counted is counting the lines of both.
LEMMA UrlsMerge ==
    ASSUME NEW P \in SUBSET Places, NEW Q \in SUBSET Places, P \cap Q = {}
    PROVE  Merge(UrlTally(P), UrlTally(Q)) = UrlTally(P \cup Q)
<1> DEFINE U(S) == {LineAt(p).url : p \in S}
<1>1. U(P \cup Q) = U(P) \cup U(Q)
  OBVIOUS
<1>2. DOMAIN UrlTally(P) = U(P) /\ DOMAIN UrlTally(Q) = U(Q)
  BY DEF UrlTally
<1>3. ASSUME NEW u \in U(P) \cup U(Q)
      PROVE  (IF u \in U(P) THEN UrlTally(P)[u] ELSE 0)
               + (IF u \in U(Q) THEN UrlTally(Q)[u] ELSE 0) = Weight(OfUrl(P \cup Q, u))
  <2>1. /\ OfUrl(P \cup Q, u) = OfUrl(P, u) \cup OfUrl(Q, u)
        /\ OfUrl(P, u) \cap OfUrl(Q, u) = {}
    BY DEF OfUrl
  <2>2. OfUrl(P, u) \in SUBSET Places /\ OfUrl(Q, u) \in SUBSET Places
    BY PartsAreFinite
  <2>3. /\ Weight(OfUrl(P \cup Q, u)) = Weight(OfUrl(P, u)) + Weight(OfUrl(Q, u))
        /\ Weight(OfUrl(P, u)) \in Nat /\ Weight(OfUrl(Q, u)) \in Nat
    BY <2>1, <2>2, WeightAdds
  <2>4. (IF u \in U(P) THEN UrlTally(P)[u] ELSE 0) = Weight(OfUrl(P, u))
    <3>1. CASE u \in U(P)
      BY <3>1 DEF UrlTally
    <3>2. CASE u \notin U(P)
      <4>1. OfUrl(P, u) = {}
        BY <3>2 DEF OfUrl
      <4>2. QED
        BY <3>2, <4>1, WeightAdds
    <3>3. QED
      BY <3>1, <3>2
  <2>5. (IF u \in U(Q) THEN UrlTally(Q)[u] ELSE 0) = Weight(OfUrl(Q, u))
    <3>1. CASE u \in U(Q)
      BY <3>1 DEF UrlTally
    <3>2. CASE u \notin U(Q)
      <4>1. OfUrl(Q, u) = {}
        BY <3>2 DEF OfUrl
      <4>2. QED
        BY <3>2, <4>1, WeightAdds
    <3>3. QED
      BY <3>1, <3>2
  <2>6. QED
    BY <2>3, <2>4, <2>5
<1>4. UrlTally(P \cup Q) = [u \in U(P) \cup U(Q) |-> Weight(OfUrl(P \cup Q, u))]
  BY <1>1 DEF UrlTally
<1> HIDE DEF U
<1>5. QED
  BY <1>2, <1>3, <1>4 DEF Merge

LEMMA RefsMerge ==
    ASSUME NEW P \in SUBSET Places, NEW Q \in SUBSET Places, P \cap Q = {}
    PROVE  Merge(RefTally(P), RefTally(Q)) = RefTally(P \cup Q)
<1> DEFINE R(S) == {LineAt(p).ref : p \in S} \ {NoRef}
<1>1. R(P \cup Q) = R(P) \cup R(Q)
  OBVIOUS
<1>2. DOMAIN RefTally(P) = R(P) /\ DOMAIN RefTally(Q) = R(Q)
  BY DEF RefTally
<1>3. ASSUME NEW r \in R(P) \cup R(Q)
      PROVE  (IF r \in R(P) THEN RefTally(P)[r] ELSE 0)
               + (IF r \in R(Q) THEN RefTally(Q)[r] ELSE 0) = Cardinality(OfRef(P \cup Q, r))
  <2>1. /\ OfRef(P \cup Q, r) = OfRef(P, r) \cup OfRef(Q, r)
        /\ OfRef(P, r) \cap OfRef(Q, r) = {}
    BY DEF OfRef
  <2>2. OfRef(P, r) \in SUBSET Places /\ OfRef(Q, r) \in SUBSET Places
    BY PartsAreFinite
  <2>3. /\ IsFiniteSet(OfRef(P, r)) /\ IsFiniteSet(OfRef(Q, r))
        /\ Cardinality(OfRef(P, r)) \in Nat /\ Cardinality(OfRef(Q, r)) \in Nat
    BY <2>2, PartsAreFinite
  <2>4. Cardinality(OfRef(P \cup Q, r)) = Cardinality(OfRef(P, r)) + Cardinality(OfRef(Q, r))
    BY <2>1, <2>3, DisjointSizes
  <2>5. (IF r \in R(P) THEN RefTally(P)[r] ELSE 0) = Cardinality(OfRef(P, r))
    <3>1. CASE r \in R(P)
      BY <3>1 DEF RefTally
    <3>2. CASE r \notin R(P)
      <4>1. OfRef(P, r) = {}
        BY <3>2 DEF OfRef
      <4>2. QED
        BY <3>2, <4>1, FS_EmptySet
    <3>3. QED
      BY <3>1, <3>2
  <2>6. (IF r \in R(Q) THEN RefTally(Q)[r] ELSE 0) = Cardinality(OfRef(Q, r))
    <3>1. CASE r \in R(Q)
      BY <3>1 DEF RefTally
    <3>2. CASE r \notin R(Q)
      <4>1. OfRef(Q, r) = {}
        BY <3>2 DEF OfRef
      <4>2. QED
        BY <3>2, <4>1, FS_EmptySet
    <3>3. QED
      BY <3>1, <3>2
  <2>7. QED
    BY <2>3, <2>4, <2>5, <2>6
<1>4. RefTally(P \cup Q) = [r \in R(P) \cup R(Q) |-> Cardinality(OfRef(P \cup Q, r))]
  BY <1>1 DEF RefTally
<1> HIDE DEF R
<1>5. QED
  BY <1>2, <1>3, <1>4 DEF Merge

LEMMA TalliesMerge ==
    ASSUME NEW P \in SUBSET Places, NEW Q \in SUBSET Places, P \cap Q = {}
    PROVE  [urls  |-> Merge(Tally(P).urls, Tally(Q).urls),
            refs  |-> Merge(Tally(P).refs, Tally(Q).refs),
            bytes |-> Tally(P).bytes + Tally(Q).bytes] = Tally(P \cup Q)
  BY UrlsMerge, RefsMerge, WeightAdds DEF Tally

\* Parsing one more GET line is counting it with the others; any other line
\* changes nothing.
LEMMA LineIsTallied ==
    ASSUME NEW P \in SUBSET Gets, NEW q \in Places, q \notin P
    PROVE  ParseLogLine(LineAt(q), Tally(P)) = Tally(P \cup ({q} \cap Gets))
<1>1. CASE q \notin Gets
  <2>1. P \cup ({q} \cap Gets) = P
    BY <1>1
  <2>2. ~LineAt(q).get
    BY <1>1 DEF Gets
  <2>3. QED
    BY <2>1, <2>2 DEF ParseLogLine
<1>2. CASE q \in Gets
  <2>1. /\ P \in SUBSET Places /\ {q} \in SUBSET Places /\ P \cap {q} = {}
        /\ P \cup ({q} \cap Gets) = P \cup {q}
    BY <1>2 DEF Gets
  <2>2. LineAt(q).get /\ Size(q) = LineAt(q).size /\ Size(q) \in Nat
    BY <1>2, PlaceTypes DEF Gets, Size
  <2> DEFINE url == LineAt(q).url
             ref == LineAt(q).ref
  <2>3. UrlTally({q}) = [u \in {url} |-> Size(q)]
    <3>1. OfUrl({q}, url) = {q}
      BY DEF OfUrl
    <3>2. Weight(OfUrl({q}, url)) = Size(q)
      BY <3>1, WeightAdds
    <3>3. {LineAt(p).url : p \in {q}} = {url}
      OBVIOUS
    <3> HIDE DEF url
    <3>4. QED
      BY <3>2, <3>3 DEF UrlTally
  <2>4. AddEntry(UrlTally(P), url, Size(q)) = UrlTally(P \cup {q})
    <3>1. AddEntry(UrlTally(P), url, Size(q)) = Merge(UrlTally(P), [u \in {url} |-> Size(q)])
      BY EntryIsMap
    <3>2. QED
      BY <2>1, <2>3, <3>1, UrlsMerge
  <2>5. /\ P \cup ({q} \cap Gets) = P \cup {q}
        /\ ParseLogLine(LineAt(q), Tally(P))
              = [urls  |-> AddEntry(UrlTally(P), url, Size(q)),
                 refs  |-> IF ref = NoRef THEN RefTally(P) ELSE AddEntry(RefTally(P), ref, 1),
                 bytes |-> Weight(P \cup {q})]
    <3>1. Weight(P) + Size(q) = Weight(P \cup {q})
      BY <1>2, <2>1, WeightAdds
    <3>2. /\ Tally(P).urls = UrlTally(P) /\ Tally(P).refs = RefTally(P)
          /\ Tally(P).bytes = Weight(P)
      BY DEF Tally
    <3>3. QED
      BY <2>1, <2>2, <3>1, <3>2 DEF ParseLogLine
  <2>6. CASE ref = NoRef
    <3>1. RefTally({q}) = NoEntries
      BY <2>6 DEF RefTally, NoEntries
    <3>2. Merge(RefTally(P), NoEntries) = RefTally(P)
      <4>1. \A r \in DOMAIN RefTally(P) : RefTally(P)[r] \in Nat
        BY <2>1, PartsAreFinite DEF RefTally
      <4>2. RefTally(P) = [r \in DOMAIN RefTally(P) |-> RefTally(P)[r]]
        BY DEF RefTally
      <4>3. QED
        BY <4>1, <4>2 DEF Merge, NoEntries
    <3>3. RefTally(P \cup {q}) = RefTally(P)
      BY <2>1, <3>1, <3>2, RefsMerge
    <3>4. QED
      BY <2>6, <2>5, <2>4, <3>3 DEF Tally
  <2>7. CASE ref # NoRef
    <3>1. RefTally({q}) = [r \in {ref} |-> 1]
      <4>1. OfRef({q}, ref) = {q}
        BY DEF OfRef
      <4>2. Cardinality(OfRef({q}, ref)) = 1
        BY <4>1, FS_Singleton
      <4>3. {LineAt(p).ref : p \in {q}} \ {NoRef} = {ref}
        BY <2>7
      <4> HIDE DEF ref
      <4>4. QED
        BY <4>2, <4>3 DEF RefTally
    <3>2. AddEntry(RefTally(P), ref, 1) = RefTally(P \cup {q})
      <4>1. AddEntry(RefTally(P), ref, 1) = Merge(RefTally(P), [r \in {ref} |-> 1])
        BY EntryIsMap
      <4>2. QED
        BY <2>1, <3>1, <4>1, RefsMerge
    <3>3. QED
      BY <2>7, <2>5, <2>4, <3>2 DEF Tally
  <2>8. QED
    BY <2>6, <2>7
<1>3. QED
  BY <1>1, <1>2

-----------------------------------------------------------------------------
(* What has been read of the files fs of a thread when the first k of them  *)
(* are done and n lines of the next one.                                    *)

ReadTo(fs, k, n) ==
    {p \in Gets : \E m \in DOMAIN fs : p[1] = fs[m] /\ (m <= k \/ (m = k + 1 /\ p[2] <= n))}
GetsIn(fs)       == {p \in Gets : \E m \in DOMAIN fs : p[1] = fs[m]}
GetsOfFirst(bs, n) == UNION {GetsIn(bs[t]) : t \in 0 .. n - 1}

AllDifferent(fs) == \A m, n \in DOMAIN fs : fs[m] = fs[n] => m = n

LEMMA ReadNothing == \A fs \in Seq(Regular) : ReadTo(fs, 0, 0) = {}
<1> SUFFICES ASSUME NEW fs \in Seq(Regular), NEW p \in ReadTo(fs, 0, 0) PROVE FALSE
  OBVIOUS
<1>1. p \in Places
  BY DEF ReadTo, Gets
<1>2. p[2] \in 1 .. Len(Lines[p[1]]) /\ Len(Lines[p[1]]) \in Nat
  BY <1>1, PlaceTypes
<1>3. QED
  BY <1>2 DEF ReadTo

LEMMA ReadAll ==
    \A fs \in Seq(Regular) : ReadTo(fs, Len(fs), 0) = GetsIn(fs)
  BY DEF ReadTo, GetsIn

\* The next line of a file is a new place among those read.
NextIsNew(fs, k, n) ==
    LET q == <<fs[k + 1], n + 1>>
    IN  /\ q \in Places /\ q \notin ReadTo(fs, k, n)
        /\ ReadTo(fs, k, n + 1) = ReadTo(fs, k, n) \cup ({q} \cap Gets)

LEMMA ReadLine ==
    ASSUME NEW fs \in Seq(Regular), AllDifferent(fs),
           NEW k \in Nat, k < Len(fs), NEW n \in Nat, n < Len(Lines[fs[k + 1]])
    PROVE  NextIsNew(fs, k, n)
<1> DEFINE f == fs[k + 1]
           q == <<f, n + 1>>
<1>1. k + 1 \in DOMAIN fs /\ f \in Regular /\ Len(Lines[f]) \in Nat
  OBVIOUS
<1>2. q \in {f} \X (1 .. Len(Lines[f]))
  BY <1>1
<1>3. q \in Places
  BY <1>1, <1>2 DEF Places
<1>4. \A m \in DOMAIN fs : m \in Nat /\ (fs[m] = f => m = k + 1)
  BY <1>1 DEF AllDifferent
<1> HIDE DEF f
<1>5. q \notin ReadTo(fs, k, n)
  BY <1>4 DEF ReadTo
<1>6. ASSUME NEW p \in Gets
      PROVE  p \in ReadTo(fs, k, n + 1) <=> (p \in ReadTo(fs, k, n) \/ p = q)
  <2>1. p = <<p[1], p[2]>> /\ p[2] \in Nat
    <3>1. p \in Places
      BY DEF Gets
    <3>2. QED
      BY <3>1, PlaceTypes
  <2>2. p = q <=> p[1] = f /\ p[2] = n + 1
    BY <2>1
  <2>3. p[2] <= n + 1 <=> p[2] <= n \/ p[2] = n + 1
    BY <2>1
  <2>4. p \in ReadTo(fs, k, n + 1)
          <=> \E m \in DOMAIN fs : p[1] = fs[m] /\ (m <= k \/ (m = k + 1 /\ p[2] <= n + 1))
    BY DEF ReadTo
  <2>5. p \in ReadTo(fs, k, n)
          <=> \E m \in DOMAIN fs : p[1] = fs[m] /\ (m <= k \/ (m = k + 1 /\ p[2] <= n))
    BY DEF ReadTo
  <2>6. p[1] = f <=> \E m \in DOMAIN fs : p[1] = fs[m] /\ m = k + 1
    BY <1>1, <1>4 DEF f
  <2> HIDE DEF q
  <2>7. QED
    BY <2>2, <2>3, <2>4, <2>5, <2>6
<1>7. ReadTo(fs, k, n + 1) \subseteq Gets /\ ReadTo(fs, k, n) \subseteq Gets
  BY DEF ReadTo
<1> HIDE DEF q
<1>8. ReadTo(fs, k, n + 1) = ReadTo(fs, k, n) \cup ({q} \cap Gets)
  BY <1>6, <1>7
<1>9. QED
  BY <1>3, <1>5, <1>8 DEF q, f, NextIsNew

LEMMA ReadFile ==
    ASSUME NEW fs \in Seq(Regular), NEW k \in Nat, k < Len(fs)
    PROVE  ReadTo(fs, k, Len(Lines[fs[k + 1]])) = ReadTo(fs, k + 1, 0)
<1> DEFINE n == Len(Lines[fs[k + 1]])
<1>1. ASSUME NEW p \in Gets, NEW m \in DOMAIN fs, p[1] = fs[m]
      PROVE  (m <= k \/ (m = k + 1 /\ p[2] <= n))
               <=> (m <= k + 1 \/ (m = k + 1 + 1 /\ p[2] <= 0))
  <2>1. p[2] \in 1 .. Len(Lines[fs[m]]) /\ Len(Lines[fs[m]]) \in Nat
    <3>1. p \in Places
      BY DEF Gets
    <3>2. fs[m] \in Regular
      OBVIOUS
    <3>3. QED
      BY <1>1, <3>1, <3>2, PlaceTypes
  <2>2. m \in Nat
    OBVIOUS
  <2>3. QED
    BY <2>1, <2>2
<1> HIDE DEF n
<1>2. ReadTo(fs, k, n) = ReadTo(fs, k + 1, 0)
  BY <1>1 DEF ReadTo
<1>3. QED
  BY <1>2 DEF n

-----------------------------------------------------------------------------
(* The invariant: a created thread still has the last of its files to do,   *)
(* and its statistics are those of the lines before them; main has merged   *)
(* the statistics of the threads it has joined.                             *)

Created(t) ==
    \/ pc = "create" /\ t < i
    \/ pc \in {"join", "report", "done"} /\ t < nthreads

DoneFiles(t) == Len(buckets[t]) - Len(todo[t])

ThreadInv(t) ==
    /\ IF todo[t] = <<>> THEN pos[t] = 0 ELSE pos[t] <= Len(Lines[Head(todo[t])])
    /\ IF Created(t)
         THEN /\ Len(todo[t]) <= Len(buckets[t])
              /\ \A m \in DOMAIN todo[t] : todo[t][m] = buckets[t][DoneFiles(t) + m]
              /\ stats[t] = Tally(ReadTo(buckets[t], DoneFiles(t), pos[t]))
         ELSE todo[t] = <<>> /\ stats[t] = NoStats

ThreadTypes ==
    /\ todo \in [Ids -> Seq(Regular)] /\ pos \in [Ids -> Nat]
    /\ stats = [t \in Ids |-> stats[t]]

\* Every file is in a bucket or still to come.
EveryFileIsDealt ==
    /\ \A f \in Regular : f \in dir \/ \E t \in Ids : f \in Range(buckets[t])
    /\ pc # "split" => dir = {}

JoinInv ==
    /\ i \in 0 .. nthreads /\ 0 .. nthreads - 1 \subseteq Ids
    /\ pc = "split" => i = 0
    /\ pc \in {"split", "create"} => final = NoStats
    /\ pc \in {"join", "report", "done"} => final = Tally(GetsOfFirst(buckets, i))
    /\ pc \in {"report", "done"} => i = nthreads

CountInv == ThreadTypes /\ EveryFileIsDealt /\ JoinInv /\ \A t \in Ids : ThreadInv(t)

\* The files of a thread are all different.
LEMMA FilesDiffer ==
    Filled /\ Dealt => \A t \in Ids : buckets[t] \in Seq(Regular) /\ AllDifferent(buckets[t])
  BY DEF Filled, Dealt, FilesArePrivate, AllDifferent

\* The next thread to join has read lines that no joined one has.
LEMMA JoinedLines ==
    ASSUME Filled, Dealt, NEW n \in Nat, 0 .. n \subseteq Ids
    PROVE  /\ GetsOfFirst(buckets, n) \in SUBSET Places
           /\ GetsIn(buckets[n]) \in SUBSET Places
           /\ GetsOfFirst(buckets, n) \cap GetsIn(buckets[n]) = {}
           /\ GetsOfFirst(buckets, n + 1) = GetsOfFirst(buckets, n) \cup GetsIn(buckets[n])
<1>1. 0 .. (n + 1) - 1 = (0 .. n - 1) \cup {n} /\ n \notin 0 .. n - 1
  OBVIOUS
<1>2. GetsOfFirst(buckets, n + 1) = GetsOfFirst(buckets, n) \cup GetsIn(buckets[n])
  BY <1>1 DEF GetsOfFirst
<1>3. ASSUME NEW p \in GetsOfFirst(buckets, n), p \in GetsIn(buckets[n]) PROVE FALSE
  <2>1. PICK t \in 0 .. n - 1 : p \in GetsIn(buckets[t])
    BY DEF GetsOfFirst
  <2>2. PICK m \in DOMAIN buckets[t] : p[1] = buckets[t][m]
    BY <2>1 DEF GetsIn
  <2>3. PICK k \in DOMAIN buckets[n] : p[1] = buckets[n][k]
    BY <1>3 DEF GetsIn
  <2>4. t \in Ids /\ n \in Ids /\ t # n
    BY <1>1
  <2>5. QED
    BY <2>2, <2>3, <2>4 DEF Dealt, FilesArePrivate
<1>4. QED
  BY <1>2, <1>3 DEF GetsOfFirst, GetsIn, Gets

\* The files still to do are the last ones of all the files.
LastFrom(k, td, fs) ==
    /\ k = Len(fs) - Len(td) /\ Len(td) <= Len(fs)
    /\ \A m \in DOMAIN td : td[m] = fs[k + m]

LEMMA FilesToDo ==
    ASSUME NEW fs \in Seq(Regular), NEW td \in Seq(Regular), td # <<>>,
           NEW k \in Nat, LastFrom(k, td, fs)
    PROVE  /\ k < Len(fs) /\ Head(td) = fs[k + 1] /\ Head(td) \in Regular
           /\ Tail(td) \in Seq(Regular) /\ LastFrom(k + 1, Tail(td), fs)
<1> USE DEF LastFrom
<1>1. Len(td) \in Nat \ {0} /\ Len(fs) \in Nat /\ DOMAIN td = 1 .. Len(td)
  OBVIOUS
<1>2. k < Len(fs)
  BY <1>1
<1>3. 1 \in DOMAIN td /\ Head(td) = td[1] /\ Head(td) \in Regular
  BY <1>1
<1>4. /\ Tail(td) \in Seq(Regular) /\ Len(Tail(td)) = Len(td) - 1
      /\ DOMAIN Tail(td) = 1 .. Len(td) - 1
      /\ \A m \in 1 .. Len(td) - 1 : Tail(td)[m] = td[m + 1]
  BY <1>1
<1>5. ASSUME NEW m \in 1 .. Len(td) - 1 PROVE Tail(td)[m] = fs[k + 1 + m]
  <2>1. m + 1 \in DOMAIN td /\ k + (m + 1) = k + 1 + m
    BY <1>1, <1>2
  <2>2. td[m + 1] = fs[k + (m + 1)]
    BY <2>1
  <2>3. QED
    BY <1>4, <2>1, <2>2
<1>6. k + 1 = Len(fs) - Len(Tail(td)) /\ Len(Tail(td)) <= Len(fs)
  <2>1. \A a, b, c, d \in Int : d = b - a /\ c = a - 1 /\ a <= b => d + 1 = b - c /\ c <= b
    OBVIOUS
  <2>2. Len(td) \in Int /\ Len(fs) \in Int /\ Len(Tail(td)) \in Int /\ k \in Int
    BY <1>1, <1>4
  <2>3. k = Len(fs) - Len(td) /\ Len(Tail(td)) = Len(td) - 1 /\ Len(td) <= Len(fs)
    BY <1>4
  <2>4. PICK a, b, c : a = Len(td) /\ b = Len(fs) /\ c = Len(Tail(td))
    OBVIOUS
  <2>5. a \in Int /\ b \in Int /\ c \in Int /\ k = b - a /\ c = a - 1 /\ a <= b
    BY ONLY <2>2, <2>3, <2>4
  <2>6. k + 1 = b - c /\ c <= b
    BY ONLY <2>5
  <2>7. QED
    BY ONLY <2>4, <2>6
<1>7. \A m \in DOMAIN Tail(td) : Tail(td)[m] = fs[k + 1 + m]
  BY <1>4, <1>5
<1>8. QED
  BY <1>2, <1>3, <1>4, <1>6, <1>7

\* A step that touches neither the files nor the work of a thread.
LEMMA ThreadUntouched ==
    ASSUME NEW t, ThreadInv(t), Created(t)' = Created(t),
           buckets'[t] = buckets[t], todo'[t] = todo[t], pos'[t] = pos[t],
           stats'[t] = stats[t]
    PROVE  ThreadInv(t)'
  BY DEF ThreadInv, DoneFiles

LEMMA ThreadNotCreated ==
    ASSUME NEW t, ThreadInv(t), ~Created(t), ~Created(t)', UNCHANGED work
    PROVE  ThreadInv(t)'
  BY DEF ThreadInv, work

LEMMA CountInvInit == Init => CountInv
<1> SUFFICES ASSUME Init PROVE CountInv
  OBVIOUS
<1>1. nthreads \in ThreadCounts /\ nthreads \in Nat /\ 0 .. nthreads - 1 \subseteq Ids
  BY AskedIds DEF Init
<1>2. ThreadTypes
  BY DEF Init, ThreadTypes
<1>3. EveryFileIsDealt
  BY DEF Init, EveryFileIsDealt
<1>4. JoinInv
  BY <1>1 DEF Init, JoinInv
<1>5. \A t \in Ids : ThreadInv(t)
  BY DEF Init, ThreadInv, Created
<1>6. QED
  BY <1>2, <1>3, <1>4, <1>5 DEF CountInv

\* The steps of main.
LEMMA CountInvMain ==
    ASSUME Filled, Dealt, CountInv, Main
    PROVE  CountInv'
<1>1. /\ ThreadTypes /\ EveryFileIsDealt /\ JoinInv
      /\ \A t \in Ids : ThreadInv(t) /\ t \in Nat
      /\ nthreads \in Nat /\ i \in Nat
  BY AskedIds DEF CountInv, Filled, Ids
<1>2. ASSUME NEW e \in Entries, DealOut(e) PROVE CountInv'
  <2>1. /\ pc = "split" /\ pc' = "split" /\ dir' = dir \ {e}
        /\ UNCHANGED <<nthreads, i, work, final>>
    BY <1>2 DEF DealOut
  <2>2. JoinInv'
    BY <1>1, <2>1 DEF JoinInv
  <2>3. ThreadTypes'
    BY <1>1, <2>1 DEF ThreadTypes, work
  <2>4. \A t \in Ids : ThreadInv(t)'
    BY <1>1, <2>1, ThreadNotCreated DEF Created
  <2>5. CASE e \notin Regular
    BY <1>1, <1>2, <2>1, <2>2, <2>3, <2>4, <2>5 DEF DealOut, EveryFileIsDealt, CountInv
  <2>6. CASE e \in Regular
    <3> DEFINE b == index % nthreads
    <3>1. buckets' = [buckets EXCEPT ![b] = Append(@, e)] /\ nthreads \in ThreadCounts
      BY <1>2, <2>6 DEF DealOut, Bucket, Filled
    <3>2. b \in Ids
      BY <3>1, AskedIds, BucketIndex DEF Filled
    <3>3. buckets \in [Ids -> Seq(Regular)]
      BY DEF Filled
    <3> HIDE DEF b
    <3>4. Range(Append(buckets[b], e)) = Range(buckets[b]) \cup {e}
      <4>1. PICK fs : fs = buckets[b]
        OBVIOUS
      <4>2. fs \in Seq(Regular)
        BY <3>2, <3>3, <4>1
      <4>3. Range(Append(fs, e)) = Range(fs) \cup {e}
        <5> DEFINE gs == Append(fs, e)
                   n  == Len(fs)
        <5>1. /\ DOMAIN gs = DOMAIN fs \cup {n + 1} /\ gs[n + 1] = e
              /\ \A m \in DOMAIN fs : gs[m] = fs[m]
          BY <2>6, <4>2
        <5> HIDE DEF gs, n
        <5>2. Range(gs) = Range(fs) \cup {e}
          BY <5>1 DEF Range
        <5>3. QED
          BY <5>2 DEF gs
      <4>4. QED
        BY <4>1, <4>3
    <3>5. \A t \in Ids : Range(buckets[t]) \subseteq Range(buckets'[t])
      BY <3>1, <3>2, <3>3, <3>4
    <3>6. e \in Range(buckets'[b])
      BY <3>1, <3>2, <3>3, <3>4
    <3>7. EveryFileIsDealt'
      BY <1>1, <2>1, <3>2, <3>5, <3>6 DEF EveryFileIsDealt
    <3>8. QED
      BY <2>2, <2>3, <2>4, <3>7 DEF CountInv
  <2>7. QED
    BY <2>5, <2>6
<1>3. CASE EndOfDir
  <2>1. /\ pc = "split" /\ pc' = "create" /\ dir = {} /\ i = 0
        /\ UNCHANGED <<dir, buckets, nthreads, i, work, final>>
    BY <1>1, <1>3 DEF EndOfDir, JoinInv
  <2>2. \A t \in Ids : ThreadInv(t)'
    BY <1>1, <2>1, ThreadNotCreated DEF Created
  <2>3. QED
    BY <1>1, <2>1, <2>2 DEF CountInv, ThreadTypes, EveryFileIsDealt, JoinInv, work
<1>4. CASE CreateThread
  <2>1. /\ pc = "create" /\ pc' = "create" /\ i < nthreads /\ i' = i + 1
        /\ todo' = [todo EXCEPT ![i] = buckets[i]]
        /\ UNCHANGED <<dir, buckets, nthreads, pos, stats, final>>
    BY <1>4 DEF CreateThread
  <2>2. i \in Ids /\ buckets[i] \in Seq(Regular) /\ ~Created(i)
    BY <1>1, <2>1 DEF JoinInv, Filled, Created
  <2>3. todo[i] = <<>> /\ stats[i] = NoStats /\ pos[i] = 0
    BY <1>1, <2>2 DEF ThreadInv
  <2>4. ThreadTypes'
    BY <1>1, <2>1, <2>2 DEF ThreadTypes
  <2>5. \A t \in Ids \ {i} : ThreadInv(t)'
    <3>1. \A t \in Ids \ {i} : Created(t)' = Created(t) /\ todo'[t] = todo[t]
      BY <1>1, <2>1 DEF Created, ThreadTypes
    <3>2. QED
      BY <1>1, <2>1, <3>1, ThreadUntouched
  <2>6. ThreadInv(i)
    BY <1>1, <2>2
  <2>7. \A t : t = i => ThreadInv(t)'
    <3> SUFFICES ASSUME NEW t, t = i PROVE ThreadInv(t)'
      OBVIOUS
    <3>1. Created(t)' /\ todo'[t] = buckets'[t] /\ buckets'[t] \in Seq(Regular)
      BY <1>1, <2>1, <2>2 DEF Created, ThreadTypes
    <3>2. pos'[t] = 0 /\ stats'[t] = NoStats
      BY <2>1, <2>3
    <3>3. DoneFiles(t)' = 0
      <4>1. Len(buckets'[t]) \in Nat
        BY <3>1
      <4>2. QED
        BY <3>1, <4>1 DEF DoneFiles
    <3>4. stats'[t] = Tally(ReadTo(buckets'[t], DoneFiles(t)', pos'[t]))
      BY <3>1, <3>2, <3>3, ReadNothing, TallyOfNone
    <3>5. todo'[t] # <<>> => pos'[t] <= Len(Lines[Head(todo'[t])])
      BY <3>1, <3>2
    <3>6. \A m \in DOMAIN todo'[t] : todo'[t][m] = buckets'[t][DoneFiles(t)' + m]
      <4>1. \A m \in DOMAIN todo'[t] : 0 + m = m
        BY <3>1
      <4>2. QED
        BY <3>1, <3>3, <4>1
    <3>7. Len(todo'[t]) <= Len(buckets'[t])
      BY <3>1
    <3>8. QED
      BY <3>1, <3>2, <3>4, <3>5, <3>6, <3>7 DEF ThreadInv
  <2>8. \A t \in Ids : ThreadInv(t)'
    BY <2>5, <2>7
  <2>9. EveryFileIsDealt' /\ JoinInv'
    BY <1>1, <2>1 DEF EveryFileIsDealt, JoinInv
  <2>10. QED
    BY <2>4, <2>8, <2>9 DEF CountInv
<1>5. CASE EndOfCreate
  <2>1. /\ pc = "create" /\ pc' = "join" /\ nthreads' = i /\ i' = 0
        /\ UNCHANGED <<dir, buckets, work, final>>
    BY <1>5 DEF EndOfCreate
  <2>2. \A t : Created(t)' = Created(t)
    BY <2>1 DEF Created
  <2>3. \A t \in Ids : ThreadInv(t)'
    BY <1>1, <2>1, <2>2, ThreadUntouched DEF work
  <2>4. GetsOfFirst(buckets', 0) = {}
    BY DEF GetsOfFirst
  <2>5. final' = Tally(GetsOfFirst(buckets', i'))
    BY <1>1, <2>1, <2>4, TallyOfNone DEF JoinInv
  <2>6. JoinInv'
    BY <1>1, <2>1, <2>5 DEF JoinInv
  <2>7. QED
    BY <1>1, <2>1, <2>3, <2>6 DEF CountInv, ThreadTypes, EveryFileIsDealt, work
<1>6. CASE JoinThread
  <2>1. /\ pc = "join" /\ pc' = "join" /\ i < nthreads /\ i' = i + 1 /\ todo[i] = <<>>
        /\ final' = [urls  |-> Merge(final.urls, stats[i].urls),
                     refs  |-> Merge(final.refs, stats[i].refs),
                     bytes |-> final.bytes + stats[i].bytes]
        /\ UNCHANGED <<dir, buckets, nthreads, work>>
    BY <1>6 DEF JoinThread
  <2>2. i \in Ids /\ 0 .. i \subseteq Ids /\ Created(i)
    BY <1>1, <2>1 DEF JoinInv, Created
  <2>3. stats[i] = Tally(GetsIn(buckets[i]))
    <3>1. PICK fs : fs = buckets[i]
      OBVIOUS
    <3>2. fs \in Seq(Regular) /\ Len(fs) \in Nat
      BY <2>2, <3>1 DEF Filled
    <3>3. ThreadInv(i)
      BY <1>1, <2>2
    <3>4. stats[i] = Tally(ReadTo(fs, DoneFiles(i), 0))
      BY <2>1, <2>2, <3>1, <3>3 DEF ThreadInv
    <3>5. DoneFiles(i) = Len(fs)
      BY <2>1, <3>1, <3>2 DEF DoneFiles
    <3>6. QED
      BY <3>1, <3>2, <3>4, <3>5, ReadAll
  <2>4. PICK n, bs : n = i /\ bs = buckets
    OBVIOUS
  <2> DEFINE P == GetsOfFirst(bs, n)
             Q == GetsIn(bs[n])
  <2>5. /\ P \in SUBSET Places /\ Q \in SUBSET Places /\ P \cap Q = {}
        /\ GetsOfFirst(bs, n + 1) = P \cup Q
    <3>1. n \in Nat /\ 0 .. n \subseteq Ids
      BY <1>1, <2>2, <2>4
    <3>2. QED
      BY <2>4, <3>1, JoinedLines
  <2>6. final = Tally(P) /\ stats[i] = Tally(Q)
    BY <1>1, <2>1, <2>3, <2>4 DEF JoinInv
  <2> HIDE DEF P, Q
  <2>7. final' = Tally(P \cup Q)
    BY <2>1, <2>5, <2>6, TalliesMerge
  <2>8. final' = Tally(GetsOfFirst(buckets', i'))
    BY <2>1, <2>4, <2>5, <2>7
  <2>9. JoinInv'
    BY <1>1, <2>1, <2>8 DEF JoinInv
  <2>10. \A t : Created(t)' = Created(t)
    BY <2>1 DEF Created
  <2>11. \A t \in Ids : ThreadInv(t)'
    BY <1>1, <2>1, <2>10, ThreadUntouched DEF work
  <2>12. QED
    BY <1>1, <2>1, <2>9, <2>11 DEF CountInv, ThreadTypes, EveryFileIsDealt, work
<1>7. ASSUME UNCHANGED <<dir, buckets, nthreads, i, work, final>>,
             \/ pc = "join" /\ i = nthreads /\ pc' = "report"
             \/ pc = "report" /\ pc' = "done"
      PROVE  CountInv'
  <2>1. \A t : Created(t)' = Created(t)
    BY <1>7 DEF Created
  <2>2. \A t \in Ids : ThreadInv(t)'
    BY <1>1, <1>7, <2>1, ThreadUntouched DEF work
  <2>3. JoinInv'
    BY <1>1, <1>7 DEF JoinInv
  <2>4. QED
    BY <1>1, <1>7, <2>2, <2>3 DEF CountInv, ThreadTypes, EveryFileIsDealt, work
<1>8. CASE EndOfJoin
  BY <1>7, <1>8 DEF EndOfJoin
<1>9. CASE Report
  BY <1>7, <1>9 DEF Report
<1>10. QED
  BY <1>2, <1>3, <1>4, <1>5, <1>6, <1>8, <1>9 DEF Main

\* The steps of a thread.
LEMMA CountInvThread ==
    ASSUME Filled, Dealt, CountInv, NEW t \in Ids, Thread(t)
    PROVE  CountInv'
<1> DEFINE fs == buckets[t]
           k  == DoneFiles(t)
           n  == pos[t]
           f  == Head(todo[t])
<1>1. todo[t] # <<>> /\ UNCHANGED <<main, final, top>>
  BY DEF Thread, ParseLine, CloseFile
<1>2. /\ todo[t] \in Seq(Regular) /\ n \in Nat /\ fs \in Seq(Regular) /\ AllDifferent(fs)
  BY FilesDiffer DEF CountInv, ThreadTypes
<1>3. /\ Created(t) /\ Len(todo[t]) <= Len(fs)
      /\ \A m \in DOMAIN todo[t] : todo[t][m] = fs[k + m]
      /\ stats[t] = Tally(ReadTo(fs, k, n))
      /\ n <= Len(Lines[f])
  BY <1>1 DEF CountInv, ThreadInv
<1>4. /\ k \in Nat /\ k < Len(fs) /\ f = fs[k + 1] /\ f \in Regular
      /\ Tail(todo[t]) \in Seq(Regular) /\ LastFrom(k + 1, Tail(todo[t]), fs)
  <2>1. PICK xs, td, c : xs = fs /\ td = todo[t] /\ c = k
    OBVIOUS
  <2>2. c \in Nat /\ LastFrom(c, td, xs)
    BY <1>2, <1>3, <2>1 DEF DoneFiles, LastFrom
  <2>3. td # <<>> /\ td \in Seq(Regular) /\ xs \in Seq(Regular)
    BY <1>1, <1>2, <2>1
  <2>4. /\ c < Len(xs) /\ Head(td) = xs[c + 1] /\ Head(td) \in Regular
        /\ Tail(td) \in Seq(Regular) /\ LastFrom(c + 1, Tail(td), xs)
    BY <2>2, <2>3, FilesToDo
  <2>5. QED
    BY <2>1, <2>2, <2>4
<1>5. /\ EveryFileIsDealt' /\ JoinInv'
      /\ \A u : Created(u)' = Created(u)
  BY <1>1 DEF CountInv, EveryFileIsDealt, JoinInv, Created, main
<1>6. /\ \A u \in Ids \ {t} : /\ todo'[u] = todo[u] /\ pos'[u] = pos[u]
                              /\ stats'[u] = stats[u] /\ buckets'[u] = buckets[u]
      /\ ThreadTypes'
      /\ buckets'[t] = fs
  <2>1. buckets' = buckets
    BY <1>1 DEF main
  <2>2. ThreadTypes
    BY DEF CountInv
  <2>3. CASE ParseLine(t)
    <3> DEFINE new == ParseLogLine(Lines[f][n + 1], stats[t])
    <3>1. /\ stats' = [stats EXCEPT ![t] = new] /\ todo' = todo
          /\ pos' = [pos EXCEPT ![t] = n + 1]
      BY <2>2, <2>3 DEF ParseLine, ThreadTypes
    <3> HIDE DEF new
    <3>2. n + 1 \in Nat
      BY <1>2
    <3> HIDE DEF n
    <3>3. QED
      BY <2>1, <2>2, <3>1, <3>2 DEF ThreadTypes
  <2>4. CASE CloseFile(t)
    <3>1. /\ todo' = [todo EXCEPT ![t] = Tail(@)] /\ Tail(todo[t]) \in Seq(Regular)
          /\ pos' = [pos EXCEPT ![t] = 0] /\ stats' = stats
      BY <1>4, <2>4 DEF CloseFile
    <3>2. QED
      BY <2>1, <2>2, <3>1 DEF ThreadTypes
  <2>5. QED
    BY <2>3, <2>4 DEF Thread
<1>7. \A u \in Ids \ {t} : ThreadInv(u)'
  BY <1>5, <1>6, ThreadUntouched DEF CountInv
<1>8. CASE ParseLine(t)
  <2> DEFINE q == <<fs[k + 1], n + 1>>
  <2>1. n < Len(Lines[f]) /\ UNCHANGED todo /\ pos'[t] = n + 1
    BY <1>2, <1>8 DEF ParseLine, CountInv, ThreadTypes
  <2>2. stats'[t] = ParseLogLine(LineAt(q), stats[t])
    BY <1>4, <1>8 DEF ParseLine, LineAt, CountInv, ThreadTypes
  <2>3. /\ q \in Places /\ q \notin ReadTo(fs, k, n)
        /\ ReadTo(fs, k, n + 1) = ReadTo(fs, k, n) \cup ({q} \cap Gets)
    <3>1. PICK xs, c, d : xs = fs /\ c = k /\ d = n
      OBVIOUS
    <3>2. xs \in Seq(Regular) /\ AllDifferent(xs) /\ c \in Nat /\ c < Len(xs)
      BY <1>2, <1>4, <3>1
    <3>3. d \in Nat /\ d < Len(Lines[xs[c + 1]])
      BY <1>2, <1>4, <2>1, <3>1
    <3>4. NextIsNew(xs, c, d)
      BY <3>2, <3>3, ReadLine
    <3>5. QED
      BY <3>1, <3>4 DEF NextIsNew
  <2>4. ReadTo(fs, k, n) \in SUBSET Gets
    BY DEF ReadTo
  <2>5. stats'[t] = Tally(ReadTo(fs, k, n + 1))
    <3> HIDE DEF q, k, n, fs
    <3>1. QED
      BY <1>3, <2>2, <2>3, <2>4, LineIsTallied
  <2>6. DoneFiles(t)' = k
    BY <1>6, <2>1 DEF DoneFiles
  <2>7. Len(Lines[f]) \in Nat
    BY <1>4
  <2>8. ThreadInv(t)'
    <3>1. pos'[t] <= Len(Lines[Head(todo[t])])
      BY <1>2, <2>1, <2>7
    <3>2. Created(t)' /\ todo'[t] = todo[t] /\ buckets'[t] = buckets[t]
      BY <1>3, <1>5, <1>6, <2>1
    <3> HIDE DEF k, n
    <3>3. stats'[t] = Tally(ReadTo(buckets'[t], DoneFiles(t)', pos'[t]))
      BY <2>1, <2>5, <2>6, <3>2
    <3>4. \A m \in DOMAIN todo'[t] : todo'[t][m] = buckets'[t][DoneFiles(t)' + m]
      BY <1>3, <2>6, <3>2
    <3>5. QED
      BY <1>1, <1>3, <3>1, <3>2, <3>3, <3>4 DEF ThreadInv
  <2>9. QED
    BY <1>5, <1>6, <1>7, <2>8 DEF CountInv
<1>9. CASE CloseFile(t)
  <2>1. n = Len(Lines[f]) /\ UNCHANGED stats /\ pos'[t] = 0 /\ todo'[t] = Tail(todo[t])
    BY <1>2, <1>9 DEF CloseFile, CountInv, ThreadTypes
  <2>2. ReadTo(fs, k, n) = ReadTo(fs, k + 1, 0)
    BY <1>2, <1>4, <2>1, ReadFile
  <2>3. DoneFiles(t)' = k + 1
    BY <1>4, <1>6, <2>1 DEF DoneFiles, LastFrom
  <2>4. stats'[t] = Tally(ReadTo(fs, k + 1, 0))
    BY <1>3, <2>1, <2>2
  <2>5. /\ Len(todo'[t]) <= Len(fs)
        /\ \A m \in DOMAIN todo'[t] : todo'[t][m] = fs[k + 1 + m]
    BY <1>4, <2>1 DEF LastFrom
  <2>6. todo'[t] # <<>> => 0 <= Len(Lines[Head(todo'[t])])
    <3>1. todo'[t] \in Seq(Regular)
      BY <1>4, <2>1
    <3>2. QED
      BY <3>1
  <2>7. ThreadInv(t)'
    BY <1>3, <1>5, <1>6, <2>1, <2>3, <2>4, <2>5, <2>6 DEF ThreadInv
  <2>8. QED
    BY <1>5, <1>6, <1>7, <2>7 DEF CountInv
<1>10. QED
  BY <1>8, <1>9 DEF Thread

LEMMA CountInvAlways == Spec => []CountInv
<1>1. Filled /\ Dealt /\ CountInv /\ [Next]_vars => CountInv'
  <2> SUFFICES ASSUME Filled, Dealt, CountInv, [Next]_vars PROVE CountInv'
    OBVIOUS
  <2>1. CASE Main
    BY <2>1, CountInvMain
  <2>2. CASE \E t \in Ids : Thread(t)
    BY <2>2, CountInvThread
  <2>3. CASE UNCHANGED vars
    <3>1. \A t : Created(t)' = Created(t)
      BY <2>3 DEF Created, vars, main
    <3>2. \A t \in Ids : ThreadInv(t)'
      BY <2>3, <3>1, ThreadUntouched DEF CountInv, vars, main, work
    <3>3. QED
      BY <2>3, <3>2 DEF CountInv, ThreadTypes, EveryFileIsDealt, JoinInv, vars, main, work
  <2>4. QED
    BY <2>1, <2>2, <2>3 DEF Next, Terminated
<1>2. QED
  BY <1>1, CountInvInit, FilledAlways, DealtAlways, PTL DEF Spec

\* What main prints is what one thread would have counted that reads every
\* file of the directory once: for any directory, in any order, with any
\* number of threads and whatever way they run.
THEOREM CountsLikeOneThread == Spec => []FinalIsSequential
<1>1. Filled /\ CountInv => FinalIsSequential
  <2> SUFFICES ASSUME Filled, CountInv, pc \in {"report", "done"} PROVE final = Reference
    BY DEF FinalIsSequential
  <2>1. final = Tally(GetsOfFirst(buckets, nthreads)) /\ dir = {} /\ nthreads \in Nat
    BY DEF CountInv, JoinInv, EveryFileIsDealt, Filled
  <2>2. ASSUME NEW p \in Gets PROVE p \in GetsOfFirst(buckets, nthreads)
    <3>1. p[1] \in Regular
      BY PlaceTypes DEF Gets
    <3>2. PICK t \in Ids : p[1] \in Range(buckets[t])
      BY <2>1, <3>1 DEF CountInv, EveryFileIsDealt
    <3>3. PICK m \in DOMAIN buckets[t] : p[1] = buckets[t][m]
      BY <3>2 DEF Range
    <3>4. buckets[t] # <<>>
      BY <3>3
    <3>5. t \in 0 .. nthreads - 1
      BY <2>1, <3>4 DEF Filled, NoBucketLeftOut, Ids
    <3>6. p \in GetsIn(buckets[t])
      BY <3>3 DEF GetsIn
    <3>7. QED
      BY <3>5, <3>6 DEF GetsOfFirst
  <2>3. GetsOfFirst(buckets, nthreads) = Gets
    BY <2>2 DEF GetsOfFirst, GetsIn
  <2>4. QED
    BY <2>1, <2>3, TallyOfAll
<1>2. QED
  BY <1>1, FilledAlways, CountInvAlways, PTL

-----------------------------------------------------------------------------
(* The heaviest entries.  Two counts whose difference fits an int are       *)
(* compared rightly, so qsort has an order to sort by.                      *)

LEMMA HalfIsPositive == Half \in Nat \ {0}
<1> DEFINE n == IntBits - 1
           S == 1 .. n
<1>1. n \in Nat
  OBVIOUS
<1>2. IsFiniteSet(S) /\ Cardinality(S) = IF 1 > n THEN 0 ELSE n - 1 + 1
  <2> HIDE DEF n
  <2>1. 1 \in Int /\ n \in Int
    BY <1>1
  <2>2. QED
    BY <2>1, FS_Interval
<1> HIDE DEF n
<1>3. Cardinality(S) = n
  BY <1>1, <1>2
<1> HIDE DEF S
<1>4. IsFiniteSet(SUBSET S) /\ Cardinality(SUBSET S) = 2^n
  BY <1>2, <1>3, FS_SUBSET
<1>5. {} \in SUBSET S
  OBVIOUS
<1>6. Cardinality(SUBSET S) \in Nat /\ Cardinality(SUBSET S) # 0
  BY <1>4, <1>5, FS_CardinalityType, FS_EmptySet
<1>7. QED
  BY <1>4, <1>6 DEF n, Half

LEMMA NearIsExact ==
    ASSUME NEW d \in Int, d < Half, -d < Half
    PROVE  AsInt(d) = d
<1> DEFINE h == Half
<1>1. h \in Nat \ {0} /\ d < h /\ -d < h
  BY HalfIsPositive
<1> HIDE DEF h
<1>2. d + h \in Nat /\ 2 * h \in Nat \ {0} /\ d + h < 2 * h
  BY <1>1
<1>3. (d + h) % (2 * h) = d + h
  BY <1>2, BucketIndex
<1>4. ((d + h) % (2 * h)) - h = d
  BY <1>1, <1>3
<1>5. QED
  BY <1>4 DEF h, AsInt

\* The first entries of what qsort returns are the heaviest ones.
LEMMA SortedIsHeaviest ==
    ASSUME NEW map, IsFiniteSet(DOMAIN map), \A k \in DOMAIN map : map[k] \in Nat,
           Near(map), NEW s \in Sorted(map)
    PROVE  Heaviest(FirstN(s), map)
<1> DEFINE keys     == DOMAIN map
           le(a, b) == Compare(map, a, b) <= 0
           N        == Cardinality(keys)
<1>1. ASSUME NEW a \in keys, NEW b \in keys PROVE le(a, b) <=> map[a] >= map[b]
  <2>1. map[a] \in Nat /\ map[b] \in Nat
    OBVIOUS
  <2>2. map[a] - map[b] < Half /\ map[b] - map[a] < Half
    BY DEF Near
  <2>3. /\ map[b] - map[a] \in Int /\ map[b] - map[a] < Half
        /\ -(map[b] - map[a]) < Half
    BY <2>1, <2>2
  <2>4. Compare(map, a, b) = map[b] - map[a]
    BY <2>3, NearIsExact DEF Compare
  <2>5. QED
    BY <2>1, <2>4
<1>2. /\ \A a, b \in keys : le(a, b) \/ le(b, a)
      /\ \A a, b, c \in keys : le(a, b) /\ le(b, c) => le(a, c)
  <2> HIDE DEF le
  <2>1. \A a \in keys : map[a] \in Nat
    OBVIOUS
  <2>2. QED
    BY <1>1, <2>1
<1>3. s \in Orders(keys) /\ \A m, n \in DOMAIN s : m < n => le(s[m], s[n])
  BY <1>2 DEF Sorted
<1> HIDE DEF le
<1>4. N \in Nat /\ IsFiniteSet(keys)
  BY FS_CardinalityType
<1>5. s \in [1 .. N -> keys] /\ IsInjective(s)
  BY <1>3 DEF Orders
<1>6. s \in Injection(1 .. N, keys)
  BY <1>5 DEF Injection, IsInjective
<1>7. Cardinality(1 .. N) = N
  <2> HIDE DEF N
  <2>1. 1 \in Int /\ N \in Int
    BY <1>4
  <2>2. Cardinality(1 .. N) = IF 1 > N THEN 0 ELSE N - 1 + 1
    BY <2>1, FS_Interval
  <2>3. QED
    BY <1>4, <2>2
<1>8. \A k \in keys : \E j \in 1 .. N : s[j] = k
  <2>1. s \in Surjection(1 .. N, keys)
    <3> DEFINE T == 1 .. N
    <3> HIDE DEF T, N
    <3>1. s \in Injection(T, keys) /\ Cardinality(T) = Cardinality(keys)
      BY <1>6, <1>7 DEF T, N
    <3>2. s \in Surjection(T, keys)
      BY <1>4, <3>1, FS_Injection
    <3>3. QED
      BY <3>2 DEF T
  <2>2. QED
    BY <2>1 DEF Surjection
<1> HIDE DEF N, keys
<1>9. \A m, n \in 1 .. N : m < n => map[s[m]] >= map[s[n]]
  BY <1>1, <1>3, <1>5
<1> DEFINE q == IF N < TopN THEN N ELSE TopN
<1>10. q \in Nat /\ q <= N
  BY <1>4
<1>11. /\ DOMAIN FirstN(s) = 1 .. q
       /\ \A m \in 1 .. q : FirstN(s)[m] = s[m]
  <2>1. s \in Seq(keys) /\ Len(s) = N
    BY <1>4, <1>5
  <2>2. FirstN(s) = SubSeq(s, 1, q)
    BY <2>1 DEF FirstN
  <2> HIDE DEF q
  <2>3. QED
    BY <1>10, <2>1, <2>2
<1> HIDE DEF q
<1>12. ASSUME NEW m \in 1 .. q, NEW n \in 1 .. q, m < n
       PROVE  map[FirstN(s)[m]] >= map[FirstN(s)[n]]
  BY <1>4, <1>9, <1>10, <1>11, <1>12
<1>13. ASSUME NEW k \in keys, k \notin Range(FirstN(s)), NEW n \in 1 .. q
       PROVE  map[FirstN(s)[n]] >= map[k]
  <2>1. PICK j \in 1 .. N : s[j] = k
    BY <1>8
  <2>2. j \notin 1 .. q
    BY <1>11, <1>13, <2>1 DEF Range
  <2>3. n < j /\ n \in 1 .. N
    BY <1>4, <1>10, <2>2
  <2>4. QED
    BY <1>9, <1>11, <2>1, <2>3
<1>14. QED
  BY <1>11, <1>12, <1>13 DEF Heaviest, keys

\* The maps have finitely many entries, each with a natural number.
LEMMA ReferenceMaps ==
    /\ IsFiniteSet(DOMAIN Reference.urls) /\ IsFiniteSet(DOMAIN Reference.refs)
    /\ \A u \in DOMAIN Reference.urls : Reference.urls[u] \in Nat
    /\ \A r \in DOMAIN Reference.refs : Reference.refs[r] \in Nat
<1>1. Gets \in SUBSET Places /\ IsFiniteSet(Gets)
  BY PlacesAreFinite, FS_Subset DEF Gets
<1> DEFINE U == {LineAt(p).url : p \in Gets}
           R == {LineAt(p).ref : p \in Gets}
           u == [p \in Gets |-> LineAt(p).url]
           r == [p \in Gets |-> LineAt(p).ref]
<1>2. u \in Surjection(Gets, U) /\ r \in Surjection(Gets, R)
  BY DEF Surjection
<1>3. Reference.urls = UrlTally(Gets) /\ Reference.refs = RefTally(Gets)
  BY TallyOfAll DEF Tally
<1>4. DOMAIN Reference.urls = U /\ DOMAIN Reference.refs = R \ {NoRef}
  BY <1>3 DEF UrlTally, RefTally
<1>5. IsFiniteSet(U) /\ IsFiniteSet(R \ {NoRef})
  <2> HIDE DEF U, R, u, r
  <2>1. IsFiniteSet(U) /\ IsFiniteSet(R)
    BY <1>1, <1>2, FS_Surjection
  <2>2. QED
    BY <2>1, FS_Subset
<1>6. \A k \in U : UrlTally(Gets)[k] \in Nat
  BY <1>1, PartsAreFinite, WeightAdds DEF UrlTally
<1>7. \A k \in R \ {NoRef} : RefTally(Gets)[k] \in Nat
  BY <1>1, PartsAreFinite DEF RefTally
<1>8. QED
  BY <1>3, <1>4, <1>5, <1>6, <1>7

\* What is printed is the beginning of what qsort made of the two maps.
Printed ==
    pc = "done" => \E u \in Sorted(final.urls), r \in Sorted(final.refs) :
                      top = <<FirstN(u), FirstN(r)>>

LEMMA PrintedAlways == Spec => []Printed
<1>1. Init => Printed
  BY DEF Init, Printed
<1>2. Printed /\ [Next]_vars => Printed'
  <2> SUFFICES ASSUME Printed, [Next]_vars PROVE Printed'
    OBVIOUS
  <2>1. CASE Report
    <3>1. PICK u \in Sorted(final.urls), r \in Sorted(final.refs) : top' = <<FirstN(u), FirstN(r)>>
      BY <2>1 DEF Report
    <3>2. final' = final
      BY <2>1 DEF Report
    <3>3. QED
      BY <3>1, <3>2 DEF Printed
  <2>2. ASSUME UNCHANGED <<pc, final, top>> PROVE Printed'
    BY <2>2 DEF Printed
  <2>3. ASSUME pc' # "done" PROVE Printed'
    BY <2>3 DEF Printed
  <2>4. QED
    BY <2>1, <2>2, <2>3
       DEF Next, Main, Thread, DealOut, EndOfDir, CreateThread, EndOfCreate, JoinThread,
           EndOfJoin, ParseLine, CloseFile, Terminated, main, vars
<1>3. QED
  BY <1>1, <1>2, PTL DEF Spec

\* Whatever the files are, main prints the heaviest urls and referers in
\* order, as long as no two counts of a map differ by more than an int.
THEOREM HeaviestArePrinted == Spec => []TopIsHeaviestOfNear
<1>1. FinalIsSequential /\ Printed => TopIsHeaviestOfNear
  <2> SUFFICES ASSUME FinalIsSequential, Printed, pc = "done"
               PROVE  /\ Near(final.urls) => Heaviest(top[1], final.urls)
                      /\ Near(final.refs) => Heaviest(top[2], final.refs)
    BY DEF TopIsHeaviestOfNear
  <2>1. PICK u \in Sorted(final.urls), r \in Sorted(final.refs) :
           top = <<FirstN(u), FirstN(r)>>
    BY DEF Printed
  <2>2. /\ IsFiniteSet(DOMAIN final.urls) /\ IsFiniteSet(DOMAIN final.refs)
        /\ \A k \in DOMAIN final.urls : final.urls[k] \in Nat
        /\ \A k \in DOMAIN final.refs : final.refs[k] \in Nat
    BY ReferenceMaps DEF FinalIsSequential
  <2>3. Near(final.urls) => Heaviest(FirstN(u), final.urls)
    BY <2>2, SortedIsHeaviest
  <2>4. Near(final.refs) => Heaviest(FirstN(r), final.refs)
    BY <2>2, SortedIsHeaviest
  <2>5. QED
    BY <2>1, <2>3, <2>4
<1>2. QED
  BY <1>1, CountsLikeOneThread, PrintedAlways, PTL

=============================================================================

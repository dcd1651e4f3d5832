----------------------------- MODULE LogParser ------------------------------
(***************************************************************************)
(* HW10-LogParser/src/main.c: the log files of a directory are dealt out   *)
(* to the threads, every thread gathers the statistics of its files, and   *)
(* main joins the threads one by one, merges what they return and prints   *)
(* the heaviest entries.                                                   *)
(*                                                                         *)
(* A line is what parse_log_line makes of it: get says whether it is a GET *)
(* whose status and size can be read, url is the url without its last      *)
(* slash, ref is NoRef for an empty referer.                               *)
(***************************************************************************)
EXTENDS Integers, FiniteSets, Sequences, Functions, FiniteSetsExt

CONSTANTS
    Entries,        \* the entries of the directory
    Regular,        \* those of type DT_REG
    Lines,          \* their lines; none where fopen fails
    Urls, Refs, NoRef,
    ThreadCounts,   \* the numbers of threads the user may ask for
    TopN,           \* MAX_URLS and MAX_REFERERS
    IntBits         \* the width of an int, the type of a comparison's result

Line == [get : BOOLEAN, url : Urls, size : Nat, ref : Refs \cup {NoRef}]

ASSUME InputAssumption ==
    /\ IsFiniteSet(Entries) /\ Regular \subseteq Entries
    /\ Lines \in [Regular -> Seq(Line)]
    /\ NoRef \notin Refs
    /\ ThreadCounts \subseteq Nat \ {0} /\ IsFiniteSet(ThreadCounts)
    /\ TopN \in Nat \ {0} /\ IntBits \in Nat \ {0}

Ids == UNION {0 .. n - 1 : n \in ThreadCounts}

VARIABLES
    pc,         \* main: "split", "create", "join", "report", "done"
    dir,        \* the entries readdir has still to return
    index,      \* how many files have been dealt out
    buckets,    \* the file names of each thread
    nthreads,   \* the threads asked for, later those really created
    i,          \* main's loop variable
    todo,       \* the files of a thread that are not done yet
    pos,        \* the lines of the first of them that are parsed
    stats,      \* the ThreadStats of each thread
    final,      \* final_stats
    top         \* what select_top_n prints: urls, then referers

main == <<pc, dir, index, buckets, nthreads, i>>
work == <<todo, pos, stats>>
vars == <<main, work, final, top>>

\* A map has a long for each key that has an entry.
NoEntries == [k \in {} |-> 0]
NoStats   == [urls |-> NoEntries, refs |-> NoEntries, bytes |-> 0]

AddEntry(map, key, delta) ==
    [k \in DOMAIN map \cup {key} |->
        (IF k \in DOMAIN map THEN map[k] ELSE 0)
           + (IF k = key THEN delta ELSE 0)]

ParseLogLine(l, st) ==
    IF ~l.get THEN st
    ELSE [urls  |-> AddEntry(st.urls, l.url, l.size),
          refs  |-> IF l.ref = NoRef THEN st.refs ELSE AddEntry(st.refs, l.ref, 1),
          bytes |-> st.bytes + l.size]

\* A slip: an entry that is already there is overwritten.
Overwrite(dest, src) ==
    [k \in DOMAIN dest \cup DOMAIN src |->
        IF k \in DOMAIN src THEN src[k] ELSE dest[k]]

\* merge_maps, as a map: its entries are added one by one.
Merge(dest, src) ==
    [k \in DOMAIN dest \cup DOMAIN src |->
        (IF k \in DOMAIN dest THEN dest[k] ELSE 0)
           + (IF k \in DOMAIN src THEN src[k] ELSE 0)]

Init ==
    /\ pc       = "split"
    /\ dir      = Entries
    /\ index    = 0
    /\ buckets  = [t \in Ids |-> <<>>]
    /\ nthreads \in ThreadCounts
    /\ i        = 0
    /\ todo     = [t \in Ids |-> <<>>]
    /\ pos      = [t \in Ids |-> 0]
    /\ stats    = [t \in Ids |-> NoStats]
    /\ final    = NoStats
    /\ top      = <<>>

-----------------------------------------------------------------------------
(* split_files: readdir returns the entries in any order.                  *)

Bucket == index % nthreads

\* A slip: entries are counted that are not files.
CountsAll(e) ==
    /\ pc = "split" /\ e \in dir
    /\ dir' = dir \ {e}
    /\ index'   = index + 1
    /\ buckets' = IF e \in Regular
                    THEN [buckets EXCEPT ![Bucket] = Append(@, e)] ELSE buckets
    /\ UNCHANGED <<pc, nthreads, i, work, final, top>>

DealOut(e) ==
    /\ pc = "split" /\ e \in dir
    /\ dir' = dir \ {e}
    /\ IF e \in Regular
         THEN /\ buckets' = [buckets EXCEPT ![Bucket] = Append(@, e)]
              /\ index'   = index + 1
         ELSE UNCHANGED <<buckets, index>>
    /\ UNCHANGED <<pc, nthreads, i, work, final, top>>

EndOfDir ==
    /\ pc = "split" /\ dir = {}
    /\ pc' = "create"
    /\ UNCHANGED <<dir, index, buckets, nthreads, i, work, final, top>>

-----------------------------------------------------------------------------
(* main.                                                                   *)

CreateThread ==
    /\ pc = "create" /\ i < nthreads /\ buckets[i] # <<>>
    /\ todo'    = [todo EXCEPT ![i] = buckets[i]]
    /\ i'       = i + 1
    /\ UNCHANGED <<pc, dir, index, buckets, nthreads, pos, stats, final, top>>

\* The first thread without a file ends the loop.
EndOfCreate ==
    /\ pc = "create"
    /\ i < nthreads => buckets[i] = <<>>
    /\ nthreads' = i
    /\ i'        = 0
    /\ pc'       = "join"
    /\ UNCHANGED <<dir, index, buckets, work, final, top>>

JoinThread ==
    /\ pc = "join" /\ i < nthreads /\ todo[i] = <<>>
    /\ final'   = [urls  |-> Merge(final.urls, stats[i].urls),
                   refs  |-> Merge(final.refs, stats[i].refs),
                   bytes |-> final.bytes + stats[i].bytes]
    /\ i'       = i + 1
    /\ UNCHANGED <<pc, dir, index, buckets, nthreads, work, top>>

EndOfJoin ==
    /\ pc = "join" /\ i = nthreads
    /\ pc' = "report"
    /\ UNCHANGED <<dir, index, buckets, nthreads, i, work, final, top>>

\* compare_by_value: the difference of two longs, as an int.
Half     == 2^(IntBits - 1)
AsInt(n) == ((n + Half) % (2 * Half)) - Half
\* A slip: the lightest first.
Ascending(map, a, b) == AsInt(map[a] - map[b])
Compare(map, a, b) == AsInt(map[b] - map[a])

Orders(set) == {s \in [1 .. Cardinality(set) -> set] : IsInjective(s)}

\* What qsort may make of a map: anything, when the comparison is not an order.
Sorted(map) ==
    LET le(a, b) == Compare(map, a, b) <= 0
        keys     == DOMAIN map
        isOrder  == /\ \A a, b \in keys : le(a, b) \/ le(b, a)
                    /\ \A a, b, c \in keys : le(a, b) /\ le(b, c) => le(a, c)
    IN  IF isOrder
          THEN {s \in Orders(keys) :
                   \A m, n \in DOMAIN s : m < n => le(s[m], s[n])}
          ELSE Orders(keys)

FirstN(s) == SubSeq(s, 1, IF Len(s) < TopN THEN Len(s) ELSE TopN)

Report ==
    /\ pc = "report"
    /\ \E u \in Sorted(final.urls), r \in Sorted(final.refs) :
          top' = <<FirstN(u), FirstN(r)>>
    /\ pc' = "done"
    /\ UNCHANGED <<dir, index, buckets, nthreads, i, work, final>>

-----------------------------------------------------------------------------
(* thread_function and process_file, one line per step.                    *)

ParseLine(t) ==
    /\ todo[t] # <<>> /\ pos[t] < Len(Lines[Head(todo[t])])
    /\ stats' = [stats EXCEPT
                   ![t] = ParseLogLine(Lines[Head(todo[t])][pos[t] + 1], @)]
    /\ pos'   = [pos EXCEPT ![t] = @ + 1]
    /\ UNCHANGED <<main, todo, final, top>>

\* A slip: the loop over the files does not advance.
Rereads(t) ==
    /\ todo[t] # <<>> /\ pos[t] = Len(Lines[Head(todo[t])])
    /\ pos'  = [pos EXCEPT ![t] = 0]
    /\ UNCHANGED <<main, todo, stats, final, top>>

CloseFile(t) ==
    /\ todo[t] # <<>> /\ pos[t] = Len(Lines[Head(todo[t])])
    /\ todo' = [todo EXCEPT ![t] = Tail(@)]
    /\ pos'  = [pos EXCEPT ![t] = 0]
    /\ UNCHANGED <<main, stats, final, top>>

Main ==
    \/ \E e \in Entries : DealOut(e)
    \/ EndOfDir \/ CreateThread \/ EndOfCreate
    \/ JoinThread \/ EndOfJoin \/ Report

Thread(t) == ParseLine(t) \/ CloseFile(t)

\* The program has returned from main.
Terminated == pc = "done" /\ UNCHANGED vars

Next == Main \/ (\E t \in Ids : Thread(t)) \/ Terminated

Spec == Init /\ [][Next]_vars

\* The threads are scheduled by the system, main like the others.
FairSpec == Spec /\ WF_vars(Main) /\ \A t \in Ids : WF_vars(Thread(t))

-----------------------------------------------------------------------------
(* Properties.                                                             *)

IsMap(map, keys) == DOMAIN map \subseteq keys /\ Range(map) \subseteq Nat
StatsOK(st) == /\ DOMAIN st = {"urls", "refs", "bytes"}
               /\ IsMap(st.urls, Urls) /\ IsMap(st.refs, Refs)
               /\ st.bytes \in Nat

TypeOK ==
    /\ pc       \in {"split", "create", "join", "report", "done"}
    /\ dir      \subseteq Entries
    /\ index    \in 0 .. Cardinality(Regular)
    /\ buckets  \in [Ids -> Seq(Regular)]
    /\ nthreads \in {0} \cup {t + 1 : t \in Ids}
    /\ i        \in 0 .. nthreads
    /\ todo     \in [Ids -> Seq(Regular)]
    /\ pos      \in [Ids -> Nat]
    /\ \A t \in Ids : StatsOK(stats[t])
    /\ StatsOK(final)

\* The counts of a sequential reading of the whole directory.
Places    == UNION {{f} \X (1 .. Len(Lines[f])) : f \in Regular}
LineAt(p) == Lines[p[1]][p[2]]
Gets      == {p \in Places : LineAt(p).get}
Size(p)   == LineAt(p).size
Weight(P) == MapThenSumSet(Size, P)
Reference ==
    [urls  |-> [u \in {LineAt(p).url : p \in Gets} |->
                   Weight({p \in Gets : LineAt(p).url = u})],
     refs  |-> [r \in {LineAt(p).ref : p \in Gets} \ {NoRef} |->
                   Cardinality({p \in Gets : LineAt(p).ref = r})],
     bytes |-> Weight(Gets)]

\* The result does not depend on the number of threads, on how the directory
\* is listed or on how the threads run: it is that of reading every file once.
FinalIsSequential == pc \in {"report", "done"} => final = Reference

\* A thread is created for every bucket with a file in it: the loop may stop
\* at the first empty one, because no later one has any.
NoBucketLeftOut ==
    pc \in {"join", "report", "done"} =>
       \A t \in Ids : t >= nthreads => buckets[t] = <<>>

\* No two threads ever work on the same file, and none works on a file that
\* another one has finished, so that each file name is freed once.
FilesArePrivate ==
    \A t, u \in Ids : \A m \in DOMAIN buckets[t], n \in DOMAIN buckets[u] :
       buckets[t][m] = buckets[u][n] => t = u /\ m = n

\* Every file that was dealt out is read by one thread, and by one only.
EachFileOneThread == NoBucketLeftOut /\ FilesArePrivate

\* main.c:238, "Top heavy URLs": the printed urls are the heaviest, in order.
Heaviest(s, map) ==
    /\ \A m, n \in DOMAIN s : m < n => map[s[m]] >= map[s[n]]
    /\ \A k \in DOMAIN map \ Range(s), n \in DOMAIN s : map[s[n]] >= map[k]
TopIsHeaviest ==
    pc = "done" => Heaviest(top[1], final.urls) /\ Heaviest(top[2], final.refs)

\* The same, as far as the values of a map do not differ by more than an int.
Near(map) == \A k, l \in DOMAIN map : map[k] - map[l] < Half
TopIsHeaviestOfNear ==
    pc = "done" => /\ Near(final.urls) => Heaviest(top[1], final.urls)
                   /\ Near(final.refs) => Heaviest(top[2], final.refs)

\* Every run of the program ends.
Terminates == <>(pc = "done")

=============================================================================

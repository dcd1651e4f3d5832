------------------------------- MODULE Logger -------------------------------
(***************************************************************************)
(* HW06-Logger/src/logger.c used by several threads: one, as main does,    *)
(* initialises it, logs and cleans up, the others only log.  A step is a   *)
(* call on the FILE or the mutex, or an access to a static variable.       *)
(***************************************************************************)
CONSTANTS
    Workers,    \* the threads that only log
    Owner,      \* the thread of main
    NoOne       \* no thread

VARIABLES
    initialized,
    log_fp,     \* "null", "open" or "closed", which the pointer does not show
    lock,       \* the thread in the mutex, or NoOne
    destroyed,  \* pthread_mutex_destroy has been there
    pc,         \* what each thread does next
    line,       \* whose line has a beginning but no end yet, or NoOne
    mixed,      \* something was written into another thread's line
    unflushed,  \* what waits in the buffer of the FILE: "line", "trace"
    life,       \* "fresh", "cleaned" by a logger_cleanup, "reopened" since
    overlapped  \* the threads whose call a logger_cleanup has overlapped

mutex == <<lock, destroyed>>
file  == <<line, mixed, unflushed>>
vars  == <<initialized, log_fp, mutex, pc, file, life, overlapped>>

Threads == Workers \cup {Owner}
InLog   == {"lock", "prefix", "text", "flush", "trace", "unlock"}
InClean == {"destroy", "reset"}

Go(t, from, to) == pc[t] = from /\ pc' = [pc EXCEPT ![t] = to]

Init ==
    /\ initialized = FALSE /\ log_fp = "null"
    /\ lock = NoOne /\ destroyed = FALSE
    /\ pc = [t \in Threads |-> "idle"]
    /\ line = NoOne /\ mixed = FALSE /\ unflushed = {}
    /\ life = "fresh" /\ overlapped = {}

-----------------------------------------------------------------------------
(* logger_log.  Without a file it returns at once, which changes nothing.  *)

Call(t) ==
    /\ initialized /\ log_fp # "null"
    /\ Go(t, "idle", "lock")
    /\ overlapped' = IF pc[Owner] \in InClean THEN overlapped \cup {t} ELSE overlapped
    /\ UNCHANGED <<initialized, log_fp, mutex, file, life>>

\* A slip: a message that does not wait.
GoesOn(t) ==
    /\ Go(t, "lock", "prefix")
    /\ lock' = IF lock = NoOne THEN t ELSE lock
    /\ UNCHANGED <<initialized, log_fp, destroyed, file, life, overlapped>>

\* A mutex that has been destroyed may work as before, or let anyone pass.
Lock(t) ==
    /\ Go(t, "lock", "prefix")
    /\ \/ lock = NoOne /\ lock' = t
       \/ destroyed /\ UNCHANGED lock
    /\ UNCHANGED <<initialized, log_fp, destroyed, file, life, overlapped>>

\* A call with log_fp; one with a FILE that is not open ends the program.
Use(t, from, to) ==
    /\ log_fp = "open" /\ Go(t, from, to)
    /\ UNCHANGED <<initialized, log_fp, mutex, life, overlapped>>

Crash(t) ==
    /\ log_fp # "open"
    /\ \E from \in {"prefix", "text", "flush", "trace"} : Go(t, from, "crashed")
    /\ UNCHANGED <<initialized, log_fp, mutex, file, life, overlapped>>

Prefix(t) ==
    /\ Use(t, "prefix", "text")
    /\ line' = t /\ mixed' = (mixed \/ line # NoOne)
    /\ unflushed' = unflushed \cup {"line"}

\* The message and the end of its line.
Text(t) ==
    /\ Use(t, "text", "flush")
    /\ line' = NoOne /\ mixed' = (mixed \/ line # t)
    /\ unflushed' = unflushed \cup {"line"}

\* An ERROR goes on with its stack trace.
Flush(t) ==
    /\ \E next \in {"trace", "unlock"} : Use(t, "flush", next)
    /\ unflushed' = {}
    /\ UNCHANGED <<line, mixed>>

Trace(t) ==
    /\ Use(t, "trace", "unlock")
    /\ mixed' = (mixed \/ line # NoOne)
    /\ unflushed' = unflushed \cup {"trace"}
    /\ UNCHANGED line

Unlock(t) ==
    /\ Go(t, "unlock", "idle")
    /\ lock' = IF lock = t THEN NoOne ELSE lock
    /\ overlapped' = overlapped \ {t}
    /\ UNCHANGED <<initialized, log_fp, destroyed, file, life>>

-----------------------------------------------------------------------------
(* logger_init and logger_cleanup, which do not take the mutex.            *)

\* fopen leaves NULL in log_fp when it fails.
OpenLog ==
    /\ ~initialized
    /\ \/ /\ Go(Owner, "idle", "set") /\ log_fp' = "open"
          /\ life' = IF life = "fresh" THEN life ELSE "reopened"
          /\ line' = NoOne /\ unflushed' = {}
       \/ /\ pc[Owner] = "idle" /\ log_fp' = "null"
          /\ UNCHANGED <<pc, life, line, unflushed>>
    /\ UNCHANGED <<initialized, mutex, mixed, overlapped>>

SetInitialized ==
    /\ Go(Owner, "set", "idle") /\ initialized' = TRUE
    /\ UNCHANGED <<log_fp, mutex, file, life, overlapped>>

\* log_fp keeps its value.
Close ==
    /\ Go(Owner, "idle", "destroy")
    /\ IF initialized /\ log_fp # "null"
         THEN log_fp' = "closed" /\ unflushed' = {}
         ELSE UNCHANGED <<log_fp, unflushed>>
    /\ life' = IF life = "fresh" THEN "cleaned" ELSE life
    /\ overlapped' = overlapped \cup {t \in Threads : pc[t] \in InLog}
    /\ UNCHANGED <<initialized, mutex, line, mixed>>

\* pthread_mutex_destroy refuses a mutex that someone holds.
Destroy ==
    /\ Go(Owner, "destroy", "reset")
    /\ destroyed' = (destroyed \/ lock = NoOne)
    /\ UNCHANGED <<initialized, log_fp, lock, file, life, overlapped>>

\* A slip: the flag is forgotten.
StaysInitialized ==
    /\ Go(Owner, "reset", "idle")
    /\ UNCHANGED <<initialized, log_fp, mutex, file, life, overlapped>>

Reset ==
    /\ Go(Owner, "reset", "idle") /\ initialized' = FALSE
    /\ UNCHANGED <<log_fp, mutex, file, life, overlapped>>

Next ==
    /\ \A t \in Threads : pc[t] # "crashed"
    /\ \/ \E t \in Threads : \/ Call(t) \/ Lock(t) \/ Prefix(t) \/ Text(t)
                             \/ Flush(t) \/ Trace(t) \/ Crash(t) \/ Unlock(t)
       \/ OpenLog \/ SetInitialized \/ Close \/ Destroy \/ Reset

Spec == Init /\ [][Next]_vars

-----------------------------------------------------------------------------
(* Properties.                                                             *)

TypeOK ==
    /\ initialized \in BOOLEAN /\ destroyed \in BOOLEAN /\ mixed \in BOOLEAN
    /\ log_fp \in {"null", "open", "closed"}
    /\ lock \in Threads \cup {NoOne} /\ line \in Threads \cup {NoOne}
    /\ pc \in [Threads -> {"idle", "set", "crashed"} \cup InLog \cup InClean]
    /\ \A t \in Workers : pc[t] \in {"idle", "crashed"} \cup InLog
    /\ unflushed \subseteq {"line", "trace"}
    /\ life \in {"fresh", "cleaned", "reopened"}
    /\ overlapped \subseteq Threads

\* Lines of several threads do not get into each other, unless the logger was
\* initialised again after a cleanup, which destroyed its mutex; and once a call
\* has returned its line is in the file: only a stack trace may still be in the
\* buffer, where it is lost if the process dies.
LogIsWhole ==
    /\ mixed => life = "reopened"
    /\ life # "reopened" /\ (\A t \in Threads : pc[t] \in {"idle", "set"} \cup InClean)
         => "line" \notin unflushed

\* The one who uses a FILE that logger_cleanup has closed is a worker in a call
\* of logger_log that the cleanup has overlapped: a call that begins after it
\* returns quietly, and a program with one thread, as main.c, is safe.
OnlyOverlapUsesClosed ==
    \A t \in Threads : pc[t] = "crashed" => t \in Workers \cap overlapped
=============================================================================

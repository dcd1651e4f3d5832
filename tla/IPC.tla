-------------------------------- MODULE IPC ---------------------------------
(***************************************************************************)
(* The size daemon of HW08-IPC: it binds a Unix socket to the name         *)
(* size.socket, serves one client at a time, and takes the name away when  *)
(* a signal or a failing accept ends it.  Several copies of the program    *)
(* may be started in one directory, and stopped or killed at any point.    *)
(* What an answer says is left out.                                        *)
(***************************************************************************)
EXTENDS Naturals, Sequences

CONSTANTS
    Copies,     \* the processes that run the program, one run after the other
    Clients,
    Backlog,    \* the connections the kernel keeps for a listening socket
    MaxStarts,  \* bound: runs of the program in all
    MaxMsgs,    \* bound: the messages of a client that wait to be read
    AnswerCap,  \* the answers that the socket of a client takes
    NoFile, Stale, Nobody

ASSUME CopyAssumption ==
    /\ NoFile \notin Copies /\ Stale \notin Copies /\ NoFile # Stale
    /\ Nobody \notin Clients
    /\ Backlog \in Nat \ {0} /\ MaxStarts \in Nat /\ MaxMsgs \in Nat
    /\ AnswerCap \in Nat \ {0}

VARIABLES
    pc,         \* "off", "started", "ready", "bound", "accept", "read", "reply"
    file,       \* whose socket has the name; Stale when that process has died
    queue,      \* the connections waiting for accept, per copy
    serving,    \* the client at the other end of msgsock, per copy
    starts,
    crashed,    \* whether a copy has ever ended without clean_exit
    st,         \* a client: "idle", "queued", "open", "gone" or "cut"
    unread,     \* the messages it has sent and no read has taken
    answers     \* the answers that it has not received

copies  == <<pc, file, queue, serving, starts, crashed>>
clients == <<st, unread, answers>>
vars    == <<copies, clients>>

Bound     == {"bound", "accept", "read", "reply"}
Listening == {"accept", "read", "reply"}
Handlers  == {"ready"} \cup Bound

Init ==
    /\ pc      = [p \in Copies |-> "off"]
    /\ file    = NoFile
    /\ queue   = [p \in Copies |-> <<>>]
    /\ serving = [p \in Copies |-> Nobody]
    /\ starts  = 0
    /\ crashed = FALSE
    /\ st      = [c \in Clients |-> "idle"]
    /\ unread  = [c \in Clients |-> 0]
    /\ answers = [c \in Clients |-> 0]

-----------------------------------------------------------------------------
(* The beginning and the end of a run.                                     *)

Goto(p, l) == pc' = [pc EXCEPT ![p] = l]

Start(p) ==
    /\ pc[p] = "off" /\ starts < MaxStarts
    /\ Goto(p, "started")
    /\ starts' = starts + 1
    /\ UNCHANGED <<file, queue, serving, crashed, clients>>

\* signal, twice: from here on clean_exit answers SIGINT and SIGTERM.
InstallHandlers(p) ==
    /\ pc[p] = "started"
    /\ Goto(p, "ready")
    /\ UNCHANGED <<file, queue, serving, starts, crashed, clients>>

\* The end of a process: its sockets are closed.
Cut(p) == {c \in Clients : c = serving[p] \/ \E n \in DOMAIN queue[p] : queue[p][n] = c}
Die(p) ==
    /\ Goto(p, "off")
    /\ queue'   = [queue EXCEPT ![p] = <<>>]
    /\ serving' = [serving EXCEPT ![p] = Nobody]
    /\ st' = [c \in Clients |-> IF c \in Cut(p) /\ st[c] # "gone" THEN "cut" ELSE st[c]]
    /\ UNCHANGED <<starts, unread, answers>>

\* Without close_server the name stays, and stands for a dead socket.
Crash(p) ==
    /\ Die(p)
    /\ file' = IF file = p THEN Stale ELSE file
    /\ crashed' = (crashed \/ pc[p] \in Handlers)

\* close_server takes the name away whoever's socket it stands for.
CloseServer(p) ==
    /\ Die(p)
    /\ file' = NoFile
    /\ UNCHANGED crashed

\* No configuration file.
NoConfig(p) ==
    /\ pc[p] = "started"
    /\ Die(p)
    /\ UNCHANGED <<file, crashed>>

\* A slip: a handler that only exits.
ExitsOnly(p) ==
    /\ pc[p] \in Handlers
    /\ Die(p)
    /\ file' = IF file = p THEN Stale ELSE file
    /\ UNCHANGED crashed

CleanExit(p) == pc[p] \in Handlers /\ CloseServer(p)

\* SIGKILL, or any signal before the handlers are installed.
Kill(p) == pc[p] # "off" /\ Crash(p)

-----------------------------------------------------------------------------
(* create_server and start_server.                                         *)

\* Slips: a name in use is taken away first, and a client is not let go.
Rebind(p) ==
    /\ pc[p] = "ready"
    /\ file' = p
    /\ Goto(p, "bound")
    /\ UNCHANGED <<queue, serving, starts, crashed, clients>>
KeepsReading(p) == FALSE

Bind(p) ==
    /\ pc[p] = "ready" /\ file = NoFile
    /\ file' = p
    /\ Goto(p, "bound")
    /\ UNCHANGED <<queue, serving, starts, crashed, clients>>

\* exit(1), and the name stays with its owner.
BindFails(p) ==
    /\ pc[p] = "ready" /\ file # NoFile
    /\ Die(p)
    /\ UNCHANGED <<file, crashed>>

Listen(p) ==
    /\ pc[p] = "bound"
    /\ Goto(p, "accept")
    /\ UNCHANGED <<file, queue, serving, starts, crashed, clients>>

Accept(p) ==
    /\ pc[p] = "accept" /\ queue[p] # <<>>
    /\ serving' = [serving EXCEPT ![p] = Head(queue[p])]
    /\ queue'   = [queue EXCEPT ![p] = Tail(@)]
    /\ st' = [st EXCEPT ![Head(queue[p])] = IF @ = "queued" THEN "open" ELSE @]
    /\ Goto(p, "read")
    /\ UNCHANGED <<file, starts, crashed, unread, answers>>

\* A failing accept ends the loop and the program.
AcceptFails(p) == pc[p] = "accept" /\ CloseServer(p)

\* One read takes some of the messages that are there, also those of a client
\* that is gone, and makes one answer.
ReadMessage(p) ==
    /\ pc[p] = "read"
    /\ \E n \in 1 .. unread[serving[p]] :
          unread' = [unread EXCEPT ![serving[p]] = @ - n]
    /\ Goto(p, "reply")
    /\ UNCHANGED <<file, queue, serving, starts, crashed, st, answers>>

ReadEnd(p) ==
    /\ pc[p] = "read" /\ unread[serving[p]] = 0 /\ st[serving[p]] = "gone"
    /\ serving' = [serving EXCEPT ![p] = Nobody]
    /\ Goto(p, "accept")
    /\ UNCHANGED <<file, queue, starts, crashed, clients>>

\* A slip: accept again after one answer.
OneAnswer(p) ==
    /\ pc[p] = "reply" /\ st[serving[p]] = "open"
    /\ serving' = [serving EXCEPT ![p] = Nobody]
    /\ Goto(p, "accept")
    /\ UNCHANGED <<file, queue, starts, crashed, clients>>

\* send blocks until the client's socket has room.
Reply(p) ==
    /\ pc[p] = "reply" /\ st[serving[p]] = "open" /\ answers[serving[p]] < AnswerCap
    /\ answers' = [answers EXCEPT ![serving[p]] = @ + 1]
    /\ Goto(p, "read")
    /\ UNCHANGED <<file, queue, serving, starts, crashed, st, unread>>

\* send to a client that is gone, or goes while send waits, raises SIGPIPE, which
\* nobody handles.
BrokenPipe(p) ==
    /\ pc[p] = "reply" /\ st[serving[p]] = "gone"
    /\ Crash(p)

-----------------------------------------------------------------------------
(* The clients, each with one connection.                                  *)

Connect(c) ==
    /\ st[c] = "idle"
    /\ \E p \in Copies :
          /\ file = p /\ pc[p] \in Listening /\ Len(queue[p]) < Backlog
          /\ queue' = [queue EXCEPT ![p] = Append(@, c)]
    /\ st' = [st EXCEPT ![c] = "queued"]
    /\ UNCHANGED <<pc, file, serving, starts, crashed, unread, answers>>

SendMessage(c) ==
    /\ st[c] \in {"queued", "open"} /\ unread[c] < MaxMsgs
    /\ unread' = [unread EXCEPT ![c] = @ + 1]
    /\ UNCHANGED <<copies, st, answers>>

Receive(c) ==
    /\ st[c] = "open" /\ answers[c] > 0
    /\ answers' = [answers EXCEPT ![c] = @ - 1]
    /\ UNCHANGED <<copies, st, unread>>

HangUp(c) ==
    /\ st[c] \in {"queued", "open"}
    /\ st' = [st EXCEPT ![c] = "gone"]
    /\ UNCHANGED <<copies, unread, answers>>

-----------------------------------------------------------------------------
Serve(p) ==
    \/ Bind(p) \/ BindFails(p) \/ Listen(p) \/ Accept(p)
    \/ ReadMessage(p) \/ ReadEnd(p) \/ Reply(p) \/ BrokenPipe(p)

Next ==
    \/ \E p \in Copies :
          \/ Start(p) \/ NoConfig(p) \/ InstallHandlers(p) \/ Serve(p)
          \/ AcceptFails(p) \/ CleanExit(p) \/ Kill(p)
    \/ \E c \in Clients : Connect(c) \/ SendMessage(c) \/ Receive(c) \/ HangUp(c)

Spec == Init /\ [][Next]_vars

\* A copy past its start runs on whenever it is not blocked in a call.
FairSpec == Spec /\ \A p \in Copies : WF_vars(Serve(p))

-----------------------------------------------------------------------------
(* Properties.                                                             *)

TypeOK ==
    /\ pc      \in [Copies -> {"off", "started"} \cup Handlers]
    /\ file    \in Copies \cup {NoFile, Stale}
    /\ queue   \in [Copies -> Seq(Clients)]
    /\ serving \in [Copies -> Clients \cup {Nobody}]
    /\ \A p \in Copies : serving[p] # Nobody <=> pc[p] \in {"read", "reply"}
    /\ starts  \in 0 .. MaxStarts
    /\ crashed \in BOOLEAN
    /\ st      \in [Clients -> {"idle", "queued", "open", "gone", "cut"}]
    /\ unread  \in [Clients -> 0 .. MaxMsgs]
    /\ answers \in [Clients -> 0 .. AnswerCap]

\* Once all copies have been stopped by SIGINT, SIGTERM or a failing accept,
\* the next one can bind: the name is left behind only by a copy that was
\* killed, by SIGKILL or by the SIGPIPE of a client that did not wait for its
\* answer.
CleanStopsAllowRestart ==
    ~crashed /\ (\A p \in Copies : pc[p] = "off") => file = NoFile

\* A copy that serves does not lose its name while it runs, unless another
\* copy that has its handlers is ended meanwhile: in particular a second copy
\* that runs into the name in use leaves it alone.
NameIsKept ==
    [][\A p \in Copies :
          file = p /\ pc[p] \in Listening /\ pc'[p] \in Listening /\ file' # p
             => \E q \in Copies \ {p} :
                   pc[q] \in Handlers /\ pc'[q] = "off" /\ file' = NoFile]_vars

\* A client that waits or is connected is in the hands of one copy, which runs and
\* will come to it or is serving it, whatever copies were stopped, killed and
\* started meanwhile; and whom a copy serves is there or has hung up, so that
\* read and send always find something or an end, unless that client says nothing.
OneCopyPerClient ==
    /\ \A p, q \in Copies : p # q => Cut(p) \cap Cut(q) = {}
    /\ \A p \in Copies : Cut(p) # {} => pc[p] \in Listening
    /\ \A c \in Clients : st[c] \in {"queued", "open"} =>
          \E p \in Copies : c \in Cut(p) /\ (st[c] = "open" <=> serving[p] = c)
    /\ \A p \in Copies : serving[p] # Nobody => st[serving[p]] \in {"open", "gone"}

\* A client that waits in the queue for ever waits behind one other client of the
\* same copy, which stays connected for ever: it is silent, or does not take its
\* answers, or never stops asking.  A copy that can still serve is held up by
\* nothing else: not by clients that hang up at any point, nor by other copies
\* that are started, stopped or killed.
HoldsUp(d, c) == \E p \in Copies : serving[p] = d /\ st[d] = "open" /\ c \in Cut(p)
WaitingNeedsAHolder ==
    \A c \in Clients :
       <>[](st[c] = "queued") => \E d \in Clients \ {c} : <>[]HoldsUp(d, c)

=============================================================================

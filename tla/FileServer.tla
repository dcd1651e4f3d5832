----------------------------- MODULE FileServer -----------------------------
(***************************************************************************)
(* The epoll loop of HW12-FileServer/src/server.c and what surrounds it:   *)
(* one thread that accepts connections, gathers each client's request in   *)
(* the slot of its descriptor, answers it and closes, while the clients    *)
(* connect, send, hang up and drain their replies at any moment.  Each     *)
(* system call of the server is one step.  The kernel (the edge-triggered  *)
(* ready list, the accept queue, the socket buffers) is external and is    *)
(* modelled by what the server's calls observe of it.                      *)
(*                                                                         *)
(* A client stands for one connection and one request.  Its request is     *)
(* sent in pieces, the last of which carries the blank line, and may be    *)
(* longer than the buffers of the server.  A file goes out in chunks of    *)
(* BUFFER_SIZE, and a socket may take the front half of one: any part of   *)
(* it.                                                                     *)
(***************************************************************************)
EXTENDS Naturals, Sequences, FiniteSets

CONSTANTS
    Clients,
    Request,        \* what a client asks for, one of Kinds
    Segments,       \* the pieces a client's request has
    Room,           \* BUFFER_SIZE - 1, the pieces that buffer and a slot hold
    Chunks,         \* the chunks of the file a client asks for
    SndCap,         \* what a socket's send buffer takes, in halves of a chunk
    FirstFd,        \* the lowest descriptor a connection can get
    TableSize,      \* MAX_EVENTS, the length of connections
    MaxFd,          \* the highest descriptor of the process
    Listen,         \* the listening socket, as an epoll item
    None

\* What handle_request tells apart: a regular file, a path stat does not find,
\* a directory, a file fopen may not read, and a method that is not GET.
Kinds == {"file", "missing", "dir", "denied", "post"}

Slots       == FirstFd .. TableSize - 1
Descriptors == FirstFd .. MaxFd

ASSUME ClientAssumption ==
    /\ IsFiniteSet(Clients) /\ None \notin Clients
    /\ Request \in [Clients -> Kinds]
    /\ Segments \in [Clients -> Nat \ {0}] /\ Room \in Nat \ {0}
    /\ Chunks \in [Clients -> 0 .. 199]
    /\ SndCap \in Nat /\ SndCap >= 2
ASSUME DescriptorAssumption ==
    /\ FirstFd \in Nat /\ TableSize \in Nat /\ MaxFd \in Nat
    /\ TableSize <= MaxFd + 1
    /\ Listen \notin Nat

VARIABLES
    \* the server
    pc,         \* "loop", "handle", "send"; see Stopped
    batch,      \* the events of the last epoll_wait still to be handled
    conn,       \* the client at the other end of a descriptor, or None
    reading,    \* connections[fd].reading_state
    data,       \* connections[fd].buffer: how many pieces of whose request
    leaked,     \* descriptors of files that were opened and never closed
    cur,        \* the descriptor whose request is being handled
    asked,      \* the client whose request is in that descriptor's buffer
    next,       \* the chunk send_file reads next
    \* the kernel and the clients
    ready,      \* the ready list of epollfd
    backlog,    \* the accept queue
    peer,       \* the client's side of a connection, see Peers
    sent,       \* the pieces a client has sent
    unread,     \* those of them the server has not received
    stream,     \* what a client's socket has accepted from the server
    inflight,   \* the halves at the end of it the client has not drained
    lost        \* what the server wrote and the socket did not take whole

server  == <<pc, batch, conn, reading, data, leaked, cur, asked, next>>
kernel  == <<ready, backlog, peer, sent, unread, stream, inflight, lost>>
replies == <<stream, inflight, lost>>
job     == <<cur, asked, next>>
vars    == <<server, kernel>>

\* "closed": the client has closed, its FIN is here.  "doomed": the server has
\* written since and a RST is on its way.  "reset": a RST has come, the next
\* call reports it.  "broken": the next write raises SIGPIPE.
Peers == {"none", "open", "closed", "reset", "doomed", "broken"}

Open     == {f \in Slots : conn[f] # None}
Held     == Open \cup leaked
FdOf(c)  == {f \in Slots : conn[f] = c}
Stopped  == pc \in {"dead", "overrun", "overflow"}
Empty    == [c \in Clients |-> 0]

\* A new descriptor is the lowest one not in use.
Lowest(f) == f \notin Held /\ \A g \in FirstFd .. f - 1 : g \in Held

Init ==
    /\ pc       = "loop"
    /\ batch    = {}
    /\ conn     = [f \in Slots |-> None]
    /\ reading  = [f \in Slots |-> FALSE]
    /\ data     = [f \in Slots |-> Empty]
    /\ leaked   = {}
    /\ cur      = None
    /\ asked    = None
    /\ next     = 1
    /\ ready    = {}
    /\ backlog  = <<>>
    /\ peer     = [c \in Clients |-> "none"]
    /\ sent     = Empty
    /\ unread   = Empty
    /\ stream   = [c \in Clients |-> <<>>]
    /\ inflight = Empty
    /\ lost     = [c \in Clients |-> {}]

-----------------------------------------------------------------------------
(* The clients.                                                            *)

Connect(c) ==
    /\ peer[c] = "none"
    /\ peer'    = [peer EXCEPT ![c] = "open"]
    /\ backlog' = Append(backlog, c)
    /\ ready'   = ready \cup {Listen}
    /\ UNCHANGED <<server, sent, unread, replies>>

\* An arrival is an edge: it puts a descriptor epoll watches in the ready list.
Send(c) ==
    /\ peer[c] = "open" /\ sent[c] < Segments[c]
    /\ sent'   = [sent EXCEPT ![c] = @ + 1]
    /\ unread' = [unread EXCEPT ![c] = @ + 1]
    /\ ready'  = ready \cup FdOf(c)
    /\ UNCHANGED <<server, backlog, peer, replies>>

HangUp(c) ==
    /\ peer[c] = "open"
    /\ \E s \in {"closed", "reset"} : peer' = [peer EXCEPT ![c] = s]
    /\ ready' = ready \cup FdOf(c)
    /\ UNCHANGED <<server, backlog, sent, unread, replies>>

ResetArrives(c) ==
    /\ peer[c] = "doomed"
    /\ peer'  = [peer EXCEPT ![c] = "broken"]
    /\ ready' = ready \cup FdOf(c)
    /\ UNCHANGED <<server, backlog, sent, unread, replies>>

Drain(c) ==
    /\ peer[c] = "open" /\ inflight[c] > 0
    /\ inflight' = [inflight EXCEPT ![c] = @ - 1]
    /\ UNCHANGED <<server, ready, backlog, peer, sent, unread, stream, lost>>

-----------------------------------------------------------------------------
(* The loop: lines 79 to 131.                                              *)

\* epoll_wait asks each item of the list again whether it is readable, and
\* reports it once per edge.  The order inside a batch is left open.
Readable(i) == IF i = Listen
                 THEN backlog # <<>>
                 ELSE unread[conn[i]] > 0 \/ peer[conn[i]] # "open"

\* A slip: the listening socket without EPOLLET.
LevelTriggered ==
    /\ pc = "loop" /\ batch = {}
    /\ batch' = {i \in ready : Readable(i)}
    /\ batch' # {}
    /\ ready' = ready \cap {Listen}
    /\ UNCHANGED <<pc, conn, reading, data, leaked, job,
                   backlog, peer, sent, unread, replies>>

EpollWait ==
    /\ pc = "loop" /\ batch = {}
    /\ batch' = {i \in ready : Readable(i)}
    /\ batch' # {}
    /\ ready' = {}
    /\ UNCHANGED <<pc, conn, reading, data, leaked, job,
                   backlog, peer, sent, unread, replies>>

\* Slips: a slot that keeps the text of its last connection, and one that
\* does not wait for any.
KeepsText(f) ==
    /\ reading' = [reading EXCEPT ![f] = TRUE]
    /\ UNCHANGED data
NotReading(f) ==
    /\ reading' = [reading EXCEPT ![f] = FALSE]
    /\ data'    = [data EXCEPT ![f] = Empty]

\* One accept per event of the listening socket.  EPOLL_CTL_ADD puts a socket
\* that is already readable in the ready list.
NewConn(f) ==
    /\ reading' = [reading EXCEPT ![f] = TRUE]
    /\ data'    = [data EXCEPT ![f] = Empty]

AcceptConn ==
    /\ pc = "loop" /\ Listen \in batch
    /\ \E f \in Slots :
          /\ Lowest(f)
          /\ NewConn(f)
          /\ conn'    = [conn EXCEPT ![f] = Head(backlog)]
          /\ ready'   = IF unread[Head(backlog)] > 0 \/ peer[Head(backlog)] # "open"
                          THEN ready \cup {f} ELSE ready
    /\ batch'   = batch \ {Listen}
    /\ backlog' = Tail(backlog)
    /\ UNCHANGED <<pc, leaked, job, peer, sent, unread, replies>>

\* connections is indexed by descriptor: with every slot taken, by open
\* connections or by leaked files, line 95 stores outside it (or at -1 when
\* accept has failed), and what the program does then is not modelled.
AcceptOverrun ==
    /\ pc = "loop" /\ Listen \in batch
    /\ Slots \subseteq Held
    /\ pc' = "overrun"
    /\ UNCHANGED <<batch, conn, reading, data, leaked, job, kernel>>

\* close also takes the descriptor out of the epoll set, so that the
\* EPOLL_CTL_DEL after it finds nothing.
Forget(f) ==
    /\ conn'  = [conn EXCEPT ![f] = None]
    /\ batch' = batch \ {f}
    /\ ready' = ready \ {f}

\* Slips: any piece is taken for a whole request; a recv of one piece at a time.
AnyPiece(slot) == {d \in Clients : slot[d] > 0}
OnePiece(c)    == 1

\* The blank line anywhere in the buffer completes a request, whoever sent it.
Complete(slot) == {d \in Clients : slot[d] >= Segments[d]}

\* One recv per event, of what has arrived and buffer has room for.
Received(c) == IF unread[c] <= Room THEN unread[c] ELSE Room

\* The branches that pass over a descriptor not read any more, and over EAGAIN,
\* are never taken: see NoEmptyCall.
Arrived(f) == /\ pc = "loop" /\ f \in batch \ {Listen} /\ reading[f]
              /\ unread[conn[f]] > 0
Fits(f)    == data[f][conn[f]] + Received(conn[f]) <= Room

\* strncat is not told how much room the slot has left, and what the program does
\* after writing beyond it is not modelled.
RecvOverflow(f) ==
    /\ Arrived(f) /\ ~Fits(f)
    /\ pc' = "overflow"
    /\ UNCHANGED <<batch, conn, reading, data, leaked, job, kernel>>

RecvData(f) ==
    /\ Arrived(f) /\ Fits(f)
    /\ LET slot == [data[f] EXCEPT ![conn[f]] = @ + Received(conn[f])] IN
          /\ data' = [data EXCEPT ![f] = slot]
          /\ IF Complete(slot) = {}
               THEN UNCHANGED <<pc, job>>
               ELSE /\ pc' = "handle" /\ cur' = f
                    /\ asked' \in Complete(slot)
                    /\ UNCHANGED next
    /\ unread' = [unread EXCEPT ![conn[f]] = @ - Received(conn[f])]
    /\ batch'  = batch \ {f}
    /\ UNCHANGED <<conn, reading, leaked, ready, backlog, peer, sent, replies>>

\* Slips: a connection closed although recv has returned data, and a break in
\* the place of a continue.
ClosesEarly(f) ==
    /\ pc = "loop" /\ f \in batch \ {Listen} /\ reading[f]
    /\ Forget(f)
    /\ UNCHANGED <<pc, reading, data, leaked, job,
                   backlog, peer, sent, unread, replies>>
BreaksOut(f) ==
    /\ pc = "loop" /\ f \in batch \ {Listen} /\ reading[f]
    /\ unread[conn[f]] = 0 /\ peer[conn[f]] # "open"
    /\ conn'  = [conn EXCEPT ![f] = None]
    /\ batch' = {}
    /\ ready' = ready \ {f}
    /\ UNCHANGED <<pc, reading, data, leaked, job,
                   backlog, peer, sent, unread, replies>>

\* recv returns 0 or an error other than EAGAIN.
RecvEnd(f) ==
    /\ pc = "loop" /\ f \in batch \ {Listen} /\ reading[f]
    /\ unread[conn[f]] = 0 /\ peer[conn[f]] # "open"
    /\ Forget(f)
    /\ UNCHANGED <<pc, reading, data, leaked, job,
                   backlog, peer, sent, unread, replies>>

-----------------------------------------------------------------------------
(* handle_request and send_file: lines 133 to 191.                         *)

\* The halves of an item that a non-blocking write passes on: both, the front
\* one, or none on a full buffer or a dead connection.
Taken(c) == IF peer[c] = "reset" \/ inflight[c] >= SndCap THEN 0
            ELSE IF inflight[c] + 1 = SndCap THEN 1 ELSE 2

\* write on the non-blocking socket of client c.  Its result is ignored, so
\* what is not taken is lost; an item in stream and in lost was cut short.
Write(c, item) ==
    /\ stream'   = IF Taken(c) > 0 THEN [stream EXCEPT ![c] = Append(@, item)] ELSE stream
    /\ inflight' = [inflight EXCEPT ![c] = @ + Taken(c)]
    /\ lost'     = IF Taken(c) < 2 THEN [lost EXCEPT ![c] = @ \cup {item}] ELSE lost
    /\ peer' = [peer EXCEPT ![c] = CASE @ = "closed" -> "doomed"
                                     [] @ = "reset"  -> "broken"
                                     [] OTHER        -> @]

Finish ==
    /\ pc' = "loop"
    /\ Forget(cur)
    /\ reading' = [reading EXCEPT ![cur] = FALSE]
    /\ cur'   = None
    /\ asked' = None
    /\ next'  = 1

Spare     == Descriptors \ Held
Status(k) == CASE k = "file" /\ Spare # {} -> 200
               [] k = "missing" -> 404
               [] k = "post"    -> 501
               [] OTHER         -> 403

\* A slip: the path is opened before the method is looked at.
OpensFirst(k) == k \in {"dir", "post"}

\* fopen opens a directory too, and the branch that then refuses it does not
\* close it.
Unclosed(k) == k = "dir"

\* A reply without a file is one write and a close.
Refuse ==
    /\ pc = "handle" /\ Status(Request[asked]) # 200
    /\ Write(conn[cur], Status(Request[asked]))
    /\ leaked' = IF Unclosed(Request[asked])
                   THEN leaked \cup {f \in Spare : Lowest(f)} ELSE leaked
    /\ Finish
    /\ UNCHANGED <<data, backlog, sent, unread>>

\* The FILE of a transfer is closed before the next accept: its descriptor is
\* in nobody's way and is left out.
StartFile ==
    /\ pc = "handle" /\ Status(Request[asked]) = 200
    /\ Write(conn[cur], 200)
    /\ pc' = "send"
    /\ UNCHANGED <<batch, conn, reading, data, leaked, job,
                   ready, backlog, sent, unread>>

\* Slips: one chunk too many, and one chunk too few.
OneMoreChunk ==
    /\ pc = "send" /\ next <= Chunks[asked] + 1 /\ peer[conn[cur]] # "broken"
    /\ Write(conn[cur], next)
    /\ next' = next + 1
    /\ UNCHANGED <<pc, batch, conn, reading, data, leaked, cur, asked,
                   ready, backlog, sent, unread>>
OneChunkLess ==
    /\ pc = "send" /\ next >= Chunks[asked]
    /\ Finish
    /\ UNCHANGED <<data, leaked, backlog, peer, sent, unread, replies>>

SendChunk ==
    /\ pc = "send" /\ next <= Chunks[asked] /\ peer[conn[cur]] # "broken"
    /\ Write(conn[cur], next)
    /\ next' = next + 1
    /\ UNCHANGED <<pc, batch, conn, reading, data, leaked, cur, asked,
                   ready, backlog, sent, unread>>

\* Nobody ignores SIGPIPE: its default action ends the server.
BrokenPipe ==
    /\ pc = "send" /\ next <= Chunks[asked] /\ peer[conn[cur]] = "broken"
    /\ pc' = "dead"
    /\ UNCHANGED <<batch, conn, reading, data, leaked, job, kernel>>

FinishFile ==
    /\ pc = "send" /\ next > Chunks[asked]
    /\ Finish
    /\ UNCHANGED <<data, leaked, backlog, peer, sent, unread, replies>>

-----------------------------------------------------------------------------
Server ==
    \/ EpollWait \/ AcceptConn \/ AcceptOverrun
    \/ \E f \in Slots : RecvData(f) \/ RecvOverflow(f) \/ RecvEnd(f)
    \/ Refuse \/ StartFile \/ SendChunk \/ BrokenPipe \/ FinishFile

Client(c) ==
    Connect(c) \/ Send(c) \/ HangUp(c) \/ ResetArrives(c) \/ Drain(c)

Next == Server \/ \E c \in Clients : Client(c)

Spec == Init /\ [][Next]_vars

\* The server is one thread and never waits but in epoll_wait.  Of the
\* clients nothing is assumed.
FairSpec == Spec /\ WF_vars(Server)

-----------------------------------------------------------------------------
(* Properties.                                                             *)

TypeOK ==
    /\ pc       \in {"loop", "handle", "send", "dead", "overrun", "overflow"}
    /\ batch    \subseteq Slots \cup {Listen}
    /\ conn     \in [Slots -> Clients \cup {None}]
    /\ reading  \in [Slots -> BOOLEAN]
    /\ data     \in [Slots -> [Clients -> Nat]]
    /\ leaked   \subseteq Descriptors
    /\ cur      \in Slots \cup {None}
    /\ asked    \in Clients \cup {None}
    /\ next     \in Nat \ {0}
    /\ ready    \subseteq Slots \cup {Listen}
    /\ backlog  \in Seq(Clients)
    /\ peer     \in [Clients -> Peers]
    /\ sent     \in [Clients -> Nat] /\ \A c \in Clients : sent[c] <= Segments[c]
    /\ unread   \in [Clients -> Nat]
    /\ stream   \in [Clients -> Seq(1 .. 501)]
    /\ inflight \in [Clients -> 0 .. SndCap]
    /\ lost     \in [Clients -> SUBSET (1 .. 501)]

\* A slot holds what its own client has sent and the server has received, and
\* nothing of the clients that had the descriptor before, although nothing
\* clears a slot when its descriptor is closed.
SlotIsolation ==
    \A f \in Open :
       /\ data[f][conn[f]] + unread[conn[f]] = sent[conn[f]]
       /\ \A d \in Clients \ {conn[f]} : data[f][d] = 0

\* Where no event is to come, although one event is worth one recv: text is left
\* unread only if the slot is full, by a request that is longer than the slot; and
\* a hang-up is missed only if the client had sent text before it, whose recv
\* has used up the edge of both.
UnreadIsCovered ==
    \A f \in Open \ (ready \cup batch) :
       /\ unread[conn[f]] > 0 => data[f][conn[f]] >= Room /\ sent[conn[f]] > Room
       /\ peer[conn[f]] # "open" /\ asked # conn[f] => data[f][conn[f]] > 0

\* accept and recv are called only when there is something for them, on a
\* descriptor that is open and still read: so the result of accept, which is
\* not checked, is a connection, and recv never answers EAGAIN.
Edges == Cardinality(ready \cap {Listen}) + Cardinality(batch \cap {Listen})
NoEmptyCall ==
    /\ Len(backlog) >= Edges
    /\ \A f \in batch \ {Listen} : f \in Open /\ reading[f] /\ Readable(f)

\* A client gets an answer to its own request, complete, and one answer only:
\* one status line, before everything else.  A readable file is refused only
\* when no descriptor was left to open it.
RightReply ==
    \A c \in Clients : stream[c] # <<>> =>
       /\ sent[c] = Segments[c] /\ unread[c] = 0
       /\ stream[c][1] \in
             CASE Request[c] = "file"    -> {200, 403}
               [] Request[c] = "missing" -> {404}
               [] Request[c] = "post"    -> {501}
               [] OTHER                  -> {403}
       /\ \A i \in 2 .. Len(stream[c]) :
             stream[c][1] = 200 /\ stream[c][i] \in 1 .. Chunks[c]

\* The chunks of a file leave in order, none twice, and each one that was read
\* is in the client's stream, was lost on the way to the socket, or was cut
\* short and is both.
BodyInOrder ==
    \A c \in Clients :
       /\ \A i, j \in 2 .. Len(stream[c]) : i < j => stream[c][i] < stream[c][j]
       /\ LET body == {stream[c][i] : i \in 2 .. Len(stream[c])}
          IN  stream[c] # <<>> /\ stream[c][1] = 200 =>
                 body \cup lost[c] =
                    1 .. (IF asked = c THEN next - 1 ELSE Chunks[c])

\* What a client can make of its stream: one reply, its own, and of a file the
\* chunks in order with a hole wherever one was lost or cut short.
OneRightReply == RightReply /\ BodyInOrder

\* A file that fits in the send buffer with its header arrives whole, however
\* slowly the client reads: only larger ones, or a reset, lose chunks to the
\* write whose result is ignored.
SmallFilesWhole ==
    \A c \in Clients :
       lost[c] # {} => peer[c] = "broken" \/ 2 + 2 * Chunks[c] > SndCap

\* The server closes on a client that is still there only after answering it.
Accepted(c)  == /\ peer[c] # "none"
                /\ \A i \in 1 .. Len(backlog) : backlog[i] # c
NoSilentClose ==
    \A c \in Clients :
       Accepted(c) /\ FdOf(c) = {} /\ pc # "overrun" /\ peer[c] = "open"
          => stream[c] # <<>>

\* A descriptor that belongs to no connection was leaked by the answer to a
\* request for a directory, one each.  So the table of connections is overrun
\* only when the open connections and the directories asked for so far have
\* used up its slots.
Directories == {c \in Clients : Request[c] = "dir" /\ sent[c] = Segments[c]}
LeaksAreDirectories ==
    /\ Cardinality(leaked) <= Cardinality(Directories)
    /\ leaked \cap Open = {}
    /\ pc = "overrun" =>
          Cardinality(Open) + Cardinality(Directories) >= Cardinality(Slots)

\* Connections in the accept queue for which no event is pending: two clients
\* that connect between two calls of epoll_wait make one edge and get one
\* accept.  The loop never catches up: later connections do not help those
\* behind, and their number never goes down again.
Stranded     == Len(backlog) - Edges
NeverCatchUp == [][Stranded' >= Stranded]_vars

\* A client in the accept queue with at least as many edges pending as there
\* are clients up to it is accepted, unless the server ends.
Due(c) == \E i \in 1 .. Len(backlog) : backlog[i] = c /\ i <= Edges
AcceptedInTurn == \A c \in Clients : Due(c) ~> Accepted(c) \/ Stopped

\* A request that fits in a slot and has been sent whole on an accepted connection
\* is answered and the connection closed, unless the server ends, whatever
\* the other clients do: one that never finishes its request or never drains
\* its reply delays nobody.
RequestsAnswered ==
    \A c \in {d \in Clients : Segments[d] <= Room} :
       FdOf(c) # {} /\ sent[c] = Segments[c] ~> FdOf(c) = {} \/ Stopped

\* The server keeps the promises of FileService: for its clients the loop, with its
\* descriptors, slots and events, does one whole request after another, and only
\* the end of the server leaves one half done.
Service == INSTANCE FileService WITH
    complete <- {c \in Clients : sent[c] = Segments[c]},
    serving  <- IF pc \in {"send", "dead"} THEN asked ELSE None
ServesInTurn == Service!Spec

=============================================================================

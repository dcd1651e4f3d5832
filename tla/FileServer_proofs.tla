------------------------- MODULE FileServer_proofs -------------------------
(***************************************************************************)
(* The safety properties of the file server, for any number of clients,    *)
(* slots and descriptors, any files and any send buffer.  The inductive    *)
(* invariant comes in three parts, each of which uses those before it:     *)
(* IInv (descriptors, events and requests), Replies (what has been written *)
(* to a client) and LeakInv (the descriptors that are lost).               *)
(***************************************************************************)
EXTENDS FileServer, FiniteSetTheorems, TLAPS

-----------------------------------------------------------------------------
(* The inductive invariant, first half: descriptors, events and requests.  *)

\* The clients in the accept queue.
InQueue == {backlog[i] : i \in 1 .. Len(backlog)}

\* A client is in the accept queue or behind one slot, once.
WiringInv ==
    /\ \A f, g \in Open : conn[f] = conn[g] => f = g
    /\ \A f \in Open : reading[f] /\ peer[conn[f]] # "none" /\ conn[f] \notin InQueue
    /\ \A i, j \in 1 .. Len(backlog) : backlog[i] = backlog[j] => i = j
    /\ \A c \in InQueue : peer[c] # "none"
    /\ ready \subseteq Open \cup {Listen}
    /\ batch \subseteq Open \cup {Listen}

\* The request that is being handled is that of the client at the other end.
JobInv ==
    /\ pc \in {"loop", "overrun", "overflow"} => asked = None
    /\ pc \in {"handle", "send", "dead"} => cur \in Open /\ asked = conn[cur]

\* No more is unread than was sent, and nothing has been received of a client
\* that has not been accepted.
UnheardInv ==
    \A c \in Clients : /\ unread[c] <= sent[c]
                       /\ peer[c] = "none" \/ c \in InQueue => unread[c] = sent[c]

\* What has been asked for was complete, and nothing follows it.
AskedInv ==
    pc \in {"handle", "send", "dead"} => sent[asked] = Segments[asked] /\ unread[asked] = 0

\* An event of a connection reports something.
EventInv == \A f \in batch \ {Listen} : Readable(f)

\* The edges of the listening socket, without cardinalities.
EdgesLeft == (IF Listen \in ready THEN 1 ELSE 0) + (IF Listen \in batch THEN 1 ELSE 0)

QueueInv == Len(backlog) >= EdgesLeft

IInv ==
    /\ TypeOK /\ WiringInv /\ JobInv /\ UnheardInv /\ AskedInv
    /\ SlotIsolation /\ UnreadIsCovered /\ EventInv /\ QueueInv

LEMMA Basics ==
    /\ Slots \subseteq Nat /\ Listen \notin Slots /\ None \notin Clients
    /\ Segments \in [Clients -> Nat \ {0}] /\ Room \in Nat \ {0}
    /\ SndCap \in Nat /\ SndCap >= 2
    /\ Chunks \in [Clients -> 0 .. 199] /\ Request \in [Clients -> Kinds]
BY ClientAssumption, DescriptorAssumption DEF Slots

\* The client behind an open slot.
LEMMA Behind == TypeOK => \A f \in Open : f \in Slots /\ conn[f] \in Clients
BY DEF TypeOK, Open

LEMMA DataAreNumbers == TypeOK => \A f \in Slots, c \in Clients : data[f][c] \in Nat
<1> SUFFICES ASSUME TypeOK, NEW f \in Slots, NEW c \in Clients PROVE data[f][c] \in Nat
    OBVIOUS
<1>1. data[f] \in [Clients -> Nat]
    BY DEF TypeOK
<1>2. QED
    BY <1>1

LEMMA QueueOfClients == TypeOK => InQueue \subseteq Clients
BY DEF TypeOK, InQueue

LEMMA InitIInv == Init => IInv
<1> SUFFICES ASSUME Init PROVE IInv
    OBVIOUS
<1>1. TypeOK
    BY Basics DEF Init, TypeOK, Empty, Peers
<1>2. Open = {} /\ InQueue = {} /\ Len(backlog) = 0
    BY DEF Init, Open, InQueue
<1>3. WiringInv /\ JobInv /\ UnheardInv /\ AskedInv
    BY <1>2 DEF Init, WiringInv, JobInv, UnheardInv, AskedInv, Empty
<1>4. SlotIsolation /\ UnreadIsCovered /\ EventInv /\ QueueInv
    BY <1>2 DEF Init, SlotIsolation, UnreadIsCovered, EventInv, QueueInv, EdgesLeft
<1>5. QED
    BY <1>1, <1>3, <1>4 DEF IInv

-----------------------------------------------------------------------------
(* The clients.                                                            *)

LEMMA ConnectKeeps ==
    ASSUME IInv, NEW c \in Clients, Connect(c)
    PROVE  IInv'
<1> USE DEF IInv
<1>1. /\ backlog \in Seq(Clients) /\ backlog' = Append(backlog, c)
      /\ Len(backlog') = Len(backlog) + 1 /\ Len(backlog) \in Nat
      /\ \A i \in 1 .. Len(backlog) : backlog'[i] = backlog[i]
      /\ backlog'[Len(backlog) + 1] = c
      /\ backlog' \in Seq(Clients)
    BY DEF Connect, TypeOK
<1>a. /\ UNCHANGED <<pc, batch, conn, reading, data, leaked, cur, asked, next>>
      /\ UNCHANGED <<sent, unread, stream, inflight, lost>>
    BY DEF Connect, server, replies, job
<1>b. peer' \in [Clients -> Peers] /\ ready' \subseteq Slots \cup {Listen}
    BY DEF Connect, TypeOK, Peers
<1>2. TypeOK'
    BY <1>1, <1>a, <1>b DEF TypeOK
<1>3. Open' = Open /\ peer[c] = "none" /\ (\A d \in Clients \ {c} : peer'[d] = peer[d])
    BY DEF Connect, server, Open, TypeOK
<1>4. InQueue' = InQueue \cup {c}
    BY <1>1 DEF InQueue
<1>5. c \notin InQueue
    BY <1>3 DEF InQueue, WiringInv
<1>6. \A f \in Open : conn[f] # c /\ conn[f] \in Clients
    BY <1>3, Behind DEF WiringInv
<1>7. WiringInv'
  <2>1. \A f, g \in Open' : conn'[f] = conn'[g] => f = g
      BY <1>3 DEF Connect, server, WiringInv
  <2>2. \A f \in Open' : reading'[f] /\ peer'[conn'[f]] # "none" /\ conn'[f] \notin InQueue'
      BY <1>3, <1>4, <1>6, <1>a DEF WiringInv
  <2>3. \A i, j \in 1 .. Len(backlog') : backlog'[i] = backlog'[j] => i = j
      BY <1>1, <1>5 DEF WiringInv, InQueue
  <2>4. \A d \in InQueue' : peer'[d] # "none"
      BY <1>3, <1>4, QueueOfClients DEF Connect, WiringInv, TypeOK
  <2>5. ready' \subseteq Open' \cup {Listen} /\ batch' \subseteq Open' \cup {Listen}
      BY <1>3 DEF Connect, server, WiringInv
  <2>6. QED
      BY <2>1, <2>2, <2>3, <2>4, <2>5 DEF WiringInv
<1>8. JobInv' /\ AskedInv'
    BY <1>3 DEF Connect, server, JobInv, AskedInv
<1>9. UnheardInv'
    BY <1>3, <1>4 DEF Connect, UnheardInv
<1>10. SlotIsolation' /\ UnreadIsCovered'
    BY <1>3, <1>6, Basics DEF Connect, server, SlotIsolation, UnreadIsCovered, Open
<1>11. EventInv'
    BY <1>3, <1>6, Behind DEF Connect, server, EventInv, Readable, WiringInv
<1>12. QueueInv'
    BY <1>1 DEF Connect, server, QueueInv, EdgesLeft
<1>13. QED
    BY <1>2, <1>7, <1>8, <1>9, <1>10, <1>11, <1>12

\* What the other steps of the clients leave alone.
Untouched ==
    /\ UNCHANGED <<server, backlog>>
    /\ \A c \in Clients : peer'[c] = "none" <=> peer[c] = "none"
    /\ \A c \in Clients : peer'[c] = "open" => peer[c] = "open"

LEMMA UntouchedKeeps ==
    ASSUME IInv, Untouched, ready \subseteq ready', ready' \subseteq ready \cup Open
    PROVE  /\ Open' = Open /\ WiringInv' /\ JobInv' /\ QueueInv'
           /\ InQueue' = InQueue
<1> USE DEF IInv
<1>1. Open' = Open
    BY DEF Untouched, server, Open
<1>2. InQueue' = InQueue
    BY DEF Untouched, InQueue
<1>3. WiringInv'
  <2>1. UNCHANGED <<conn, reading, batch, backlog>>
      BY DEF Untouched, server
  <2>2. \A f, g \in Open' : conn'[f] = conn'[g] => f = g
      BY <1>1, <2>1 DEF WiringInv
  <2>3. \A f \in Open' : reading'[f] /\ peer'[conn'[f]] # "none" /\ conn'[f] \notin InQueue'
      BY <1>1, <1>2, <2>1, Behind DEF Untouched, WiringInv
  <2>4. \A c \in InQueue' : peer'[c] # "none"
      BY <1>2, QueueOfClients DEF Untouched, WiringInv
  <2>5. QED
      BY <1>1, <2>1, <2>2, <2>3, <2>4 DEF WiringInv
<1>4. JobInv'
    BY <1>1 DEF Untouched, server, JobInv
<1>5. QueueInv'
    BY Basics DEF Untouched, server, QueueInv, EdgesLeft, Open
<1>6. QED
    BY <1>1, <1>2, <1>3, <1>4, <1>5

\* The arrivals of lines that do not concern a request.
LEMMA QuietKeeps ==
    ASSUME IInv, Untouched, ready \subseteq ready', ready' \subseteq ready \cup Open,
           sent' = sent, unread' = unread, TypeOK',
           \A f \in Open : f \in ready' \/ peer'[conn[f]] = peer[conn[f]]
    PROVE  IInv'
<1> USE DEF IInv
<1>1. /\ Open' = Open /\ WiringInv' /\ JobInv' /\ QueueInv'
      /\ InQueue' = InQueue
    BY UntouchedKeeps
<1>2. UnheardInv' /\ AskedInv'
    BY <1>1 DEF Untouched, server, UnheardInv, AskedInv
<1>3. SlotIsolation' /\ UnreadIsCovered'
    BY <1>1 DEF Untouched, server, SlotIsolation, UnreadIsCovered
<1>4. EventInv'
    BY <1>1, Behind DEF Untouched, server, EventInv, Readable, WiringInv
<1>5. QED
    BY <1>1, <1>2, <1>3, <1>4

LEMMA FdsAreOpen == TypeOK => \A c \in Clients : FdOf(c) = {f \in Open : conn[f] = c}
BY Basics DEF TypeOK, FdOf, Open

LEMMA HangUpKeeps ==
    ASSUME IInv, NEW c \in Clients, HangUp(c)
    PROVE  IInv'
<1>1. TypeOK'
    BY ZenonT(60) DEF IInv, HangUp, TypeOK, server, replies, Peers, FdOf
<1>2. Untouched
    BY DEF IInv, HangUp, Untouched, TypeOK
<1>3. QED
  <2>1. ready' = ready \cup {f \in Open : conn[f] = c}
      BY FdsAreOpen DEF IInv, HangUp
  <2>2. \A d \in Clients \ {c} : peer'[d] = peer[d]
      BY DEF IInv, TypeOK, HangUp
  <2>3. \A f \in Open : f \in ready' \/ peer'[conn[f]] = peer[conn[f]]
      BY <2>1, <2>2, Behind DEF IInv
  <2>4. QED
      BY <1>1, <1>2, <2>1, <2>3, QuietKeeps DEF HangUp

LEMMA ResetArrivesKeeps ==
    ASSUME IInv, NEW c \in Clients, ResetArrives(c)
    PROVE  IInv'
<1>1. TypeOK'
    BY DEF IInv, ResetArrives, TypeOK, server, replies, Peers, FdOf
<1>2. Untouched
    BY DEF IInv, ResetArrives, Untouched, TypeOK
<1>3. QED
  <2>1. ready' = ready \cup {f \in Open : conn[f] = c}
      BY FdsAreOpen DEF IInv, ResetArrives
  <2>2. \A d \in Clients \ {c} : peer'[d] = peer[d]
      BY DEF IInv, TypeOK, ResetArrives
  <2>3. \A f \in Open : f \in ready' \/ peer'[conn[f]] = peer[conn[f]]
      BY <2>1, <2>2, Behind DEF IInv
  <2>4. QED
      BY <1>1, <1>2, <2>1, <2>3, QuietKeeps DEF ResetArrives

LEMMA DrainKeeps ==
    ASSUME IInv, NEW c \in Clients, Drain(c)
    PROVE  IInv'
<1>a. UNCHANGED <<server, ready, backlog, peer, sent, unread, stream, lost>>
    BY DEF Drain
<1>b. inflight' \in [Clients -> 0 .. SndCap]
    BY Basics DEF IInv, Drain, TypeOK
<1>1. TypeOK'
    BY <1>a, <1>b DEF IInv, TypeOK, server
<1>2. Untouched
    BY DEF IInv, Drain, Untouched
<1>3. QED
    BY <1>1, <1>2, QuietKeeps DEF IInv, Drain

LEMMA SendKeeps ==
    ASSUME IInv, NEW c \in Clients, Send(c)
    PROVE  IInv'
<1> USE DEF IInv
<1>a. /\ UNCHANGED <<pc, batch, conn, reading, data, leaked, cur, asked, next>>
      /\ UNCHANGED <<backlog, peer, stream, inflight, lost>>
    BY DEF Send, server, replies, job
<1>b. /\ \A d \in Clients : sent[d] \in Nat /\ unread[d] \in Nat
      /\ sent[c] < Segments[c] /\ Segments[c] \in Nat /\ peer[c] = "open"
      /\ \A d \in Clients : sent'[d] = IF d = c THEN sent[c] + 1 ELSE sent[d]
      /\ \A d \in Clients : unread'[d] = IF d = c THEN unread[c] + 1 ELSE unread[d]
      /\ sent' \in [Clients -> Nat] /\ unread' \in [Clients -> Nat]
      /\ \A d \in Clients : sent'[d] <= Segments[d]
  <2>1. /\ sent \in [Clients -> Nat] /\ unread \in [Clients -> Nat]
        /\ \A d \in Clients : sent[d] <= Segments[d]
        /\ sent' = [sent EXCEPT ![c] = sent[c] + 1] /\ unread' = [unread EXCEPT ![c] = unread[c] + 1]
        /\ sent[c] < Segments[c] /\ peer[c] = "open"
      BY DEF Send, TypeOK
  <2>2. Segments[c] \in Nat /\ sent[c] \in Nat
      BY <2>1, Basics
  <2>3. sent[c] + 1 <= Segments[c]
      BY <2>1, <2>2
  <2>4. QED
      BY <2>1, <2>2, <2>3
<1>c. ready' = ready \cup {f \in Open : conn[f] = c}
    BY FdsAreOpen DEF Send
<1>1. TypeOK'
    BY <1>a, <1>b, <1>c, Behind DEF TypeOK
<1>2. Untouched
    BY DEF Send, Untouched
<1>3. /\ Open' = Open /\ WiringInv' /\ JobInv' /\ QueueInv'
      /\ InQueue' = InQueue
    BY <1>2, <1>c, UntouchedKeeps
<1>4. UnheardInv'
    BY <1>3, <1>a, <1>b DEF UnheardInv
<1>5. AskedInv'
    BY <1>a, <1>b, Behind DEF AskedInv, JobInv
<1>6. SlotIsolation'
  <2> SUFFICES ASSUME NEW f \in Open
               PROVE  /\ data[f][conn[f]] + unread'[conn[f]] = sent'[conn[f]]
                      /\ \A d \in Clients \ {conn[f]} : data[f][d] = 0
      BY <1>3, <1>a DEF SlotIsolation
  <2>1. conn[f] \in Clients /\ data[f][conn[f]] \in Nat
      BY Behind, DataAreNumbers
  <2>2. QED
      BY <1>b, <2>1 DEF SlotIsolation
<1>7. UnreadIsCovered'
    BY <1>3, <1>a, <1>b, <1>c, Behind DEF UnreadIsCovered
<1>8. EventInv'
  <2> SUFFICES ASSUME NEW f \in batch', f # Listen PROVE Readable(f)'
      BY DEF EventInv
  <2>1. f \in Open /\ conn[f] \in Clients /\ Readable(f)
      BY <1>a, Behind DEF EventInv, WiringInv
  <2>2. QED
      BY <1>a, <1>b, <2>1 DEF Readable
<1>9. QED
    BY <1>1, <1>3, <1>4, <1>5, <1>6, <1>7, <1>8

-----------------------------------------------------------------------------
(* epoll_wait and accept.                                                  *)

LEMMA EpollWaitKeeps ==
    ASSUME IInv, EpollWait
    PROVE  IInv'
<1> USE DEF IInv
<1>a. /\ UNCHANGED <<pc, conn, reading, data, leaked, cur, asked, next>>
      /\ UNCHANGED <<backlog, peer, sent, unread, stream, inflight, lost>>
    BY DEF EpollWait, replies, job
<1>b. /\ batch = {} /\ ready' = {} /\ pc = "loop"
      /\ batch' = {i \in ready : Readable(i)}
    BY DEF EpollWait
<1>c. Open' = Open /\ InQueue' = InQueue
    BY <1>a DEF Open, InQueue
<1>1. TypeOK'
    BY <1>a, <1>b DEF TypeOK
<1>2. WiringInv' /\ JobInv'
    BY <1>a, <1>b, <1>c DEF WiringInv, JobInv
<1>3. UnheardInv' /\ AskedInv' /\ SlotIsolation'
    BY <1>a, <1>b, <1>c DEF UnheardInv, AskedInv, SlotIsolation
<1>4. UnreadIsCovered'
    BY <1>a, <1>b, <1>c, Basics, Behind DEF UnreadIsCovered, Readable
<1>5. EventInv'
    BY <1>a, <1>b DEF EventInv, Readable
<1>6. QueueInv'
  <2>1. Len(backlog) \in Nat /\ (backlog # <<>> => Len(backlog) >= 1)
      BY DEF TypeOK
  <2>2. QED
      BY <1>a, <1>b, <2>1 DEF QueueInv, EdgesLeft, Readable
<1>7. QED
    BY <1>1, <1>2, <1>3, <1>4, <1>5, <1>6

LEMMA AcceptConnKeeps ==
    ASSUME IInv, AcceptConn
    PROVE  IInv'
<1> USE DEF IInv
<1> DEFINE c == Head(backlog)
<1>a. /\ UNCHANGED <<pc, leaked, cur, asked, next>>
      /\ UNCHANGED <<peer, sent, unread, stream, inflight, lost>>
      /\ pc = "loop" /\ Listen \in batch
      /\ batch' = batch \ {Listen} /\ backlog' = Tail(backlog)
    BY DEF AcceptConn, replies, job
<1>b. PICK f \in Slots :
         /\ Lowest(f) /\ NewConn(f)
         /\ conn'  = [conn EXCEPT ![f] = c]
         /\ ready' = IF unread[c] > 0 \/ peer[c] # "open" THEN ready \cup {f} ELSE ready
    BY DEF AcceptConn
<1>c. /\ backlog \in Seq(Clients) /\ backlog # <<>> /\ c \in Clients /\ c = backlog[1]
      /\ Len(backlog) \in Nat /\ Len(backlog) >= 1
      /\ Len(backlog') = Len(backlog) - 1 /\ backlog' \in Seq(Clients)
      /\ \A i \in 1 .. Len(backlog) - 1 : backlog'[i] = backlog[i + 1]
  <2>1. backlog \in Seq(Clients) /\ Len(backlog) >= 1
      BY <1>a DEF TypeOK, QueueInv, EdgesLeft
  <2>2. QED
      BY <1>a, <2>1
<1>d. /\ f \notin Open
      /\ Open' = Open \cup {f}
      /\ conn'[f] = c /\ \A g \in Open : conn'[g] = conn[g]
      /\ reading'[f] /\ \A g \in Open : reading'[g] = reading[g]
      /\ data'[f] = Empty /\ \A g \in Open : data'[g] = data[g]
  <2>1. f \notin Open /\ c # None
      BY <1>b, <1>c, Basics DEF Lowest, Held
  <2>2. \A g \in Slots : conn'[g] = IF g = f THEN c ELSE conn[g]
      BY <1>b DEF TypeOK
  <2>3. reading'[f] /\ \A g \in Slots \ {f} : reading'[g] = reading[g]
      BY <1>b DEF TypeOK, NewConn
  <2>a. data'[f] = Empty /\ \A g \in Slots \ {f} : data'[g] = data[g]
      BY <1>b DEF TypeOK, NewConn
  <2>4. Open' = Open \cup {f}
      BY <2>1, <2>2 DEF Open
  <2>5. \A g \in Open : g \in Slots /\ g # f
      BY <2>1 DEF Open
  <2>6. conn'[f] = c /\ \A g \in Open : conn'[g] = conn[g]
      BY <2>2, <2>5
  <2>7. QED
      BY <2>1, <2>3, <2>a, <2>4, <2>5, <2>6
<1>e. c \in InQueue /\ InQueue' = InQueue \ {c}
  <2>1. InQueue = {backlog[i] : i \in 1 .. Len(backlog)}
      BY DEF InQueue
  <2>2. InQueue' = {backlog[i + 1] : i \in 1 .. Len(backlog) - 1}
      BY <1>c DEF InQueue
  <2>3. \A i \in 1 .. Len(backlog) - 1 : backlog[i + 1] # c
      BY <1>c DEF WiringInv
  <2>5. \A d \in InQueue' : d \in InQueue /\ d # c
      BY <1>c, <2>1, <2>2, <2>3
  <2>6. \A d \in InQueue : d = c \/ d \in InQueue'
    <3> SUFFICES ASSUME NEW i \in 1 .. Len(backlog), i # 1 PROVE backlog[i] \in InQueue'
        BY <1>c, <2>1
    <3>1. i - 1 \in 1 .. Len(backlog) - 1 /\ (i - 1) + 1 = i
        BY <1>c
    <3>2. QED
        BY <2>2, <3>1
  <2>7. c \in InQueue
      BY <1>c, <2>1
  <2>8. QED
      BY <2>5, <2>6, <2>7
<1>1. TypeOK'
  <2>a. conn' \in [Slots -> Clients \cup {None}]
      BY <1>b, <1>c DEF TypeOK
  <2>b. ready \subseteq Slots \cup {Listen}
      BY DEF TypeOK
  <2>c. ready' = ready \cup {f} \/ ready' = ready
      BY <1>b
  <2>d. f \in Slots
      OBVIOUS
  <2>e. ready' \subseteq Slots \cup {Listen}
    <3> HIDE DEF IInv
    <3> QED
      BY <2>b, <2>c, <2>d, Zenon
  <2>1. conn' \in [Slots -> Clients \cup {None}] /\ ready' \subseteq Slots \cup {Listen}
      BY <2>a, <2>e
  <2>2. reading' \in [Slots -> BOOLEAN] /\ data' \in [Slots -> [Clients -> Nat]]
      BY <1>b DEF TypeOK, NewConn, Empty
  <2>3. QED
      BY <1>a, <1>c, <2>1, <2>2 DEF TypeOK
<1>2. WiringInv'
  <2>1. \A g, h \in Open' : conn'[g] = conn'[h] => g = h
      BY <1>d, <1>e, Behind DEF WiringInv
  <2>2. \A g \in Open' : reading'[g] /\ peer'[conn'[g]] # "none" /\ conn'[g] \notin InQueue'
      BY <1>a, <1>d, <1>e DEF WiringInv
  <2>3. \A i, j \in 1 .. Len(backlog') : backlog'[i] = backlog'[j] => i = j
    <3> SUFFICES ASSUME NEW i \in 1 .. Len(backlog) - 1, NEW j \in 1 .. Len(backlog) - 1,
                        backlog[i + 1] = backlog[j + 1]
                 PROVE  i = j
        BY <1>c
    <3>1. i + 1 \in 1 .. Len(backlog) /\ j + 1 \in 1 .. Len(backlog)
        BY <1>c
    <3>2. QED
        BY <1>c, <3>1 DEF WiringInv
  <2>4. \A d \in InQueue' : peer'[d] # "none"
      BY <1>a, <1>e DEF WiringInv
  <2>5. ready' \subseteq Open' \cup {Listen} /\ batch' \subseteq Open' \cup {Listen}
      BY <1>a, <1>b, <1>d DEF WiringInv
  <2>6. QED
      BY <2>1, <2>2, <2>3, <2>4, <2>5 DEF WiringInv
<1>3. JobInv' /\ UnheardInv' /\ AskedInv'
    BY <1>a, <1>e DEF JobInv, UnheardInv, AskedInv
<1>4. SlotIsolation'
  <2>1. unread[c] = sent[c] /\ unread[c] \in Nat
    <3>1. unread[c] = sent[c]
        BY <1>c, <1>e DEF UnheardInv
    <3>2. QED
        BY <1>c, <3>1 DEF TypeOK
  <2>2. \A d \in Clients : Empty[d] = 0
      BY DEF Empty
  <2>3. QED
      BY <1>a, <1>c, <1>d, <2>1, <2>2, Behind DEF SlotIsolation
<1>5. UnreadIsCovered'
  <2> SUFFICES ASSUME NEW g \in Open', g \notin ready', g \notin batch'
               PROVE  /\ unread[conn'[g]] > 0
                           => data'[g][conn'[g]] >= Room /\ sent[conn'[g]] > Room
                      /\ peer[conn'[g]] # "open" /\ asked # conn'[g]
                           => data'[g][conn'[g]] > 0
      BY <1>a DEF UnreadIsCovered
  <2>1. CASE g = f
    <3>1. ~(unread[c] > 0) /\ peer[c] = "open"
        BY <1>b, <2>1
    <3>2. QED
        BY <1>d, <2>1, <3>1
  <2>2. CASE g \in Open
    <3>1. g # Listen /\ g \notin ready /\ g \notin batch
        BY <1>a, <1>b, <2>2, Basics DEF Open
    <3>2. conn'[g] = conn[g] /\ data'[g] = data[g]
        BY <1>d, <2>2
    <3>3. QED
        BY <2>2, <3>1, <3>2 DEF UnreadIsCovered
  <2>3. QED
      BY <1>d, <2>1, <2>2
<1>6. EventInv'
  <2> SUFFICES ASSUME NEW g \in batch', g # Listen PROVE Readable(g)'
      BY DEF EventInv
  <2>1. g \in Open /\ Readable(g)
      BY <1>a DEF EventInv, WiringInv
  <2>2. QED
      BY <1>a, <1>d, <2>1 DEF Readable
<1>7. QueueInv'
    BY <1>a, <1>b, <1>c, Basics DEF QueueInv, EdgesLeft
<1>8. QED
    BY <1>1, <1>2, <1>3, <1>4, <1>5, <1>6, <1>7

\* The steps after which the program is not modelled.
Overruns == AcceptOverrun \/ \E f \in Slots : RecvOverflow(f)

LEMMA OverrunsLeaveAllElse ==
    Overruns => /\ UNCHANGED <<batch, conn, reading, data, leaked, cur, asked, next>>
                /\ UNCHANGED <<ready, backlog, peer, sent, unread, stream, inflight, lost>>
                /\ pc = "loop" /\ pc' \in {"overrun", "overflow"}
                /\ pc' = "overrun" => Slots \subseteq Held
BY DEF Overruns, AcceptOverrun, RecvOverflow, Arrived, job, kernel

LEMMA OverrunsKeep ==
    ASSUME IInv, Overruns
    PROVE  IInv'
<1> USE DEF IInv
<1>a. /\ UNCHANGED <<batch, conn, reading, data, leaked, cur, asked, next>>
      /\ UNCHANGED <<ready, backlog, peer, sent, unread, stream, inflight, lost>>
      /\ pc = "loop" /\ pc' \in {"overrun", "overflow"}
    BY OverrunsLeaveAllElse
<1>b. Open' = Open /\ InQueue' = InQueue
    BY <1>a DEF Open, InQueue
<1>1. TypeOK' /\ WiringInv' /\ JobInv'
    BY <1>a, <1>b, ZenonT(60) DEF TypeOK, WiringInv, JobInv
<1>2. UnheardInv' /\ AskedInv' /\ SlotIsolation' /\ UnreadIsCovered'
    BY <1>a, <1>b DEF UnheardInv, AskedInv, SlotIsolation, UnreadIsCovered
<1>3. EventInv' /\ QueueInv'
    BY <1>a DEF EventInv, Readable, QueueInv, EdgesLeft
<1>4. QED
    BY <1>1, <1>2, <1>3

-----------------------------------------------------------------------------
(* recv.                                                                   *)

\* No step of the server makes a client of a connection, or opens one again.
PeersAge ==
    \A c \in Clients : /\ peer'[c] = "none" <=> peer[c] = "none"
                       /\ peer'[c] = "open" => peer[c] = "open"

\* close, after recv has reported the end or an answer is complete.
LEMMA CloseKeeps ==
    ASSUME IInv, TypeOK', PeersAge, NEW f \in Slots, Forget(f),
           UNCHANGED <<backlog, sent, unread, data>>,
           \A g \in Slots \ {f} : reading'[g] = reading[g],
           \A d \in Clients \ {conn[f]} : peer'[d] = peer[d],
           f \in Open, asked \in {None, conn[f]}, pc' = "loop", asked' = None
    PROVE  IInv'
<1> USE DEF IInv
<1>a. /\ Open' = Open \ {f}
      /\ \A g \in Open' : g \in Open /\ g \in Slots \ {f} /\ conn'[g] = conn[g]
      /\ batch' = batch \ {f} /\ ready' = ready \ {f} /\ f # Listen
  <2>1. \A g \in Slots : conn'[g] = IF g = f THEN None ELSE conn[g]
      BY DEF Forget, TypeOK
  <2>2. QED
      BY <2>1, Basics DEF Forget, Open
<1>b. InQueue' = InQueue
    BY DEF InQueue
<1>1. WiringInv'
  <2>1. \A g, h \in Open' : conn'[g] = conn'[h] => g = h
      BY <1>a DEF WiringInv
  <2>2. \A g \in Open' : reading'[g] /\ peer'[conn'[g]] # "none" /\ conn'[g] \notin InQueue'
      BY <1>a, <1>b, Behind DEF WiringInv, PeersAge
  <2>3. \A d \in InQueue' : peer'[d] # "none"
      BY <1>b, QueueOfClients DEF WiringInv, PeersAge
  <2>4. ready' \subseteq Open' \cup {Listen} /\ batch' \subseteq Open' \cup {Listen}
      BY <1>a DEF WiringInv
  <2>5. QED
      BY <2>1, <2>2, <2>3, <2>4 DEF WiringInv
<1>2. JobInv' /\ AskedInv'
    BY DEF JobInv, AskedInv
<1>3. UnheardInv'
    BY <1>b DEF UnheardInv, PeersAge
<1>4. SlotIsolation'
    BY <1>a DEF SlotIsolation
<1>c. UnreadIsCovered'
  <2> SUFFICES ASSUME NEW g \in Open', g \notin ready', g \notin batch'
               PROVE  /\ unread[conn[g]] > 0 => data[g][conn[g]] >= Room /\ sent[conn[g]] > Room
                      /\ peer'[conn[g]] # "open" => data[g][conn[g]] > 0
      BY <1>a DEF UnreadIsCovered
  <2>1. g \in Open /\ g # f /\ g \notin ready /\ g \notin batch
      BY <1>a
  <2>2. conn[g] \in Clients \ {conn[f]} /\ asked # conn[g]
    <3>1. conn[g] \in Clients /\ conn[f] \in Clients /\ conn[g] # conn[f]
        BY <2>1, Behind DEF WiringInv
    <3>2. QED
        BY <3>1, Basics
  <2>3. QED
      BY <2>1, <2>2 DEF UnreadIsCovered
<1>5. EventInv'
  <2> SUFFICES ASSUME NEW g \in batch', g # Listen PROVE Readable(g)'
      BY DEF EventInv
  <2>1. g \in Open' /\ conn[g] \in Clients /\ Readable(g)
      BY <1>a, Behind DEF EventInv, WiringInv
  <2>2. QED
      BY <1>a, <2>1 DEF Readable, PeersAge
<1>6. QueueInv'
    BY <1>a DEF QueueInv, EdgesLeft
<1>7. QED
    BY <1>1, <1>2, <1>3, <1>4, <1>c, <1>5, <1>6

LEMMA RecvEndKeeps ==
    ASSUME IInv, NEW f \in Slots, RecvEnd(f)
    PROVE  IInv'
<1>1. /\ UNCHANGED <<pc, reading, data, leaked, cur, asked, next>>
      /\ UNCHANGED <<backlog, peer, sent, unread, stream, inflight, lost>>
      /\ pc = "loop" /\ Forget(f) /\ f \in batch /\ f # Listen
    BY DEF RecvEnd, job, replies
<1>2. asked = None /\ f \in Open
    BY <1>1 DEF IInv, JobInv, WiringInv
<1>3. TypeOK'
  <2>1. conn' \in [Slots -> Clients \cup {None}]
      BY <1>1 DEF IInv, TypeOK, Forget
  <2>2. QED
      BY <1>1, <2>1 DEF IInv, TypeOK, Forget
<1>4. QED
    BY <1>1, <1>2, <1>3, CloseKeeps DEF PeersAge

\* A slot that holds as much as a request has leaves nothing of it to come.
LEMMA AllOfIt ==
    ASSUME NEW held \in Nat, NEW rest \in Nat, NEW all \in Nat, NEW whole \in Nat,
           held + rest = all, all <= whole, held >= whole
    PROVE  all = whole /\ rest = 0
OBVIOUS

LEMMA RecvDataKeeps ==
    ASSUME IInv, NEW f \in Slots, RecvData(f)
    PROVE  IInv'
<1> USE DEF IInv
<1> DEFINE c    == conn[f]
           got  == Received(c)
           slot == [data[f] EXCEPT ![c] = @ + got]
<1>a. /\ UNCHANGED <<conn, reading, leaked, next>>
      /\ UNCHANGED <<ready, backlog, peer, sent, stream, inflight, lost>>
      /\ pc = "loop" /\ f \in batch /\ f # Listen
      /\ batch' = batch \ {f}
      /\ data' = [data EXCEPT ![f] = slot]
      /\ unread[c] > 0 /\ data[f][c] + got <= Room
      /\ unread' = [unread EXCEPT ![c] = @ - got]
      /\ \/ pc' = pc /\ asked' = asked /\ cur' = cur
         \/ pc' = "handle" /\ cur' = f /\ asked' \in Complete(slot)
    BY DEF RecvData, Arrived, Fits, job, replies
<1>b. f \in Open /\ c \in Clients
    BY <1>a, Behind DEF WiringInv
<1>c. /\ unread[c] \in Nat /\ sent[c] \in Nat /\ Segments[c] \in Nat
      /\ sent[c] <= Segments[c] /\ Room \in Nat
      /\ got \in Nat /\ got > 0 /\ got <= unread[c] /\ (got < unread[c] => got = Room)
  <2>1. unread[c] \in Nat /\ sent[c] \in Nat /\ sent[c] <= Segments[c]
      BY <1>b DEF TypeOK
  <2>2. Segments[c] \in Nat /\ Room \in Nat /\ Room > 0
      BY <1>b, Basics
  <2>3. QED
      BY <1>a, <2>1, <2>2 DEF Received
<1> HIDE DEF got
<1>g. /\ unread'[c] = unread[c] - got /\ unread'[c] \in Nat
      /\ \A d \in Clients \ {c} : unread'[d] = unread[d]
      /\ unread' \in [Clients -> Nat]
    BY <1>a, <1>b, <1>c DEF TypeOK
<1>d. /\ data'[f] = slot /\ \A g \in Slots \ {f} : data'[g] = data[g]
      /\ slot[c] \in Nat /\ slot[c] >= got /\ slot[c] <= Room
      /\ slot[c] + unread'[c] = sent[c] /\ \A d \in Clients \ {c} : slot[d] = 0
  <2>1. data'[f] = slot /\ \A g \in Slots \ {f} : data'[g] = data[g]
      BY <1>a DEF TypeOK
  <2>2. data[f] \in [Clients -> Nat]
      BY DEF TypeOK
  <2>3. slot[c] = data[f][c] + got /\ \A d \in Clients \ {c} : slot[d] = data[f][d]
      BY <1>b, <2>2
  <2>4. data[f][c] + unread[c] = sent[c] /\ \A d \in Clients \ {c} : data[f][d] = 0
      BY <1>b DEF SlotIsolation
  <2>5. data[f][c] \in Nat
      BY <1>b, <2>2
  <2>6. slot[c] \in Nat /\ slot[c] >= got /\ slot[c] <= Room /\ slot[c] + unread'[c] = sent[c]
    <3> HIDE DEF slot
    <3> QED
      BY <1>a, <1>c, <1>g, <2>3, <2>4, <2>5
  <2>7. QED
      BY <2>1, <2>3, <2>4, <2>6
<1>e. asked' \in Complete(slot) => asked' = c /\ sent[c] = Segments[c] /\ unread'[c] = 0
  <2>1. c \in Complete(slot) => sent[c] = Segments[c] /\ unread'[c] = 0
    <3>1. slot[c] >= Segments[c] => sent[c] = Segments[c] /\ unread'[c] = 0
        BY <1>c, <1>d, <1>g, AllOfIt
    <3>2. c \in Complete(slot) => slot[c] >= Segments[c]
      <4> HIDE DEF slot
      <4> QED
        BY DEF Complete
    <3>3. QED
        BY <3>1, <3>2
  <2>2. \A d \in Clients \ {c} : d \notin Complete(slot)
    <3>1. \A d \in Clients \ {c} : slot[d] = 0 /\ Segments[d] \in Nat \ {0}
        BY <1>d, Basics
    <3> HIDE DEF slot
    <3> QED
      BY <3>1 DEF Complete
  <2>3. Complete(slot) \subseteq Clients
    <3> HIDE DEF slot
    <3> QED
      BY DEF Complete
  <2>4. QED
    <3> HIDE DEF slot
    <3> QED
      BY <2>1, <2>2, <2>3
<1>f. Open' = Open /\ InQueue' = InQueue
    BY <1>a DEF Open, InQueue
<1>1. TypeOK'
  <2>1. slot \in [Clients -> Nat]
    <3>1. data[f] \in [Clients -> Nat]
        BY DEF TypeOK
    <3>2. QED
        BY <1>b, <1>c, <3>1
  <2>2. data' \in [Slots -> [Clients -> Nat]]
      BY <1>a, <2>1 DEF TypeOK
  <2>3. asked' \in Clients \cup {None} /\ cur' \in Slots \cup {None}
      BY <1>a, <1>b, <1>e DEF TypeOK
  <2>4. QED
      BY <1>a, <1>g, <2>2, <2>3 DEF TypeOK
<1>2. WiringInv'
    BY <1>a, <1>f DEF WiringInv
<1>3. JobInv' /\ AskedInv'
  <2>1. asked = None
      BY <1>a DEF JobInv
  <2>2. QED
      BY <1>a, <1>b, <1>e, <1>f, <2>1 DEF JobInv, AskedInv
<1>4. UnheardInv'
  <2>1. peer[c] # "none" /\ c \notin InQueue
      BY <1>b DEF WiringInv
  <2>2. unread[c] <= sent[c]
      BY <1>b DEF UnheardInv
  <2>3. unread'[c] <= sent[c]
      BY <1>c, <1>g, <2>2
  <2>4. QED
      BY <1>a, <1>b, <1>f, <1>g, <2>1, <2>3 DEF UnheardInv
<1>5. SlotIsolation'
  <2> SUFFICES ASSUME NEW g \in Open
               PROVE  /\ data'[g][conn[g]] + unread'[conn[g]] = sent[conn[g]]
                      /\ \A d \in Clients \ {conn[g]} : data'[g][d] = 0
      BY <1>a, <1>f DEF SlotIsolation
  <2>1. CASE g = f
    <3>1. data'[f][c] + unread'[c] = sent[c]
        BY <1>d
    <3>2. \A d \in Clients \ {c} : data'[f][d] = 0
        BY <1>d
    <3>3. QED
        BY <2>1, <3>1, <3>2
  <2>2. CASE g # f
    <3>1. g \in Slots \ {f} /\ conn[g] \in Clients \ {c}
        BY <1>b, <2>2, Behind DEF WiringInv
    <3>2. QED
        BY <1>g, <1>d, <3>1 DEF SlotIsolation
  <2>3. QED
      BY <2>1, <2>2
<1>6. UnreadIsCovered'
  <2> SUFFICES ASSUME NEW g \in Open, g \notin ready, g \notin batch'
               PROVE  /\ unread'[conn[g]] > 0 => data'[g][conn[g]] >= Room /\ sent[conn[g]] > Room
                      /\ peer[conn[g]] # "open" /\ asked' # conn[g] => data'[g][conn[g]] > 0
      BY <1>a, <1>f DEF UnreadIsCovered
  <2>1. CASE g = f
    <3>1. data'[g][conn[g]] = slot[c]
        BY <1>d, <2>1
    <3>2. slot[c] > 0 /\ (unread'[c] > 0 => slot[c] >= Room /\ sent[c] > Room)
      <4> HIDE DEF slot
      <4> QED
        BY <1>c, <1>d, <1>g
    <3>3. QED
        BY <2>1, <3>1, <3>2
  <2>2. CASE g # f
    <3>1. g \in Slots \ {f} /\ conn[g] \in Clients \ {c} /\ g \notin batch
        BY <1>a, <1>b, <2>2, Behind DEF WiringInv
    <3>2. asked = None
        BY <1>a DEF JobInv
    <3>3. QED
        BY <1>d, <1>g, <3>1, <3>2, Basics DEF UnreadIsCovered
  <2>3. QED
      BY <2>1, <2>2
<1>7. EventInv'
  <2> SUFFICES ASSUME NEW g \in batch', g # Listen PROVE Readable(g)'
      BY DEF EventInv
  <2>1. g \in Open /\ g # f /\ Readable(g)
      BY <1>a DEF EventInv, WiringInv
  <2>2. conn[g] \in Clients \ {c}
      BY <1>b, <2>1, Behind DEF WiringInv
  <2>3. QED
      BY <1>a, <1>g, <2>1, <2>2 DEF Readable
<1>8. QueueInv'
    BY <1>a DEF QueueInv, EdgesLeft
<1>9. QED
    BY <1>1, <1>2, <1>3, <1>4, <1>5, <1>6, <1>7, <1>8

-----------------------------------------------------------------------------
(* handle_request and send_file.                                           *)

LEMMA Updated ==
    ASSUME NEW S, NEW T, NEW f \in [S -> T], NEW x \in S, NEW y \in T
    PROVE  [f EXCEPT ![x] = y] \in [S -> T]
OBVIOUS

\* What write does to the client and its replies.
WriteGives(c) ==
    /\ peer'     \in [Clients -> Peers]
    /\ stream'   \in [Clients -> Seq(1 .. 501)]
    /\ inflight' \in [Clients -> 0 .. SndCap]
    /\ lost'     \in [Clients -> SUBSET (1 .. 501)]
    /\ PeersAge /\ \A d \in Clients \ {c} : peer'[d] = peer[d]

LEMMA WriteTypes ==
    ASSUME TypeOK, NEW c \in Clients, NEW item \in 1 .. 501, Write(c, item)
    PROVE  WriteGives(c)
<1>1. peer' \in [Clients -> Peers] /\ PeersAge /\ \A d \in Clients \ {c} : peer'[d] = peer[d]
  <2>1. /\ peer \in [Clients -> Peers]
        /\ peer' = [peer EXCEPT ![c] = CASE peer[c] = "closed" -> "doomed"
                                         [] peer[c] = "reset"  -> "broken"
                                         [] OTHER              -> peer[c]]
      BY DEF TypeOK, Write
  <2>2. peer' \in [Clients -> Peers]
      BY <2>1 DEF Peers
  <2>3. \A d \in Clients \ {c} : peer'[d] = peer[d]
      BY <2>1
  <2>4. /\ peer'[c] = "none" <=> peer[c] = "none"
        /\ peer'[c] = "open" => peer[c] = "open"
      BY <2>1
  <2>5. QED
      BY <2>2, <2>3, <2>4 DEF PeersAge
<1>a. /\ stream \in [Clients -> Seq(1 .. 501)] /\ lost \in [Clients -> SUBSET (1 .. 501)]
      /\ inflight \in [Clients -> 0 .. SndCap]
    BY DEF TypeOK
<1>b. Append(stream[c], item) \in Seq(1 .. 501)
    BY <1>a
<1>c. lost[c] \cup {item} \in SUBSET (1 .. 501)
    BY <1>a, ZenonT(60)
<1>2. stream' \in [Clients -> Seq(1 .. 501)]
  <2>1. stream' = stream \/ stream' = [stream EXCEPT ![c] = Append(stream[c], item)]
      BY DEF Write
  <2>2. [stream EXCEPT ![c] = Append(stream[c], item)] \in [Clients -> Seq(1 .. 501)]
      BY <1>a, <1>b, Updated, Zenon
  <2>3. QED
      BY <1>a, <2>1, <2>2, ZenonT(30)
<1>3. lost' \in [Clients -> SUBSET (1 .. 501)]
  <2>1. lost' = lost \/ lost' = [lost EXCEPT ![c] = lost[c] \cup {item}]
      BY DEF Write
  <2>2. [lost EXCEPT ![c] = lost[c] \cup {item}] \in [Clients -> SUBSET (1 .. 501)]
    <3>1. lost \in [Clients -> SUBSET (1 .. 501)]
        BY <1>a
    <3> HIDE DEF TypeOK, Write
    <3>2. QED
        BY <1>c, <3>1, Updated, ZenonT(60)
  <2>3. QED
      BY <1>a, <2>1, <2>2, ZenonT(30)
<1>4. inflight' \in [Clients -> 0 .. SndCap]
  <2>1. inflight[c] + Taken(c) \in 0 .. SndCap
      BY <1>a, Basics DEF Taken
  <2>2. QED
      BY <1>a, <2>1, Updated, Zenon DEF Write
<1>5. QED
    BY <1>1, <1>2, <1>3, <1>4 DEF WriteGives

\* A step of the answer that leaves every connection as it is.
LEMMA AnswerKeeps ==
    ASSUME IInv, TypeOK', PeersAge, pc \in {"handle", "send"}, pc' \in {"send", "dead"},
           UNCHANGED <<batch, conn, reading, data, cur, asked>>,
           UNCHANGED <<ready, backlog, sent, unread>>,
           \A d \in Clients \ {asked} : peer'[d] = peer[d]
    PROVE  IInv'
<1> USE DEF IInv
<1>a. Open' = Open /\ InQueue' = InQueue
    BY DEF Open, InQueue
<1>1. WiringInv'
  <2>1. \A f \in Open' : reading'[f] /\ peer'[conn'[f]] # "none" /\ conn'[f] \notin InQueue'
      BY <1>a, Behind DEF WiringInv, PeersAge
  <2>2. \A c \in InQueue' : peer'[c] # "none"
      BY <1>a, QueueOfClients DEF WiringInv, PeersAge
  <2>3. QED
      BY <1>a, <2>1, <2>2 DEF WiringInv
<1>2. JobInv' /\ AskedInv'
    BY <1>a DEF JobInv, AskedInv
<1>3. UnheardInv'
    BY <1>a DEF UnheardInv, PeersAge
<1>4. SlotIsolation' /\ UnreadIsCovered'
    BY <1>a, Behind DEF SlotIsolation, UnreadIsCovered
<1>5. EventInv'
  <2> SUFFICES ASSUME NEW f \in batch', f # Listen PROVE Readable(f)'
      BY DEF EventInv
  <2>1. conn[f] \in Clients /\ Readable(f)
      BY Behind DEF EventInv, WiringInv
  <2>2. QED
      BY <2>1 DEF Readable, PeersAge
<1>6. QueueInv'
    BY DEF QueueInv, EdgesLeft
<1>7. QED
    BY <1>1, <1>2, <1>3, <1>4, <1>5, <1>6

\* The client that is being answered.
LEMMA AskedClient ==
    IInv /\ pc \in {"handle", "send", "dead"} =>
       /\ cur \in Open /\ cur \in Slots /\ asked = conn[cur]
       /\ asked \in Clients /\ Request[asked] \in Kinds
       /\ Chunks[asked] \in 0 .. 199 /\ Segments[asked] \in Nat \ {0}
       /\ sent[asked] = Segments[asked] /\ unread[asked] = 0
BY Basics, Behind DEF IInv, JobInv, AskedInv

LEMMA StartFileKeeps ==
    ASSUME IInv, StartFile
    PROVE  IInv'
<1>1. /\ UNCHANGED <<batch, conn, reading, data, leaked, cur, asked, next>>
      /\ UNCHANGED <<ready, backlog, sent, unread>>
      /\ pc = "handle" /\ pc' = "send" /\ Write(conn[cur], 200)
    BY DEF StartFile, job
<1>2. conn[cur] \in Clients
    BY <1>1, AskedClient
<1>3. TypeOK
    BY DEF IInv
<1>a. 200 \in 1 .. 501
    OBVIOUS
<1>b. WriteGives(conn[cur])
    BY <1>1, <1>2, <1>3, <1>a, WriteTypes
<1>4. TypeOK'
    BY <1>1, <1>3, <1>b DEF TypeOK, WriteGives
<1>5. QED
    BY <1>1, <1>4, <1>b, AskedClient, AnswerKeeps DEF WriteGives

LEMMA SendChunkKeeps ==
    ASSUME IInv, SendChunk
    PROVE  IInv'
<1>1. /\ UNCHANGED <<pc, batch, conn, reading, data, leaked, cur, asked>>
      /\ UNCHANGED <<ready, backlog, sent, unread>>
      /\ pc = "send" /\ Write(conn[cur], next) /\ next' = next + 1
      /\ next <= Chunks[asked]
    BY DEF SendChunk
<1>2. conn[cur] \in Clients /\ Chunks[asked] \in 0 .. 199
    BY <1>1, AskedClient
<1>3. TypeOK
    BY DEF IInv
<1>a. next \in Nat \ {0}
    BY <1>3 DEF TypeOK
<1>4. next \in 1 .. 501 /\ next' \in Nat \ {0}
    BY <1>1, <1>2, <1>a
<1>b. WriteGives(conn[cur])
    BY <1>1, <1>2, <1>3, <1>4, WriteTypes
<1>5. TypeOK'
    BY <1>1, <1>3, <1>4, <1>b DEF TypeOK, WriteGives
<1>6. QED
    BY <1>1, <1>5, <1>b, AskedClient, AnswerKeeps DEF WriteGives

LEMMA BrokenPipeKeeps ==
    ASSUME IInv, BrokenPipe
    PROVE  IInv'
<1>1. /\ UNCHANGED <<batch, conn, reading, data, leaked, cur, asked, next>>
      /\ UNCHANGED <<ready, backlog, peer, sent, unread, stream, inflight, lost>>
      /\ pc = "send" /\ pc' = "dead"
    BY DEF BrokenPipe, job, kernel
<1>2. TypeOK'
    BY <1>1 DEF IInv, TypeOK
<1>3. QED
    BY <1>1, <1>2, AnswerKeeps DEF PeersAge

\* The types of what Finish sets.
LEMMA FinishTypes ==
    ASSUME TypeOK, cur \in Slots, Finish
    PROVE  /\ pc' = "loop" /\ asked' = None /\ cur' = None /\ next' = 1
           /\ conn' \in [Slots -> Clients \cup {None}]
           /\ reading' \in [Slots -> BOOLEAN]
           /\ batch' \subseteq batch /\ ready' \subseteq ready
           /\ Forget(cur) /\ \A g \in Slots \ {cur} : reading'[g] = reading[g]
BY DEF TypeOK, Finish, Forget

LEMMA FinishFileKeeps ==
    ASSUME IInv, FinishFile
    PROVE  IInv'
<1>1. /\ UNCHANGED <<data, leaked, backlog, peer, sent, unread>>
      /\ UNCHANGED <<stream, inflight, lost>>
      /\ pc = "send" /\ Finish
    BY DEF FinishFile, replies
<1>2. TypeOK /\ cur \in Slots /\ cur \in Open /\ asked = conn[cur]
    BY <1>1, AskedClient DEF IInv
<1>a. /\ pc' = "loop" /\ asked' = None /\ cur' = None /\ next' = 1
      /\ conn' \in [Slots -> Clients \cup {None}]
      /\ reading' \in [Slots -> BOOLEAN]
      /\ batch' \subseteq Slots \cup {Listen} /\ ready' \subseteq Slots \cup {Listen}
    BY <1>1, <1>2, FinishTypes DEF TypeOK
<1>d. pc' \in {"loop"} /\ next' \in Nat \ {0} /\ cur' \in {None} /\ asked' \in {None}
    BY <1>a
<1>3. TypeOK'
    BY <1>1, <1>2, <1>a, <1>d DEF TypeOK
<1>4. PeersAge
    BY <1>1 DEF PeersAge
<1>5. QED
    BY <1>1, <1>2, <1>3, <1>4, FinishTypes, CloseKeeps

LEMMA RefuseKeeps ==
    ASSUME IInv, Refuse
    PROVE  IInv'
<1>1. /\ UNCHANGED <<data, backlog, sent, unread>>
      /\ pc = "handle" /\ Finish /\ Write(conn[cur], Status(Request[asked]))
    BY DEF Refuse
<1>2. TypeOK /\ cur \in Slots /\ conn[cur] \in Clients /\ cur \in Open /\ asked = conn[cur]
    BY <1>1, AskedClient DEF IInv
<1>3. Status(Request[asked]) \in 1 .. 501
    BY DEF Status
<1>4. leaked' \subseteq Descriptors
    BY <1>2 DEF Refuse, TypeOK, Spare
<1>a. /\ pc' = "loop" /\ asked' = None /\ cur' = None /\ next' = 1
      /\ conn' \in [Slots -> Clients \cup {None}]
      /\ reading' \in [Slots -> BOOLEAN]
      /\ batch' \subseteq Slots \cup {Listen} /\ ready' \subseteq Slots \cup {Listen}
    BY <1>1, <1>2, FinishTypes DEF TypeOK
<1>d. pc' \in {"loop"} /\ next' \in Nat \ {0} /\ cur' \in {None} /\ asked' \in {None}
    BY <1>a
<1>b. WriteGives(conn[cur])
    BY <1>1, <1>2, <1>3, WriteTypes
<1>5. TypeOK'
    BY <1>1, <1>2, <1>4, <1>a, <1>b, <1>d DEF TypeOK, WriteGives
<1>6. QED
    BY <1>1, <1>2, <1>5, <1>b, FinishTypes, CloseKeeps DEF WriteGives

-----------------------------------------------------------------------------
LEMMA NextIInv == IInv /\ [Next]_vars => IInv'
<1> SUFFICES ASSUME IInv, [Next]_vars PROVE IInv'
    OBVIOUS
<1>1. CASE Server
    BY <1>1, EpollWaitKeeps, AcceptConnKeeps, OverrunsKeep, RecvDataKeeps,
       RecvEndKeeps, RefuseKeeps, StartFileKeeps, SendChunkKeeps, BrokenPipeKeeps,
       FinishFileKeeps DEF Server, Overruns
<1>2. CASE \E c \in Clients : Client(c)
    BY <1>2, ConnectKeeps, SendKeeps, HangUpKeeps, ResetArrivesKeeps, DrainKeeps
       DEF Client
<1>3. CASE UNCHANGED vars
  <2>1. /\ UNCHANGED <<pc, batch, conn, reading, data, leaked, cur, asked, next>>
        /\ UNCHANGED <<ready, backlog, peer, sent, unread, stream, inflight, lost>>
      BY <1>3 DEF vars, server, kernel
  <2>2. Open' = Open /\ InQueue' = InQueue
      BY <2>1 DEF Open, InQueue
  <2>3. TypeOK' /\ WiringInv' /\ JobInv' /\ UnheardInv' /\ AskedInv'
      BY <2>1, <2>2, ZenonT(60) DEF IInv, TypeOK, WiringInv, JobInv, UnheardInv, AskedInv
  <2>4. SlotIsolation' /\ UnreadIsCovered' /\ EventInv' /\ QueueInv'
      BY <2>1, <2>2 DEF IInv, SlotIsolation, UnreadIsCovered, EventInv, Readable,
                        QueueInv, EdgesLeft
  <2>5. QED
      BY <2>3, <2>4 DEF IInv
<1>4. QED
    BY <1>1, <1>2, <1>3 DEF Next

LEMMA Inductive == Spec => []IInv
BY InitIInv, NextIInv, PTL DEF Spec

\* Every variable keeps its type: descriptors index the table of connections,
\* and no more is counted as sent or unread than a request has.
THEOREM TypesHold == Spec => []TypeOK
<1>1. IInv => TypeOK
    BY DEF IInv
<1>2. QED
    BY <1>1, Inductive, PTL

\* A slot holds the text of its own client only, although closing clears
\* nothing (server.c, new connections and recv).
THEOREM SlotsAreIsolated == Spec => []SlotIsolation
<1>1. IInv => SlotIsolation
    BY DEF IInv
<1>2. QED
    BY <1>1, Inductive, PTL

\* With edge-triggered events and one recv of at most BUFFER_SIZE - 1 bytes for
\* each, text is left behind without an event only of a request that is longer
\* than its slot, and a hang-up only behind text (server.c, the loop over events).
THEOREM NoEdgeIsLost == Spec => []UnreadIsCovered
<1>1. IInv => UnreadIsCovered
    BY DEF IInv
<1>2. QED
    BY <1>1, Inductive, PTL

LEMMA OneEdge ==
    ASSUME NEW S
    PROVE  Cardinality(S \cap {Listen}) = IF Listen \in S THEN 1 ELSE 0
<1>1. CASE Listen \in S
  <2>1. S \cap {Listen} = {Listen}
      BY <1>1
  <2>2. Cardinality({Listen}) = 1
      BY FS_Singleton
  <2>3. QED
      BY <1>1, <2>1, <2>2
<1>2. CASE Listen \notin S
  <2>1. S \cap {Listen} = {}
      BY <1>2
  <2>2. QED
      BY <1>2, <2>1, FS_EmptySet
<1>3. QED
    BY <1>1, <1>2

\* accept and recv find what their event has announced: an accept whose result
\* is not checked never fails for want of a connection, and recv never answers
\* EAGAIN.
THEOREM CallsFindSomething == Spec => []NoEmptyCall
<1>1. IInv => NoEmptyCall
    BY OneEdge DEF IInv, NoEmptyCall, QueueInv, WiringInv, EventInv, Edges, EdgesLeft
<1>2. QED
    BY <1>1, Inductive, PTL

\* A connection that has been left in the accept queue without an event is
\* never made up for: accept is called once for each event, not until it fails.
THEOREM NeverCaughtUp == Spec => NeverCatchUp
<1>1. IInv /\ [Next]_vars => [Stranded' >= Stranded]_vars
  <2> SUFFICES ASSUME IInv, [Next]_vars PROVE Stranded' >= Stranded \/ UNCHANGED vars
      OBVIOUS
  <2>1. IInv' /\ TypeOK /\ TypeOK'
      BY NextIInv DEF IInv
  <2>a. backlog \in Seq(Clients) /\ backlog' \in Seq(Clients)
      BY <2>1 DEF TypeOK
  <2>2. Len(backlog) \in Nat /\ Len(backlog') \in Nat
      BY <2>a
  <2>3. Edges = EdgesLeft /\ Edges' = EdgesLeft'
      BY OneEdge DEF Edges, EdgesLeft
  <2> SUFFICES ASSUME Next PROVE Len(backlog') - EdgesLeft' >= Len(backlog) - EdgesLeft
      BY <2>3 DEF Stranded
  <2>4. CASE EpollWait
    <3>1. backlog' = backlog /\ batch = {} /\ batch' \subseteq ready /\ ready' = {}
        BY <2>4 DEF EpollWait
    <3>2. QED
        BY <2>2, <3>1 DEF EdgesLeft
  <2>5. CASE AcceptConn
    <3>1. /\ Listen \in batch /\ batch' = batch \ {Listen} /\ backlog' = Tail(backlog)
          /\ Listen \in ready' <=> Listen \in ready
        BY <2>5, Basics DEF AcceptConn
    <3>2. Len(backlog) >= 1
        BY <2>2, <3>1 DEF IInv, QueueInv, EdgesLeft
    <3>3. Len(backlog') = Len(backlog) - 1
        BY <2>a, <3>1, <3>2
    <3>4. Listen \notin batch'
        BY <3>1
    <3>5. EdgesLeft = EdgesLeft' + 1 /\ EdgesLeft' \in Nat
        BY <3>1, <3>4 DEF EdgesLeft
    <3>6. QED
        BY <2>2, <3>3, <3>5
  <2>6. CASE \E c \in Clients : Connect(c)
    <3>1. Len(backlog') = Len(backlog) + 1 /\ batch' = batch
        BY <2>1, <2>6 DEF Connect, server, TypeOK
    <3>2. QED
        BY <2>2, <3>1 DEF EdgesLeft
  <2>7. CASE /\ backlog' = backlog
             /\ Listen \in ready' <=> Listen \in ready
             /\ Listen \in batch' <=> Listen \in batch
    <3>1. EdgesLeft' = EdgesLeft /\ EdgesLeft \in Nat
        BY <2>7 DEF EdgesLeft
    <3>2. QED
        BY <2>2, <2>7, <3>1
  <2>8. CASE Refuse \/ FinishFile
    <3>1. cur \in Slots
        BY <2>8, AskedClient DEF Refuse, FinishFile
    <3>2. QED
        BY <2>7, <2>8, <3>1, Basics DEF Refuse, FinishFile, Finish, Forget
  <2>9. CASE StartFile \/ SendChunk \/ BrokenPipe \/ Overruns
      BY <2>7, <2>9, OverrunsLeaveAllElse DEF StartFile, SendChunk, BrokenPipe, kernel
  <2>10. CASE \E f \in Slots : RecvData(f) \/ RecvEnd(f)
      BY <2>7, <2>10, Basics DEF RecvData, RecvEnd, Forget
  <2>11. CASE \E c \in Clients : Send(c) \/ HangUp(c) \/ ResetArrives(c) \/ Drain(c)
      BY <2>7, <2>11, <2>1, FdsAreOpen, Basics
         DEF Send, HangUp, ResetArrives, Drain, server, Open
  <2>12. QED
      BY <2>4, <2>5, <2>6, <2>8, <2>9, <2>10, <2>11 DEF Next, Server, Client, Overruns
<1>2. QED
    BY <1>1, Inductive, PTL DEF Spec, NeverCatchUp

-----------------------------------------------------------------------------
(* The inductive invariant, second half: what has been written to a client. *)

\* A transfer to client c is under way, or has ended the server.
Answering(c) == pc \in {"send", "dead"} /\ asked = c

\* The last chunk that has been read for client c, once its header is out.
Upto(c) == IF asked = c THEN next - 1 ELSE Chunks[c]

\* Nothing has been written yet.
Fresh(c) == \/ peer[c] = "none"
            \/ c \in InQueue
            \/ FdOf(c) # {} /\ ~Answering(c)

\* The server has closed, and nothing else keeps the client from its answer.
Closed(c) == /\ peer[c] = "open" /\ c \notin InQueue
             /\ FdOf(c) = {} /\ pc # "overrun"

\* The items of a reply; those after the first are chunks.
Chunk(c, i) == stream[c][i]
After(c) == 2 .. Len(stream[c])

\* What is on its way is a part of what was accepted from the server.
Flight(c) == inflight[c] <= 2 * Len(stream[c])

Silent(c) == Fresh(c) => stream[c] = <<>> /\ lost[c] = {}

\* A transfer has begun with its header, unless the connection is broken, and
\* what is in the stream comes before the chunk that is read next.
Sending(c) ==
    Answering(c) =>
       /\ Request[c] = "file" /\ next <= Chunks[c] + 1
       /\ Len(stream[c]) <= next
       /\ \A i \in After(c) : Chunk(c, i) < next
       /\ \/ stream[c] # <<>> /\ Chunk(c, 1) = 200
          \/ stream[c] = <<>> /\ peer[c] = "broken"

\* RightReply, BodyInOrder, SmallFilesWhole and NoSilentClose for one client.
Right(c) ==
    stream[c] # <<>> =>
       /\ sent[c] = Segments[c] /\ unread[c] = 0
       /\ Chunk(c, 1) \in CASE Request[c] = "file"    -> {200, 403}
                            [] Request[c] = "missing" -> {404}
                            [] Request[c] = "post"    -> {501}
                            [] OTHER                  -> {403}
       /\ \A i \in After(c) : Chunk(c, 1) = 200 /\ Chunk(c, i) \in 1 .. Chunks[c]
Ordered(c) ==
    \A i, j \in After(c) : i < j => Chunk(c, i) < Chunk(c, j)
Whole(c) ==
    stream[c] # <<>> /\ Chunk(c, 1) = 200 =>
       {Chunk(c, i) : i \in After(c)} \cup lost[c] = 1 .. Upto(c)
Small(c)  == lost[c] # {} => peer[c] = "broken" \/ 2 + 2 * Chunks[c] > SndCap
Closes(c) == Closed(c) => stream[c] # <<>>

ReplyOf(c) == /\ Flight(c) /\ Silent(c) /\ Sending(c) /\ Right(c)
              /\ Ordered(c) /\ Whole(c) /\ Small(c) /\ Closes(c)

Replies == /\ pc \in {"loop", "handle"} => next = 1
           /\ \A c \in Clients : ReplyOf(c)

LEMMA InitReplies == Init => Replies
<1> SUFFICES ASSUME Init PROVE Replies
    OBVIOUS
<1>1. /\ pc = "loop" /\ next = 1
      /\ \A c \in Clients : /\ stream[c] = <<>> /\ lost[c] = {} /\ inflight[c] = 0
                            /\ peer[c] = "none"
    BY DEF Init, Empty
<1>2. SUFFICES ASSUME NEW c \in Clients PROVE ReplyOf(c)
    BY <1>1 DEF Replies
<1>3. Flight(c) /\ Silent(c) /\ Sending(c) /\ Right(c)
    BY <1>1 DEF Flight, Silent, Sending, Answering, Right
<1>4. Ordered(c) /\ Whole(c) /\ Small(c) /\ Closes(c)
    BY <1>1 DEF Ordered, Whole, After, Small, Closes, Closed
<1>5. QED
    BY <1>3, <1>4 DEF ReplyOf

\* What keeps the answer to a client to whom nothing is written.
Unanswered(c) ==
    /\ stream'[c] = stream[c] /\ lost'[c] = lost[c] /\ inflight'[c] <= inflight[c]
    /\ Fresh(c)' => Fresh(c)
    /\ Answering(c)' => Answering(c) /\ next' = next
    /\ stream[c] # <<>> => /\ sent'[c] = sent[c] /\ unread'[c] = unread[c]
                           /\ Upto(c)' = Upto(c)
    /\ peer[c] = "broken" => peer'[c] = "broken"
    /\ Closed(c)' => Closed(c)

LEMMA UnansweredKeeps ==
    ASSUME TypeOK, TypeOK', NEW c \in Clients, ReplyOf(c), Unanswered(c)
    PROVE  ReplyOf(c)'
<1> USE DEF Chunk, After
<1>0. stream'[c] = stream[c] /\ lost'[c] = lost[c]
    BY DEF Unanswered
<1>1. Flight(c)'
  <2>1. inflight[c] \in 0 .. SndCap /\ inflight'[c] \in 0 .. SndCap /\ Len(stream[c]) \in Nat
      BY DEF TypeOK
  <2>2. QED
      BY <2>1, Basics DEF ReplyOf, Flight, Unanswered
<1>2. Silent(c)' /\ Small(c)' /\ Closes(c)'
    BY DEF ReplyOf, Silent, Small, Closes, Unanswered
<1>3. Sending(c)'
    BY DEF ReplyOf, Sending, Unanswered
<1>4. Right(c)'
    BY DEF ReplyOf, Right, Unanswered
<1>5. Ordered(c)' /\ Whole(c)'
    BY <1>0 DEF ReplyOf, Ordered, Whole, Unanswered
<1>6. QED
    BY <1>1, <1>2, <1>3, <1>4, <1>5 DEF ReplyOf

\* Nothing has been written to a client that is connected and not answered.
LEMMA FreshInLoop ==
    ASSUME IInv, Replies, NEW f \in Open, ~Answering(conn[f])
    PROVE  /\ Fresh(conn[f])
           /\ stream[conn[f]] = <<>> /\ lost[conn[f]] = {} /\ inflight[conn[f]] = 0
<1>1. conn[f] \in Clients /\ TypeOK
    BY Behind DEF IInv
<1>2. f \in FdOf(conn[f])
    BY DEF FdOf, Open
<1>3. Fresh(conn[f])
    BY <1>2 DEF Fresh
<1>4. stream[conn[f]] = <<>> /\ lost[conn[f]] = {}
    BY <1>1, <1>3 DEF Replies, ReplyOf, Silent
<1>5. inflight[conn[f]] \in 0 .. SndCap /\ inflight[conn[f]] <= 0
    BY <1>1, <1>4 DEF TypeOK, Replies, ReplyOf, Flight
<1>6. QED
    BY <1>3, <1>4, <1>5, Basics

-----------------------------------------------------------------------------
(* The steps that write nothing.                                           *)

LEMMA ClientReplies ==
    ASSUME IInv, IInv', Replies, NEW c \in Clients, Client(c)
    PROVE  Replies'
<1>1. UNCHANGED <<pc, conn, asked, cur, next, stream, lost>>
    BY DEF Client, Connect, Send, HangUp, ResetArrives, Drain, server, replies, job
<1>2. TypeOK /\ TypeOK'
    BY DEF IInv
<1>p. peer \in [Clients -> Peers]
    BY <1>2 DEF TypeOK
<1>3. \A d \in Clients : FdOf(d)' = FdOf(d) /\ Answering(d)' = Answering(d)
    BY <1>1 DEF FdOf, Answering
<1>4. SUFFICES ASSUME NEW d \in Clients PROVE Unanswered(d)
    BY <1>1, <1>2, UnansweredKeeps DEF Replies
<1>5. inflight'[d] <= inflight[d]
  <2>1. inflight[d] \in 0 .. SndCap
      BY <1>2 DEF TypeOK
  <2>2. CASE inflight' = inflight
      BY <2>1, <2>2, Basics
  <2>3. CASE Drain(c)
    <3>1. inflight \in [Clients -> 0 .. SndCap] /\ inflight' = [inflight EXCEPT ![c] = inflight[c] - 1]
        BY <1>2, <2>3 DEF Drain, TypeOK
    <3>2. inflight'[d] = inflight[d] \/ inflight'[d] = inflight[d] - 1
        BY <3>1
    <3>3. inflight[d] \in Nat
        BY <2>1, Basics
    <3>4. QED
        BY <3>2, <3>3
  <2>4. QED
      BY <2>2, <2>3 DEF Client, Connect, Send, HangUp, ResetArrives, replies
<1>6. (Fresh(d)' => Fresh(d)) /\ (Closed(d)' => Closed(d))
  <2>1. CASE Connect(c)
    <3>1. InQueue' = InQueue \cup {c}
      <4>1. /\ backlog' = Append(backlog, c) /\ backlog \in Seq(Clients)
          BY <1>2, <2>1 DEF Connect, TypeOK
      <4>2. /\ Len(backlog') = Len(backlog) + 1 /\ Len(backlog) \in Nat
            /\ \A i \in 1 .. Len(backlog) : backlog'[i] = backlog[i]
            /\ backlog'[Len(backlog) + 1] = c
          BY <4>1
      <4>3. QED
          BY <4>2 DEF InQueue
    <3>2. peer[c] = "none" /\ (d # c => peer'[d] = peer[d])
        BY <1>2, <2>1 DEF Connect, TypeOK
    <3>3. QED
        BY <1>1, <1>3, <3>1, <3>2 DEF Fresh, Closed
  <2>2. CASE Send(c) \/ HangUp(c) \/ ResetArrives(c) \/ Drain(c)
    <3>1. /\ backlog' = backlog /\ (peer'[d] = "none" => peer[d] = "none")
          /\ peer'[d] = "open" => peer[d] = "open"
        BY <1>p, <2>2 DEF Send, HangUp, ResetArrives, Drain
    <3>2. QED
        BY <1>1, <1>3, <3>1 DEF Fresh, Closed, InQueue
  <2>3. QED
      BY <2>1, <2>2 DEF Client
<1>7. peer[d] = "broken" => peer'[d] = "broken"
    BY <1>p DEF Client, Connect, Send, HangUp, ResetArrives, Drain
<1>8. ASSUME stream[d] # <<>> PROVE sent'[d] = sent[d] /\ unread'[d] = unread[d]
  <2>1. sent[d] = Segments[d] /\ Segments[d] \in Nat
      BY <1>8, Basics DEF Replies, ReplyOf, Right
  <2>2. CASE Send(c)
    <3>1. c # d
        BY <2>1, <2>2, Basics DEF Send
    <3>2. QED
        BY <1>2, <2>2, <3>1 DEF Send, TypeOK
  <2>3. QED
      BY <2>2 DEF Client, Connect, HangUp, ResetArrives, Drain
<1>9. QED
    BY <1>1, <1>3, <1>5, <1>6, <1>7, <1>8 DEF Unanswered, Upto

\* The steps of the loop.
LEMMA LoopReplies ==
    ASSUME IInv, IInv', Replies, pc = "loop", UNCHANGED <<next, peer, sent, replies>>,
           pc' \in {"loop", "handle", "overrun", "overflow"},
           \A d \in Clients : stream[d] # <<>> => unread'[d] = unread[d] /\ asked' # d,
           \A d \in Clients : (Fresh(d)' => Fresh(d)) /\ (Closed(d)' => Closed(d))
    PROVE  Replies'
<1>1. asked = None /\ next = 1 /\ None \notin Clients
    BY Basics DEF IInv, JobInv, Replies
<1>2. TypeOK /\ TypeOK'
    BY DEF IInv
<1>3. SUFFICES ASSUME NEW d \in Clients PROVE Unanswered(d)
    BY <1>1, <1>2, UnansweredKeeps DEF Replies
<1>4. inflight'[d] <= inflight[d]
  <2>1. inflight[d] \in 0 .. SndCap
      BY <1>2 DEF TypeOK
  <2>2. QED
      BY <2>1, Basics DEF replies
<1>5. QED
    BY <1>1, <1>4 DEF Unanswered, Upto, Answering, replies

LEMMA EpollWaitReplies ==
    ASSUME IInv, IInv', Replies, EpollWait
    PROVE  Replies'
<1>1. /\ UNCHANGED <<pc, conn, asked, next, backlog, peer, sent, unread, replies>>
      /\ pc = "loop"
    BY DEF EpollWait, job
<1>2. asked = None
    BY <1>1 DEF IInv, JobInv
<1>3. \A d \in Clients : Fresh(d)' = Fresh(d) /\ Closed(d)' = Closed(d)
    BY <1>1 DEF Fresh, Closed, FdOf, Answering, InQueue
<1>4. QED
    BY <1>1, <1>2, <1>3, LoopReplies, Basics

LEMMA AcceptConnReplies ==
    ASSUME IInv, IInv', Replies, AcceptConn
    PROVE  Replies'
<1>1. /\ UNCHANGED <<pc, asked, next, peer, sent, unread, replies>>
      /\ pc = "loop" /\ Listen \in batch /\ backlog' = Tail(backlog)
    BY DEF AcceptConn, job
<1>2. asked = None /\ TypeOK
    BY <1>1 DEF IInv, JobInv
<1>a. backlog \in Seq(Clients) /\ Len(backlog) >= 1
    BY <1>1 DEF IInv, TypeOK, QueueInv, EdgesLeft
<1>b. PICK c \in Clients : c = Head(backlog) /\ c = backlog[1]
    BY <1>a
<1>3. PICK f \in Slots : f \notin Open /\ conn' = [conn EXCEPT ![f] = c]
    BY <1>b DEF AcceptConn, Lowest, Held
<1>4. conn[f] = None /\ \A g \in Slots : conn'[g] = IF g = f THEN c ELSE conn[g]
    BY <1>2, <1>3 DEF Open, TypeOK
<1>6. c \in InQueue /\ \A d \in InQueue : d = c \/ d \in InQueue'
  <2>1. /\ c = backlog[1] /\ Len(backlog) \in Nat /\ Len(backlog') = Len(backlog) - 1
        /\ \A i \in 1 .. Len(backlog) - 1 : backlog'[i] = backlog[i + 1]
      BY <1>1, <1>a, <1>b
  <2>2. c \in InQueue
      BY <1>a, <1>b, <2>1 DEF InQueue
  <2>3. ASSUME NEW i \in 1 .. Len(backlog), i # 1 PROVE backlog[i] \in InQueue'
    <3>1. i - 1 \in 1 .. Len(backlog) - 1 /\ (i - 1) + 1 = i
        BY <2>1, <2>3
    <3>2. QED
        BY <2>1, <3>1 DEF InQueue
  <2>4. QED
      BY <2>1, <2>2, <2>3 DEF InQueue
<1>7. \A d \in InQueue' : d \in InQueue
  <2>1. /\ Len(backlog) \in Nat /\ Len(backlog') = Len(backlog) - 1
        /\ \A i \in 1 .. Len(backlog) - 1 : backlog'[i] = backlog[i + 1]
      BY <1>1, <1>a, <1>b
  <2>2. \A i \in 1 .. Len(backlog) - 1 : i + 1 \in 1 .. Len(backlog)
      BY <2>1
  <2>3. QED
      BY <2>1, <2>2 DEF InQueue
<1>8. FdOf(c)' # {} /\ \A d \in Clients \ {c} : FdOf(d)' = FdOf(d)
  <2>1. f \in FdOf(c)'
      BY <1>4 DEF FdOf
  <2>2. ASSUME NEW d \in Clients, d # c PROVE FdOf(d)' = FdOf(d)
    <3>1. \A g \in Slots : conn'[g] = d <=> conn[g] = d
        BY <1>4, <2>2, Basics
    <3>2. QED
        BY <3>1 DEF FdOf
  <2>3. QED
      BY <2>1, <2>2
<1>9. \A d \in Clients : Fresh(d)' => Fresh(d)
    BY <1>1, <1>2, <1>6, <1>7, <1>8 DEF Fresh, Answering
<1>10. \A d \in Clients : Closed(d)' => Closed(d)
  <2> SUFFICES ASSUME NEW d \in Clients, Closed(d)' PROVE Closed(d)
      OBVIOUS
  <2>1. d # c
      BY <1>8 DEF Closed
  <2>2. FdOf(d)' = FdOf(d) /\ (d \in InQueue => d \in InQueue')
      BY <1>6, <1>8, <2>1
  <2>3. QED
      BY <1>1, <2>2 DEF Closed
<1>11. QED
    BY <1>1, <1>2, <1>9, <1>10, LoopReplies, Basics

LEMMA OverrunsReplies ==
    ASSUME IInv, IInv', Replies, Overruns
    PROVE  Replies'
<1>1. /\ UNCHANGED <<conn, asked, next, backlog, peer, sent, unread, replies>>
      /\ pc = "loop" /\ pc' \in {"overrun", "overflow"}
    BY OverrunsLeaveAllElse DEF replies
<1>2. asked = None
    BY <1>1 DEF IInv, JobInv
<1>3. \A d \in Clients : (Fresh(d)' => Fresh(d)) /\ (Closed(d)' => Closed(d))
    BY <1>1 DEF Fresh, Closed, FdOf, Answering, InQueue
<1>4. QED
    BY <1>1, <1>2, <1>3, LoopReplies, Basics

LEMMA RecvDataReplies ==
    ASSUME IInv, IInv', Replies, NEW f \in Slots, RecvData(f)
    PROVE  Replies'
<1> DEFINE c == conn[f]
<1>1. /\ UNCHANGED <<conn, next, backlog, peer, sent, replies>>
      /\ pc = "loop" /\ pc' \in {"loop", "handle"} /\ f \in batch
      /\ unread' = [unread EXCEPT ![c] = @ - Received(c)]
      /\ pc' = "loop" => asked' = asked
      /\ pc' = "handle" => cur' = f
    BY DEF RecvData, Arrived, job
<1>2. f \in Open /\ c \in Clients /\ asked = None /\ TypeOK
    BY <1>1, Behind, Basics DEF IInv, JobInv, WiringInv
<1>3. asked' \in {None, c}
    BY <1>1, <1>2 DEF IInv, JobInv
<1>4. stream[c] = <<>>
    BY <1>1, <1>2, FreshInLoop DEF Answering
<1>5. \A d \in Clients \ {c} : unread'[d] = unread[d]
    BY <1>1, <1>2 DEF TypeOK
<1>6. \A d \in Clients : (Fresh(d)' => Fresh(d)) /\ (Closed(d)' => Closed(d))
    BY <1>1 DEF Fresh, Closed, FdOf, Answering, InQueue
<1>7. QED
    BY <1>1, <1>3, <1>4, <1>5, <1>6, LoopReplies, Basics

LEMMA RecvEndReplies ==
    ASSUME IInv, IInv', Replies, NEW f \in Slots, RecvEnd(f)
    PROVE  Replies'
<1>1. /\ UNCHANGED <<pc, asked, next, backlog, peer, sent, unread, replies>>
      /\ pc = "loop" /\ f \in batch /\ peer[conn[f]] # "open"
      /\ conn' = [conn EXCEPT ![f] = None]
    BY DEF RecvEnd, job, Forget
<1>2. f \in Open /\ conn[f] \in Clients /\ asked = None /\ TypeOK
    BY <1>1, Behind, Basics DEF IInv, JobInv, WiringInv
<1>3. \A g \in Slots : conn'[g] = IF g = f THEN None ELSE conn[g]
    BY <1>1, <1>2 DEF TypeOK
<1>4. \A d \in Clients : /\ FdOf(d)' \subseteq FdOf(d)
                         /\ d # conn[f] => FdOf(d)' = FdOf(d)
    BY <1>3, Basics DEF FdOf
<1>5. \A d \in Clients : (Fresh(d)' => Fresh(d)) /\ (Closed(d)' => Closed(d))
    BY <1>1, <1>4 DEF Fresh, Closed, Answering, InQueue
<1>6. QED
    BY <1>1, <1>2, <1>5, LoopReplies, Basics

LEMMA BrokenPipeReplies ==
    ASSUME IInv, IInv', Replies, BrokenPipe
    PROVE  Replies'
<1>1. /\ UNCHANGED <<conn, asked, next, backlog, peer, sent, unread, replies>>
      /\ pc = "send" /\ pc' = "dead"
    BY DEF BrokenPipe, job, kernel, replies
<1>2. TypeOK /\ TypeOK'
    BY DEF IInv
<1>3. SUFFICES ASSUME NEW d \in Clients PROVE Unanswered(d)
    BY <1>1, <1>2, UnansweredKeeps DEF Replies
<1>4. inflight'[d] <= inflight[d]
  <2>1. inflight[d] \in 0 .. SndCap
      BY <1>2 DEF TypeOK
  <2>2. QED
      BY <1>1, <2>1, Basics DEF replies
<1>5. (Fresh(d)' => Fresh(d)) /\ (Closed(d)' => Closed(d))
    BY <1>1 DEF Fresh, Closed, FdOf, Answering, InQueue
<1>6. QED
    BY <1>1, <1>4, <1>5 DEF Unanswered, Upto, Answering, replies

-----------------------------------------------------------------------------
(* The steps that write or end an answer.                                  *)

\* Closing the connection of the client that is answered concerns no other.
LEMMA FinishOthers ==
    ASSUME IInv, pc \in {"handle", "send"}, NEW a \in Clients, a = asked,
           Finish, UNCHANGED backlog,
           \A d \in Clients : peer'[d] = "none" => peer[d] = "none",
           \A d \in Clients : peer'[d] = "open" => peer[d] = "open"
    PROVE  /\ FdOf(a)' = {}
           /\ \A d \in Clients \ {a} : /\ Fresh(d)' => Fresh(d)
                                       /\ Closed(d)' => Closed(d)
<1>1. /\ cur \in Slots /\ asked = conn[cur] /\ asked \in Clients /\ TypeOK
      /\ \A f, g \in Open : conn[f] = conn[g] => f = g
    BY AskedClient DEF IInv, WiringInv
<1>2. \A g \in Slots : conn'[g] = IF g = cur THEN None ELSE conn[g]
    BY <1>1 DEF Finish, Forget, TypeOK
<1>3. FdOf(a)' = {}
    BY <1>1, <1>2, Basics DEF FdOf, Open
<1>4. ASSUME NEW d \in Clients \ {a} PROVE FdOf(d)' = FdOf(d)
  <2>1. \A g \in Slots : conn'[g] = d <=> conn[g] = d
      BY <1>1, <1>2, Basics
  <2>2. QED
      BY <2>1 DEF FdOf
<1>5. QED
    BY <1>3, <1>4 DEF Fresh, Closed, Answering, InQueue, Finish

\* The clients that are not written to.
LEMMA OthersKeep ==
    ASSUME IInv, TypeOK', Replies, pc \in {"handle", "send"}, NEW a \in Clients, a = asked,
           UNCHANGED <<sent, unread>>, asked' \in {asked, None},
           \A d \in Clients \ {a} : /\ stream'[d] = stream[d] /\ lost'[d] = lost[d]
                                    /\ inflight'[d] = inflight[d]
                                    /\ peer'[d] = peer[d]
                                    /\ Fresh(d)' => Fresh(d)
                                    /\ Closed(d)' => Closed(d)
    PROVE  \A d \in Clients \ {a} : ReplyOf(d)'
<1> SUFFICES ASSUME NEW d \in Clients \ {a} PROVE ReplyOf(d)'
    OBVIOUS
<1>1. TypeOK
    BY DEF IInv
<1>2. inflight'[d] <= inflight[d]
  <2>1. inflight[d] \in 0 .. SndCap
      BY <1>1 DEF TypeOK
  <2>2. QED
      BY <2>1, Basics
<1>3. asked # d /\ asked' # d
    BY Basics
<1>4. Unanswered(d)
    BY <1>2, <1>3 DEF Unanswered, Upto, Answering
<1>5. QED
    BY <1>1, <1>4, UnansweredKeeps DEF Replies

LEMMA FinishFileReplies ==
    ASSUME IInv, IInv', Replies, FinishFile
    PROVE  Replies'
<1>1. /\ UNCHANGED <<backlog, peer, sent, unread, stream, inflight, lost>>
      /\ pc = "send" /\ next > Chunks[asked] /\ Finish
      /\ pc' = "loop" /\ asked' = None /\ next' = 1
    BY DEF FinishFile, Finish, replies
<1>2. TypeOK /\ TypeOK' /\ asked \in Clients /\ Chunks[asked] \in 0 .. 199
    BY <1>1, AskedClient DEF IInv
<1>a. PICK a \in Clients : a = asked
    BY <1>2
<1>3. Answering(a)
    BY <1>1, <1>a DEF Answering
<1>4. ReplyOf(a) /\ next \in Nat
    BY <1>2 DEF Replies, TypeOK
<1>5. /\ FdOf(a)' = {}
      /\ \A d \in Clients \ {a} : (Fresh(d)' => Fresh(d)) /\ (Closed(d)' => Closed(d))
    BY <1>1, <1>a, FinishOthers
<1>6. \A d \in Clients \ {a} : ReplyOf(d)'
    BY <1>1, <1>2, <1>a, <1>5, OthersKeep
<1>7. ReplyOf(a)'
  <2>1. peer[a] # "none" /\ a \notin InQueue
      BY <1>1, <1>a, AskedClient DEF IInv, WiringInv
  <2>2. ~Fresh(a)'
      BY <1>1, <1>5, <2>1 DEF Fresh, InQueue
  <2>3. Upto(a)' = Chunks[a] /\ Upto(a) = Chunks[a]
    <3>1. next <= Chunks[a] + 1
        BY <1>3, <1>4 DEF ReplyOf, Sending
    <3>2. next - 1 = Chunks[a]
        BY <1>1, <1>2, <1>a, <1>4, <3>1
    <3>3. QED
        BY <1>1, <1>2, <1>a, <3>2, Basics DEF Upto
  <2>4. Flight(a)' /\ Right(a)' /\ Ordered(a)' /\ Whole(a)' /\ Small(a)'
      BY <1>1, <1>4, <2>3 DEF ReplyOf, Flight, Right, Ordered, Whole, Small, After, Chunk
  <2>5. Silent(a)' /\ Sending(a)'
      BY <1>1, <2>2 DEF Silent, Sending, Answering
  <2>6. Closes(a)'
      BY <1>1, <1>3, <1>4 DEF ReplyOf, Sending, Closes, Closed
  <2>7. QED
      BY <2>4, <2>5, <2>6 DEF ReplyOf
<1>8. QED
    BY <1>1, <1>6, <1>7 DEF Replies

\* What write does, client by client.
WroteTo(c, item) ==
    /\ \A d \in Clients \ {c} : /\ stream'[d] = stream[d] /\ lost'[d] = lost[d]
                                /\ inflight'[d] = inflight[d] /\ peer'[d] = peer[d]
    /\ \/ /\ stream'[c] = Append(stream[c], item) /\ inflight'[c] <= inflight[c] + 2
          /\ lost'[c] = lost[c] \/ lost'[c] = lost[c] \cup {item}
       \/ /\ stream'[c] = stream[c] /\ inflight'[c] = inflight[c]
          /\ lost'[c] = lost[c] \cup {item}
    /\ lost'[c] = lost[c] \/ peer[c] = "reset" \/ inflight[c] + 1 >= SndCap
    /\ peer[c] = "reset" => stream'[c] = stream[c]
    /\ peer[c] \in {"reset", "broken"} => peer'[c] = "broken"
    /\ peer'[c] = "none" => peer[c] = "none"
    /\ peer'[c] = "open" => peer[c] = "open"

LEMMA Written ==
    ASSUME TypeOK, NEW c \in Clients, NEW item \in 1 .. 501, Write(c, item)
    PROVE  WroteTo(c, item)
<1>1. /\ stream \in [Clients -> Seq(1 .. 501)] /\ lost \in [Clients -> SUBSET (1 .. 501)]
      /\ inflight \in [Clients -> 0 .. SndCap] /\ peer \in [Clients -> Peers]
    BY DEF TypeOK
<1>2. \A d \in Clients \ {c} : /\ stream'[d] = stream[d] /\ lost'[d] = lost[d]
                                /\ inflight'[d] = inflight[d] /\ peer'[d] = peer[d]
    BY <1>1 DEF Write
<1>3. /\ Taken(c) \in {0, 1, 2} /\ (peer[c] = "reset" => Taken(c) = 0)
      /\ Taken(c) = 2 \/ peer[c] = "reset" \/ inflight[c] + 1 >= SndCap
    BY <1>1, Basics DEF Taken
<1>4. /\ stream'[c] = IF Taken(c) > 0 THEN Append(stream[c], item) ELSE stream[c]
      /\ inflight'[c] = inflight[c] + Taken(c)
      /\ lost'[c] = IF Taken(c) < 2 THEN lost[c] \cup {item} ELSE lost[c]
    BY <1>1 DEF Write
<1>5. /\ peer[c] \in {"reset", "broken"} => peer'[c] = "broken"
      /\ peer'[c] = "none" => peer[c] = "none"
      /\ peer'[c] = "open" => peer[c] = "open"
    BY <1>1 DEF Write
<1>6. inflight[c] \in Nat
    BY <1>1, Basics
<1>7. CASE Taken(c) = 0
    BY <1>2, <1>3, <1>4, <1>5, <1>6, <1>7 DEF WroteTo
<1>8. CASE Taken(c) \in {1, 2}
    BY <1>2, <1>3, <1>4, <1>5, <1>6, <1>8 DEF WroteTo
<1>9. QED
    BY <1>3, <1>7, <1>8

\* The first item of a reply, written by Refuse and StartFile: whole, or not at all.
FirstItem(a, item) ==
    /\ peer[a] # "none" /\ a \notin InQueue
    /\ \A d \in Clients \ {a} : /\ stream'[d] = stream[d] /\ lost'[d] = lost[d]
                                /\ inflight'[d] = inflight[d]
                                /\ peer'[d] = peer[d]
    /\ \/ /\ stream'[a] # <<>> /\ Len(stream'[a]) = 1 /\ stream'[a][1] = item
          /\ inflight'[a] <= 2 /\ lost'[a] = {}
       \/ /\ stream'[a] = <<>> /\ Len(stream'[a]) = 0 /\ inflight'[a] = 0
          /\ lost'[a] = {item} /\ peer'[a] = "broken"
    /\ peer'[a] # "none"
    /\ peer'[a] = "open" => peer[a] = "open"

LEMMA FirstWrite ==
    ASSUME IInv, Replies, pc = "handle", NEW a \in Clients, a = asked,
           NEW item \in 1 .. 501, Write(conn[cur], item)
    PROVE  FirstItem(a, item)
<1>1. /\ cur \in Open /\ a = conn[cur] /\ TypeOK
      /\ peer[a] # "none" /\ a \notin InQueue
    BY AskedClient DEF IInv, WiringInv
<1>2. stream[a] = <<>> /\ lost[a] = {} /\ inflight[a] = 0
    BY <1>1, FreshInLoop DEF Answering
<1>3. WroteTo(a, item)
  <2>1. Write(a, item)
      BY <1>1
  <2>2. QED
      BY <1>1, <2>1, Written
<1>4. /\ stream[a] = <<>> /\ Len(<<>>) = 0
      /\ Append(stream[a], item) # <<>> /\ Len(Append(stream[a], item)) = 1
      /\ Append(stream[a], item)[1] = item
    BY <1>2
<1>5. \/ /\ stream'[a] # <<>> /\ Len(stream'[a]) = 1 /\ stream'[a][1] = item
         /\ inflight'[a] <= 2 /\ lost'[a] = {}
      \/ /\ stream'[a] = <<>> /\ Len(stream'[a]) = 0 /\ inflight'[a] = 0
         /\ lost'[a] = {item} /\ peer'[a] = "broken"
  <2>1. ~(inflight[a] + 1 >= SndCap) /\ inflight[a] + 2 = 2
      BY <1>2, Basics
  <2>2. lost'[a] = {} \/ peer[a] = "reset"
      BY <1>2, <1>3, <2>1 DEF WroteTo
  <2>3. CASE peer[a] = "reset"
    <3>1. stream'[a] = stream[a] /\ peer'[a] = "broken"
        BY <1>3, <2>3 DEF WroteTo
    <3>2. stream'[a] # Append(stream[a], item)
        BY <1>4, <3>1
    <3>3. inflight'[a] = inflight[a] /\ lost'[a] = lost[a] \cup {item}
        BY <1>3, <3>2 DEF WroteTo
    <3>4. QED
        BY <1>2, <1>4, <3>1, <3>3
  <2>4. CASE lost'[a] = {}
    <3>1. lost'[a] # lost[a] \cup {item}
        BY <2>4
    <3>2. stream'[a] = Append(stream[a], item) /\ inflight'[a] <= inflight[a] + 2
        BY <1>3, <3>1 DEF WroteTo
    <3>3. QED
        BY <1>4, <2>1, <2>4, <3>2
  <2>5. QED
      BY <2>2, <2>3, <2>4
<1>6. QED
    BY <1>1, <1>3, <1>5 DEF FirstItem, WroteTo

LEMMA RefuseReplies ==
    ASSUME IInv, IInv', Replies, Refuse
    PROVE  Replies'
<1> DEFINE status == Status(Request[asked])
<1>1. /\ UNCHANGED <<backlog, sent, unread>>
      /\ pc = "handle" /\ Finish /\ status # 200 /\ Write(conn[cur], status)
      /\ pc' = "loop" /\ asked' = None /\ next' = 1
    BY DEF Refuse, Finish
<1>2. PICK a \in Clients : a = asked
    BY <1>1, AskedClient
<1>3. /\ TypeOK /\ TypeOK' /\ sent[a] = Segments[a] /\ unread[a] = 0
      /\ Request[a] \in Kinds
    BY <1>1, <1>2, AskedClient DEF IInv
<1>4. PICK s \in {403, 404, 501} :
         /\ s = status
         /\ s \in CASE Request[a] = "file"    -> {200, 403}
                    [] Request[a] = "missing" -> {404}
                    [] Request[a] = "post"    -> {501}
                    [] OTHER                  -> {403}
    BY <1>1, <1>2, <1>3 DEF Status, Kinds
<1>5. /\ peer[a] # "none" /\ a \notin InQueue
      /\ \A d \in Clients \ {a} : /\ stream'[d] = stream[d] /\ lost'[d] = lost[d]
                                  /\ inflight'[d] = inflight[d]
                                  /\ peer'[d] = peer[d]
      /\ \/ /\ stream'[a] # <<>> /\ Len(stream'[a]) = 1 /\ stream'[a][1] = s
            /\ inflight'[a] <= 2 /\ lost'[a] = {}
         \/ /\ stream'[a] = <<>> /\ Len(stream'[a]) = 0 /\ inflight'[a] = 0
            /\ lost'[a] = {s} /\ peer'[a] = "broken"
      /\ peer'[a] # "none"
      /\ peer'[a] = "open" => peer[a] = "open"
  <2>1. s \in 1 .. 501
      BY <1>4
  <2>2. Write(conn[cur], s)
      BY <1>1, <1>4
  <2>3. pc = "handle"
      BY <1>1
  <2>4. FirstItem(a, s)
      BY <1>2, <2>1, <2>2, <2>3, FirstWrite
  <2>5. QED
      BY <2>4 DEF FirstItem
<1>6. /\ FdOf(a)' = {}
      /\ \A d \in Clients \ {a} : (Fresh(d)' => Fresh(d)) /\ (Closed(d)' => Closed(d))
    BY <1>1, <1>2, <1>5, FinishOthers
<1>7. \A d \in Clients \ {a} : ReplyOf(d)'
    BY <1>1, <1>2, <1>3, <1>5, <1>6, OthersKeep
<1>8. ReplyOf(a)'
  <2>1. ~Fresh(a)' /\ ~Answering(a)'
      BY <1>1, <1>5, <1>6 DEF Fresh, Answering, InQueue
  <2>2. Flight(a)'
    <3>1. inflight'[a] \in Nat
        BY <1>3, Basics DEF TypeOK
    <3>2. CASE Len(stream'[a]) = 1 /\ inflight'[a] <= 2
        BY <3>1, <3>2 DEF Flight
    <3>3. CASE Len(stream'[a]) = 0 /\ inflight'[a] = 0
        BY <3>3 DEF Flight
    <3>4. QED
        BY <1>5, <3>2, <3>3
  <2>3. Silent(a)' /\ Sending(a)' /\ Small(a)'
      BY <1>5, <2>1 DEF Silent, Sending, Small
  <2>l. PICK n \in 0 .. 1 : n = Len(stream'[a])
      BY <1>5
  <2>4. After(a)' = {}
    <3>1. 2 .. n = {}
        OBVIOUS
    <3>2. QED
        BY <2>l, <3>1 DEF After
  <2>5. Right(a)'
      BY <1>1, <1>3, <1>4, <1>5, <2>4 DEF Right, Chunk
  <2>6. Ordered(a)' /\ Whole(a)'
      BY <1>4, <1>5, <2>4 DEF Ordered, Whole, Chunk
  <2>7. Closes(a)'
      BY <1>5 DEF Closes, Closed
  <2>8. QED
      BY <2>2, <2>3, <2>5, <2>6, <2>7 DEF ReplyOf
<1>9. QED
    BY <1>1, <1>7, <1>8 DEF Replies

\* A step of the answer that leaves the connection open.
LEMMA OpenOthers ==
    ASSUME pc \in {"handle", "send"}, pc' = "send", NEW a \in Clients, a = asked,
           UNCHANGED <<conn, backlog, asked>>, FdOf(a) # {},
           \A d \in Clients \ {a} : peer'[d] = peer[d]
    PROVE  /\ FdOf(a)' # {}
           /\ \A d \in Clients \ {a} : (Fresh(d)' => Fresh(d)) /\ (Closed(d)' => Closed(d))
BY DEF Fresh, Closed, FdOf, Answering, InQueue

LEMMA StartFileReplies ==
    ASSUME IInv, IInv', Replies, StartFile
    PROVE  Replies'
<1>1. /\ UNCHANGED <<backlog, sent, unread, conn, asked, next>>
      /\ pc = "handle" /\ Status(Request[asked]) = 200 /\ Write(conn[cur], 200)
      /\ pc' = "send" /\ next = 1
    BY DEF StartFile, job, Replies
<1>2. PICK a \in Clients : a = asked
    BY <1>1, AskedClient
<1>3. /\ TypeOK /\ TypeOK' /\ sent[a] = Segments[a] /\ unread[a] = 0
      /\ Chunks[a] \in 0 .. 199 /\ cur \in Slots /\ a = conn[cur]
    BY <1>1, <1>2, AskedClient DEF IInv
<1>4. Request[a] = "file"
    BY <1>1, <1>2 DEF Status
<1>5. /\ peer[a] # "none" /\ a \notin InQueue
      /\ \A d \in Clients \ {a} : /\ stream'[d] = stream[d] /\ lost'[d] = lost[d]
                                  /\ inflight'[d] = inflight[d]
                                  /\ peer'[d] = peer[d]
      /\ \/ /\ stream'[a] # <<>> /\ Len(stream'[a]) = 1 /\ stream'[a][1] = 200
            /\ inflight'[a] <= 2 /\ lost'[a] = {}
         \/ /\ stream'[a] = <<>> /\ Len(stream'[a]) = 0 /\ inflight'[a] = 0
            /\ lost'[a] = {200} /\ peer'[a] = "broken"
      /\ peer'[a] # "none"
  <2>1. PICK item \in 1 .. 501 : item = 200
      OBVIOUS
  <2>2. pc = "handle" /\ Write(conn[cur], item)
      BY <1>1, <2>1
  <2>3. FirstItem(a, item)
      BY <1>2, <2>2, FirstWrite
  <2>4. FirstItem(a, 200)
      BY <2>1, <2>3
  <2>5. QED
      BY <2>4 DEF FirstItem
<1>6. /\ FdOf(a)' # {}
      /\ \A d \in Clients \ {a} : (Fresh(d)' => Fresh(d)) /\ (Closed(d)' => Closed(d))
  <2>1. FdOf(a) # {}
      BY <1>3 DEF FdOf
  <2>2. QED
      BY <1>1, <1>2, <1>5, <2>1, OpenOthers
<1>7. \A d \in Clients \ {a} : ReplyOf(d)'
    BY <1>1, <1>2, <1>3, <1>5, <1>6, OthersKeep
<1>8. ReplyOf(a)'
  <2>1. ~Fresh(a)' /\ Upto(a)' = 0
      BY <1>1, <1>2, <1>5, <1>6 DEF Fresh, Answering, InQueue, Upto
  <2>l. PICK n \in 0 .. 1 : n = Len(stream'[a])
      BY <1>5
  <2>3. After(a)' = {}
    <3>1. 2 .. n = {}
        OBVIOUS
    <3>2. QED
        BY <2>l, <3>1 DEF After
  <2>2. Flight(a)'
    <3>1. inflight'[a] \in Nat
        BY <1>3, Basics DEF TypeOK
    <3>2. CASE Len(stream'[a]) = 1 /\ inflight'[a] <= 2
        BY <3>1, <3>2 DEF Flight
    <3>3. CASE Len(stream'[a]) = 0 /\ inflight'[a] = 0
        BY <3>3 DEF Flight
    <3>4. QED
        BY <1>5, <3>2, <3>3
  <2>4. Silent(a)' /\ Small(a)' /\ Closes(a)'
      BY <1>5, <1>6, <2>1 DEF Silent, Small, Closes, Closed
  <2>5. Sending(a)'
    <3>1. next' = 1 /\ next' <= Chunks[a] + 1 /\ Len(stream'[a]) <= next'
      <4>1. next' = 1 /\ Chunks[a] \in 0 .. 199
          BY <1>1, <1>3
      <4>2. n <= 1 /\ 1 <= Chunks[a] + 1
          BY <4>1
      <4>3. QED
          BY <2>l, <4>1, <4>2, Zenon
    <3>2. QED
        BY <1>4, <1>5, <2>3, <3>1 DEF Sending, Chunk
  <2>6. Right(a)'
      BY <1>1, <1>3, <1>4, <1>5, <2>3 DEF Right, Chunk
  <2>7. Ordered(a)' /\ Whole(a)'
      BY <1>5, <2>1, <2>3 DEF Ordered, Whole, Chunk
  <2>8. QED
      BY <2>2, <2>4, <2>5, <2>6, <2>7 DEF ReplyOf
<1>9. QED
    BY <1>1, <1>7, <1>8 DEF Replies

LEMMA SendChunkReplies ==
    ASSUME IInv, IInv', Replies, SendChunk
    PROVE  Replies'
<1>1. /\ UNCHANGED <<backlog, sent, unread, conn, asked, pc>>
      /\ pc = "send" /\ Write(conn[cur], next) /\ next' = next + 1
      /\ next <= Chunks[asked] /\ peer[conn[cur]] # "broken"
    BY DEF SendChunk
<1>2. PICK a \in Clients : a = asked
    BY <1>1, AskedClient
<1>3. /\ TypeOK /\ TypeOK' /\ Chunks[a] \in 0 .. 199
      /\ cur \in Slots /\ a = conn[cur] /\ peer[a] # "none" /\ a \notin InQueue
    BY <1>1, <1>2, AskedClient DEF IInv, WiringInv
<1>4. next \in 1 .. 501 /\ next \in Nat
  <2>1. next \in Nat \ {0}
      BY <1>3 DEF TypeOK
  <2>2. QED
      BY <1>1, <1>2, <1>3, <2>1
<1>5. Answering(a) /\ ReplyOf(a)
    BY <1>1, <1>2 DEF Answering, Replies
<1>w. WroteTo(a, next)
  <2>1. Write(a, next)
      BY <1>1, <1>3
  <2>2. QED
      BY <1>3, <1>4, <2>1, Written
<1>6. /\ \A d \in Clients \ {a} : /\ stream'[d] = stream[d] /\ lost'[d] = lost[d]
                                  /\ inflight'[d] = inflight[d] /\ peer'[d] = peer[d]
      /\ peer[a] \in {"reset", "broken"} => peer'[a] = "broken"
      /\ peer'[a] = "none" => peer[a] = "none"
    BY <1>w DEF WroteTo
<1>7. /\ FdOf(a)' # {}
      /\ \A d \in Clients \ {a} : (Fresh(d)' => Fresh(d)) /\ (Closed(d)' => Closed(d))
  <2>1. FdOf(a) # {}
      BY <1>3 DEF FdOf
  <2>2. QED
      BY <1>1, <1>2, <1>6, <2>1, OpenOthers
<1>8. \A d \in Clients \ {a} : ReplyOf(d)'
    BY <1>1, <1>2, <1>3, <1>6, <1>7, OthersKeep
<1>9. ReplyOf(a)'
  <2>n. /\ next \in Nat /\ next >= 1 /\ next' = next + 1
        /\ Chunks[a] \in Nat /\ Chunks[a] <= 199 /\ next <= Chunks[a]
      BY <1>1, <1>2, <1>3, <1>4
  <2>1. /\ stream[a] \in Seq(1 .. 501) /\ Len(stream[a]) \in Nat
        /\ inflight[a] \in Nat
    <3>1. stream[a] \in Seq(1 .. 501) /\ inflight[a] \in 0 .. SndCap
        BY <1>3 DEF TypeOK
    <3>2. QED
        BY <3>1, Basics
  <2>2. /\ stream[a] # <<>> /\ stream[a][1] = 200 /\ Request[a] = "file"
        /\ Len(stream[a]) <= next /\ Len(stream[a]) >= 1
        /\ \A i \in After(a) : stream[a][i] < next
        /\ sent'[a] = Segments[a] /\ unread'[a] = 0
        /\ \A i \in After(a) : stream[a][i] \in 1 .. Chunks[a]
      BY <1>1, <1>3, <1>5, <2>1 DEF ReplyOf, Sending, Right, Chunk
  <2>e. \A i \in After(a) : stream[a][i] < next' /\ stream[a][i] \in 1 .. Chunks[a]
    <3> SUFFICES ASSUME NEW i \in After(a)
                 PROVE  stream[a][i] < next' /\ stream[a][i] \in 1 .. Chunks[a]
        OBVIOUS
    <3>1. PICK k \in 1 .. Chunks[a] : k = stream[a][i]
        BY <2>2
    <3>2. k < next /\ k \in Nat
        BY <2>2, <2>n, <3>1
    <3>3. k < next'
        BY <2>n, <3>2
    <3>4. QED
        BY <3>1, <3>3
  <2>3. /\ {stream[a][i] : i \in After(a)} \cup lost[a] = 1 .. next - 1
        /\ \A i, j \in After(a) : i < j => stream[a][i] < stream[a][j]
        /\ inflight[a] <= 2 * Len(stream[a])
      BY <1>2, <1>5, <2>2 DEF ReplyOf, Whole, Ordered, Flight, Chunk, Upto
  <2>4. ~Fresh(a)' /\ Upto(a)' = next /\ peer'[a] # "none"
      BY <1>1, <1>2, <1>3, <1>4, <1>5, <1>6, <1>7 DEF Fresh, Answering, InQueue, Upto
  <2>5. Silent(a)' /\ Closes(a)'
      BY <1>7, <2>4 DEF Silent, Closes, Closed
  <2>6. Small(a)'
    <3>1. inflight[a] <= 2 * Chunks[a]
        BY <2>n, <2>1, <2>2, <2>3
    <3>2. inflight[a] + 1 >= SndCap => 2 + 2 * Chunks[a] > SndCap
        BY <2>n, <2>1, <3>1, Basics
    <3>3. lost'[a] = lost[a] \/ peer[a] = "reset" \/ inflight[a] + 1 >= SndCap
        BY <1>w DEF WroteTo
    <3>4. Small(a) /\ peer[a] # "broken"
        BY <1>1, <1>3, <1>5 DEF ReplyOf
    <3>5. QED
        BY <1>6, <3>2, <3>3, <3>4 DEF Small
  <2>7. CASE stream'[a] = Append(stream[a], next)
    <3>1. inflight'[a] <= inflight[a] + 2 /\ lost'[a] \in {lost[a], lost[a] \cup {next}}
      <4>1. stream'[a] # stream[a]
          BY <2>1, <2>7
      <4>2. QED
          BY <1>w, <4>1 DEF WroteTo
    <3>2. /\ Len(stream'[a]) = Len(stream[a]) + 1
          /\ After(a)' = After(a) \cup {Len(stream[a]) + 1}
          /\ stream'[a][Len(stream[a]) + 1] = next /\ stream'[a][1] = 200
          /\ \A i \in After(a) : stream'[a][i] = stream[a][i] /\ i < Len(stream[a]) + 1
          /\ stream'[a] # <<>>
        BY <2>1, <2>2, <2>7 DEF After
    <3>3. Flight(a)'
      <4>1. inflight'[a] \in Nat /\ Len(stream'[a]) = Len(stream[a]) + 1
          BY <1>3, <3>2, Basics DEF TypeOK
      <4>2. QED
          BY <2>1, <2>3, <3>1, <4>1 DEF Flight
    <3>a. /\ next < next' /\ next' <= Chunks[a] + 1 /\ next \in 1 .. Chunks[a]
          /\ Len(stream[a]) + 1 <= next'
        BY <2>n, <2>1, <2>2
    <3>b. \A i \in After(a)' :
             \/ i \in After(a) /\ stream'[a][i] = stream[a][i]
             \/ i = Len(stream[a]) + 1 /\ stream'[a][i] = next
        BY <3>2
    <3>c. \A i \in After(a)' : stream'[a][i] < next' /\ stream'[a][i] \in 1 .. Chunks[a]
        BY <2>e, <3>a, <3>b
    <3>d. Sending(a)'
        BY <2>2, <3>2, <3>a, <3>c DEF Sending, Chunk
    <3>e. Right(a)'
        BY <2>2, <3>2, <3>c DEF Right, Chunk
    <3>4. Ordered(a)'
      <4>1. SUFFICES ASSUME NEW i \in After(a)', NEW j \in After(a)', i < j
                     PROVE  stream'[a][i] < stream'[a][j]
          BY DEF Ordered, Chunk
      <4>2. i \in After(a)
          BY <2>1, <3>2, <3>b, <4>1 DEF After
      <4>3. CASE j \in After(a)
          BY <2>3, <3>2, <4>1, <4>2, <4>3
      <4>4. CASE stream'[a][j] = next
          BY <2>2, <3>2, <4>2, <4>4
      <4>5. QED
          BY <3>b, <4>3, <4>4
    <3>5. Whole(a)'
      <4>2. {stream'[a][i] : i \in After(a)'} = {stream[a][i] : i \in After(a)} \cup {next}
          BY <3>2
      <4>3. (1 .. next - 1) \cup {next} = 1 .. next
          BY <1>4
      <4>4. {stream'[a][i] : i \in After(a)'} \cup lost'[a] = 1 .. next
          BY <2>3, <3>1, <4>2, <4>3
      <4>5. QED
          BY <2>4, <4>4 DEF Whole, Chunk
    <3>6. QED
        BY <2>5, <2>6, <3>3, <3>d, <3>e, <3>4, <3>5 DEF ReplyOf
  <2>8. CASE stream'[a] # Append(stream[a], next)
    <3>1. /\ stream'[a] = stream[a] /\ inflight'[a] = inflight[a]
          /\ lost'[a] = lost[a] \cup {next} /\ After(a)' = After(a)
        BY <1>w, <2>8 DEF After, WroteTo
    <3>a. /\ next < next' /\ next' <= Chunks[a] + 1 /\ Len(stream[a]) <= next'
        BY <2>n, <2>1, <2>2
    <3>b. \A i \in After(a) : stream[a][i] < next'
        BY <2>e
    <3>c. Sending(a)'
        BY <2>2, <3>1, <3>a, <3>b DEF Sending, Chunk
    <3>2. Flight(a)' /\ Right(a)'
        BY <2>2, <2>3, <3>1 DEF Flight, Right, Chunk
    <3>3. Ordered(a)'
        BY <2>3, <3>1 DEF Ordered, Chunk
    <3>4. Whole(a)'
      <4>2. (1 .. next - 1) \cup {next} = 1 .. next
          BY <1>4
      <4>3. {stream'[a][i] : i \in After(a)'} \cup lost'[a] = 1 .. next
          BY <2>3, <3>1, <4>2
      <4>4. QED
          BY <2>4, <4>3 DEF Whole, Chunk
    <3>5. QED
        BY <2>5, <2>6, <3>2, <3>c, <3>3, <3>4 DEF ReplyOf
  <2>9. QED
      BY <2>7, <2>8
<1>10. QED
    BY <1>1, <1>8, <1>9 DEF Replies

-----------------------------------------------------------------------------
LEMMA NextReplies == IInv /\ IInv' /\ Replies /\ [Next]_vars => Replies'
<1> SUFFICES ASSUME IInv, IInv', Replies, [Next]_vars PROVE Replies'
    OBVIOUS
<1>1. CASE Server
    BY <1>1, EpollWaitReplies, AcceptConnReplies, OverrunsReplies, RecvDataReplies,
       RecvEndReplies, RefuseReplies, StartFileReplies, SendChunkReplies,
       BrokenPipeReplies, FinishFileReplies DEF Server, Overruns
<1>2. CASE \E c \in Clients : Client(c)
    BY <1>2, ClientReplies
<1>3. CASE UNCHANGED vars
  <2>1. /\ UNCHANGED <<pc, conn, asked, next, backlog, peer, sent, unread>>
        /\ UNCHANGED <<stream, inflight, lost>>
      BY <1>3 DEF vars, server, kernel
  <2>2. TypeOK /\ TypeOK'
      BY DEF IInv
  <2>3. SUFFICES ASSUME NEW d \in Clients PROVE Unanswered(d)
      BY <2>1, <2>2, UnansweredKeeps DEF Replies
  <2>4. inflight'[d] <= inflight[d]
    <3>1. inflight[d] \in 0 .. SndCap
        BY <2>2 DEF TypeOK
    <3>2. QED
        BY <2>1, <3>1, Basics
  <2>5. QED
      BY <2>1, <2>4 DEF Unanswered, Fresh, Closed, Answering, Upto, FdOf, InQueue
<1>4. QED
    BY <1>1, <1>2, <1>3 DEF Next

LEMMA RepliesInductive == Spec => []Replies
BY InitIInv, NextIInv, InitReplies, NextReplies, PTL DEF Spec

\* Every client is answered with the status of its own request, and only a
\* readable file is followed by chunks (handle_request).
LEMMA RepliesAreRight == Spec => []RightReply
<1>1. Replies => RightReply
    BY DEF Replies, ReplyOf, Right, Chunk, After, RightReply
<1>2. QED
    BY <1>1, RepliesInductive, PTL

\* The chunks of a file leave in order, and each one that was read is in the stream
\* or lost, or cut short and both (send_file).
LEMMA BodiesAreInOrder == Spec => []BodyInOrder
<1>1. Replies => BodyInOrder
  <2> SUFFICES ASSUME Replies, NEW c \in Clients PROVE Ordered(c) /\ Whole(c)
      BY DEF BodyInOrder, Ordered, Whole, Upto, Chunk, After
  <2>1. QED
      BY DEF Replies, ReplyOf
<1>2. QED
    BY <1>1, RepliesInductive, PTL

\* The two together: a client gets one reply, its own, with the chunks of a file
\* in order and a hole for what was lost of them (handle_request, send_file).
THEOREM RepliesAreOneAndRight == Spec => []OneRightReply
<1>1. RightReply /\ BodyInOrder => OneRightReply
    BY DEF OneRightReply
<1>2. QED
    BY <1>1, RepliesAreRight, BodiesAreInOrder, PTL

\* A file that fits in the send buffer with its header is lost only to a client
\* that has reset its connection, although no result of write is checked.
THEOREM SmallFilesAreWhole == Spec => []SmallFilesWhole
<1>1. Replies => SmallFilesWhole
    BY DEF Replies, ReplyOf, Small, SmallFilesWhole
<1>2. QED
    BY <1>1, RepliesInductive, PTL

\* The server closes on a connected client only after answering it.
THEOREM NoCloseIsSilent == Spec => []NoSilentClose
<1>1. Replies => NoSilentClose
    BY DEF Replies, ReplyOf, Closes, Closed, NoSilentClose, Accepted, InQueue
<1>2. QED
    BY <1>1, RepliesInductive, PTL

-----------------------------------------------------------------------------
(* The inductive invariant, third part: what is leaked.                    *)

\* The clients that have asked for a directory and been closed.
Gone == {c \in Clients : /\ Request[c] = "dir" /\ sent[c] = Segments[c]
                         /\ peer[c] # "none" /\ c \notin InQueue /\ FdOf(c) = {}}

LeakInv == /\ Cardinality(leaked) <= Cardinality(Gone)
           /\ leaked \cap Open = {}
           /\ pc = "overrun" => Slots \subseteq Held

LEMMA AllFinite ==
    /\ \A S : S \subseteq Clients => IsFiniteSet(S) /\ Cardinality(S) \in Nat
    /\ \A S : S \subseteq Descriptors => IsFiniteSet(S) /\ Cardinality(S) \in Nat
    /\ Slots \subseteq Descriptors
<1>1. IsFiniteSet(Clients)
    BY ClientAssumption
<1>2. IsFiniteSet(Descriptors) /\ Slots \subseteq Descriptors
    BY DescriptorAssumption, FS_Interval DEF Descriptors, Slots
<1>3. QED
    BY <1>1, <1>2, FS_Subset, FS_CardinalityType

\* Once gone, a client stays so.
LEMMA GoneStays ==
    ASSUME TypeOK, UNCHANGED sent,
           \A d \in Clients : peer'[d] = "none" => peer[d] = "none",
           InQueue' \subseteq InQueue,
           \A d \in Clients : d \notin InQueue /\ FdOf(d) = {} => FdOf(d)' = {}
    PROVE  Gone \subseteq Gone'
BY DEF Gone

\* A step that leaks nothing.
LEMMA LeakFrame ==
    ASSUME TypeOK, LeakInv, leaked' = leaked, Gone \subseteq Gone', leaked \cap Open' = {},
           pc' = "overrun" => Slots \subseteq Held'
    PROVE  LeakInv'
<1>1. Gone \subseteq Clients /\ Gone' \subseteq Clients /\ leaked \subseteq Descriptors
    BY DEF Gone, TypeOK
<1>2. /\ Cardinality(Gone) \in Nat /\ Cardinality(Gone') \in Nat
      /\ Cardinality(leaked) \in Nat
    BY <1>1, AllFinite
<1>3. IsFiniteSet(Gone')
    BY <1>1, AllFinite
<1>4. Cardinality(Gone) <= Cardinality(Gone')
    BY <1>3, FS_Subset
<1>5. QED
    BY <1>2, <1>4 DEF LeakInv

LEMMA InitLeak == Init => LeakInv
<1> SUFFICES ASSUME Init PROVE LeakInv
    OBVIOUS
<1>1. leaked = {} /\ pc = "loop"
    BY DEF Init
<1>2. Cardinality(leaked) = 0
    BY <1>1, FS_EmptySet
<1>3. Gone \subseteq Clients
    BY DEF Gone
<1>4. Cardinality(Gone) \in Nat
    BY <1>3, AllFinite
<1>5. QED
    BY <1>1, <1>2, <1>4 DEF LeakInv

LEMMA ClientLeak ==
    ASSUME IInv, LeakInv, NEW c \in Clients, Client(c)
    PROVE  LeakInv'
<1>1. UNCHANGED <<pc, conn, leaked>> /\ TypeOK
    BY DEF IInv, Client, Connect, Send, HangUp, ResetArrives, Drain, server
<1>2. Open' = Open /\ Held' = Held /\ \A d \in Clients : FdOf(d)' = FdOf(d)
    BY <1>1 DEF Open, Held, FdOf
<1>3. Gone \subseteq Gone'
  <2>1. /\ peer \in [Clients -> Peers] /\ sent \in [Clients -> Nat]
        /\ Segments[c] \in Nat
      BY <1>1, Basics DEF TypeOK
  <2>2. CASE Connect(c)
    <3>1. backlog \in Seq(Clients) /\ backlog' = Append(backlog, c)
        BY <1>1, <2>2 DEF TypeOK, Connect
    <3>2. /\ Len(backlog') = Len(backlog) + 1 /\ Len(backlog) \in Nat
          /\ \A i \in 1 .. Len(backlog) : backlog'[i] = backlog[i]
          /\ backlog'[Len(backlog) + 1] = c
        BY <3>1
    <3>3. InQueue' = InQueue \cup {c}
        BY <3>2 DEF InQueue
    <3>4. peer[c] = "none" /\ sent' = sent /\ \A d \in Clients \ {c} : peer'[d] = peer[d]
        BY <2>1, <2>2 DEF Connect
    <3>5. QED
        BY <1>2, <3>3, <3>4 DEF Gone
  <2>3. CASE Send(c)
    <3>1. /\ UNCHANGED <<backlog, peer>> /\ sent[c] < Segments[c]
          /\ \A d \in Clients \ {c} : sent'[d] = sent[d]
        BY <2>1, <2>3 DEF Send
    <3>2. sent[c] # Segments[c]
        BY <2>1, <3>1, Basics
    <3>3. QED
        BY <1>2, <3>1, <3>2 DEF Gone, InQueue
  <2>4. CASE HangUp(c) \/ ResetArrives(c) \/ Drain(c)
    <3>1. /\ UNCHANGED <<backlog, sent>>
          /\ \A d \in Clients : peer'[d] = "none" => peer[d] = "none"
        BY <2>1, <2>4 DEF HangUp, ResetArrives, Drain
    <3>2. QED
        BY <1>2, <3>1 DEF Gone, InQueue
  <2>5. QED
      BY <2>2, <2>3, <2>4 DEF Client
<1>4. QED
    BY <1>1, <1>2, <1>3, LeakFrame DEF LeakInv

\* The steps of the server that open and close nothing.
LEMMA SteadyLeak ==
    ASSUME TypeOK, LeakInv, UNCHANGED <<conn, leaked, backlog, sent>>,
           \A d \in Clients : peer'[d] = "none" => peer[d] = "none",
           pc' = "overrun" => Slots \subseteq Held
    PROVE  LeakInv'
<1>1. Open' = Open /\ Held' = Held /\ InQueue' = InQueue
    BY DEF Open, Held, InQueue
<1>2. Gone \subseteq Gone'
    BY <1>1, GoneStays DEF FdOf
<1>3. QED
    BY <1>1, <1>2, LeakFrame DEF LeakInv

LEMMA AcceptLeak ==
    ASSUME IInv, LeakInv, AcceptConn
    PROVE  LeakInv'
<1>1. /\ UNCHANGED <<pc, leaked, peer, sent>> /\ pc = "loop" /\ TypeOK
      /\ Listen \in batch /\ backlog' = Tail(backlog)
    BY DEF AcceptConn, IInv
<1>2. backlog \in Seq(Clients) /\ Len(backlog) >= 1
    BY <1>1 DEF IInv, TypeOK, QueueInv, EdgesLeft
<1>3. PICK c \in Clients : c = Head(backlog) /\ c = backlog[1]
    BY <1>2
<1>4. PICK f \in Slots : f \notin Held /\ conn' = [conn EXCEPT ![f] = c]
    BY <1>3 DEF AcceptConn, Lowest
<1>5. \A g \in Slots : conn'[g] = IF g = f THEN c ELSE conn[g]
    BY <1>1, <1>4 DEF TypeOK
<1>6. leaked \cap Open' = {}
  <2>1. Open' \subseteq Open \cup {f}
      BY <1>5 DEF Open
  <2>2. QED
      BY <1>4, <2>1 DEF LeakInv, Held
<1>7. c \in InQueue /\ InQueue' \subseteq InQueue
  <2>1. /\ Len(backlog) \in Nat /\ Len(backlog') = Len(backlog) - 1
        /\ \A i \in 1 .. Len(backlog) - 1 : backlog'[i] = backlog[i + 1]
      BY <1>1, <1>2
  <2>2. \A i \in 1 .. Len(backlog) - 1 : i + 1 \in 1 .. Len(backlog)
      BY <2>1
  <2>3. QED
      BY <1>2, <1>3, <2>1, <2>2 DEF InQueue
<1>8. ASSUME NEW d \in Clients, d \notin InQueue, FdOf(d) = {} PROVE FdOf(d)' = {}
  <2>1. d # c
      BY <1>7, <1>8
  <2>2. QED
      BY <1>5, <1>8, <2>1 DEF FdOf
<1>9. Gone \subseteq Gone'
    BY <1>1, <1>7, <1>8, GoneStays
<1>10. QED
    BY <1>1, <1>6, <1>9, LeakFrame

\* close.
LEMMA Closing ==
    ASSUME TypeOK, NEW f \in Slots, conn' = [conn EXCEPT ![f] = None]
    PROVE  Open' \subseteq Open /\ \A d \in Clients : FdOf(d)' \subseteq FdOf(d)
<1>1. \A g \in Slots : conn'[g] = IF g = f THEN None ELSE conn[g]
    BY DEF TypeOK
<1>2. QED
    BY <1>1, Basics DEF Open, FdOf

LEMMA CloseLeak ==
    ASSUME TypeOK, LeakInv, NEW f \in Slots, conn' = [conn EXCEPT ![f] = None],
           UNCHANGED <<leaked, backlog, peer, sent>>, pc' = "loop"
    PROVE  LeakInv'
<1>1. /\ Open' \subseteq Open /\ InQueue' = InQueue
      /\ \A d \in Clients : FdOf(d)' \subseteq FdOf(d)
    BY Closing DEF InQueue
<1>2. Gone \subseteq Gone'
    BY <1>1, GoneStays
<1>3. QED
    BY <1>1, <1>2, LeakFrame DEF LeakInv

LEMMA RefuseLeak ==
    ASSUME IInv, LeakInv, Refuse
    PROVE  LeakInv'
<1>1. /\ UNCHANGED <<backlog, sent>> /\ pc = "handle" /\ pc' = "loop" /\ TypeOK
      /\ conn' = [conn EXCEPT ![cur] = None]
      /\ leaked' = IF Unclosed(Request[asked])
                     THEN leaked \cup {f \in Spare : Lowest(f)} ELSE leaked
    BY DEF Refuse, Finish, Forget, IInv
<1>2. PICK a \in Clients : a = asked
    BY <1>1, AskedClient
<1>3. /\ sent[a] = Segments[a] /\ cur \in Slots /\ conn[cur] = a
      /\ peer[a] # "none" /\ a \notin InQueue /\ \A f, g \in Open : conn[f] = conn[g] => f = g
    BY <1>1, <1>2, AskedClient DEF IInv, WiringInv
<1>4. \A d \in Clients : peer'[d] = "none" => peer[d] = "none"
    BY <1>1 DEF Refuse, Write, TypeOK
<1>5. /\ Open' \subseteq Open /\ (\A d \in Clients : FdOf(d)' \subseteq FdOf(d))
      /\ InQueue' = InQueue
    BY <1>1, <1>3, Closing DEF InQueue
<1>6. Gone \subseteq Gone'
    BY <1>1, <1>4, <1>5, GoneStays
<1>7. CASE ~Unclosed(Request[asked])
    BY <1>1, <1>5, <1>6, <1>7, LeakFrame DEF LeakInv
<1>8. CASE Unclosed(Request[asked])
  <2>1. a \notin Gone /\ a \in Gone'
    <3>1. cur \in FdOf(a)
        BY <1>3 DEF FdOf
    <3>2. FdOf(a)' = {}
      <4>1. \A g \in Slots : conn'[g] = IF g = cur THEN None ELSE conn[g]
          BY <1>1, <1>3 DEF TypeOK
      <4>2. \A g \in Slots : conn[g] = a => g = cur
          BY <1>3, Basics DEF Open
      <4>3. QED
          BY <4>1, <4>2, Basics DEF FdOf
    <3>3. QED
        BY <1>1, <1>2, <1>3, <1>4, <1>5, <1>8, <3>1, <3>2 DEF Gone, Unclosed
  <2>2. Cardinality(Gone) + 1 <= Cardinality(Gone')
    <3>1. Gone \subseteq Clients /\ Gone' \subseteq Clients
        BY DEF Gone
    <3>2. /\ IsFiniteSet(Gone) /\ IsFiniteSet(Gone')
          /\ Cardinality(Gone) \in Nat /\ Cardinality(Gone') \in Nat
        BY <3>1, AllFinite
    <3>3. Cardinality(Gone \cup {a}) = Cardinality(Gone) + 1
        BY <2>1, <3>2, FS_AddElement
    <3>4. Cardinality(Gone \cup {a}) <= Cardinality(Gone')
        BY <1>6, <2>1, <3>2, FS_Subset
    <3>5. QED
        BY <3>3, <3>4
  <2>3. \A f, g \in {h \in Spare : Lowest(h)} : f = g
    <3>1. \A f, g \in {h \in Spare : Lowest(h)} : ~(f < g)
        BY DescriptorAssumption DEF Spare, Descriptors, Lowest
    <3>2. \A f \in Spare : f \in Nat
        BY DescriptorAssumption DEF Spare, Descriptors
    <3>3. QED
        BY <3>1, <3>2
  <2>4. Cardinality(leaked') <= Cardinality(leaked) + 1 /\ Cardinality(leaked) \in Nat
        /\ Cardinality(leaked') \in Nat
    <3>1. leaked \subseteq Descriptors /\ leaked' \subseteq Descriptors
        BY <1>1 DEF TypeOK, Spare
    <3>2. /\ IsFiniteSet(leaked) /\ Cardinality(leaked) \in Nat
          /\ Cardinality(leaked') \in Nat
        BY <3>1, AllFinite
    <3>3. leaked' = leaked \/ \E f \in Spare : leaked' = leaked \cup {f}
      <4>1. CASE {h \in Spare : Lowest(h)} = {}
          BY <1>1, <1>8, <4>1
      <4>2. CASE {h \in Spare : Lowest(h)} # {}
        <5>1. PICK f \in Spare : Lowest(f)
            BY <4>2
        <5>2. {h \in Spare : Lowest(h)} = {f}
            BY <2>3, <5>1
        <5>3. QED
            BY <1>1, <1>8, <5>2
      <4>3. QED
          BY <4>1, <4>2
    <3>4. ASSUME NEW f PROVE Cardinality(leaked \cup {f}) <= Cardinality(leaked) + 1
      <4>1. Cardinality(leaked \cup {f}) \in {Cardinality(leaked), Cardinality(leaked) + 1}
          BY <3>2, FS_AddElement
      <4>2. QED
          BY <3>2, <4>1
    <3>5. QED
      <4>1. CASE leaked' = leaked
          BY <3>2, <4>1
      <4>2. CASE \E f \in Spare : leaked' = leaked \cup {f}
        <5>1. PICK f \in Spare : leaked' = leaked \cup {f}
            BY <4>2
        <5>2. Cardinality(leaked') <= Cardinality(leaked) + 1
            BY <3>4, <5>1
        <5>3. QED
            BY <3>2, <5>2
      <4>3. QED
          BY <3>3, <4>1, <4>2
  <2>5. leaked' \cap Open' = {}
      BY <1>1, <1>5, <1>8 DEF LeakInv, Lowest, Held
  <2>6. Cardinality(Gone) \in Nat /\ Cardinality(Gone') \in Nat
    <3>1. Gone \subseteq Clients /\ Gone' \subseteq Clients
        BY DEF Gone
    <3>2. QED
        BY <3>1, AllFinite
  <2>7. QED
      BY <1>1, <2>2, <2>4, <2>5, <2>6 DEF LeakInv
<1>9. QED
    BY <1>7, <1>8

LEMMA NextLeak == IInv /\ LeakInv /\ [Next]_vars => LeakInv'
<1> SUFFICES ASSUME IInv, LeakInv, [Next]_vars PROVE LeakInv'
    OBVIOUS
<1>0. TypeOK
    BY DEF IInv
<1>1. CASE EpollWait \/ BrokenPipe \/ \E f \in Slots : RecvData(f)
  <2>1. /\ UNCHANGED <<conn, leaked, backlog, peer, sent>>
        /\ pc' # "overrun"
      BY <1>1 DEF EpollWait, BrokenPipe, RecvData, Arrived, kernel
  <2>2. QED
      BY <1>0, <2>1, SteadyLeak
<1>2. CASE Overruns
  <2>1. /\ UNCHANGED <<conn, leaked, backlog, peer, sent>>
        /\ pc' = "overrun" => Slots \subseteq Held
      BY <1>2, OverrunsLeaveAllElse
  <2>2. QED
      BY <1>0, <2>1, SteadyLeak
<1>3. CASE StartFile \/ SendChunk
  <2>1. /\ UNCHANGED <<conn, leaked, backlog, sent>> /\ pc' = "send"
        /\ \A d \in Clients : peer'[d] = "none" => peer[d] = "none"
      BY <1>0, <1>3 DEF StartFile, SendChunk, Write, TypeOK
  <2>2. QED
      BY <1>0, <2>1, SteadyLeak
<1>4. CASE (\E f \in Slots : RecvEnd(f)) \/ FinishFile
  <2>1. PICK f \in Slots : /\ conn' = [conn EXCEPT ![f] = None] /\ pc' = "loop"
                           /\ UNCHANGED <<leaked, backlog, peer, sent>>
    <3>1. FinishFile => cur \in Slots
        BY AskedClient DEF FinishFile
    <3>2. QED
        BY <1>4, <3>1 DEF RecvEnd, FinishFile, Finish, Forget
  <2>2. QED
      BY <1>0, <2>1, CloseLeak
<1>5. CASE AcceptConn \/ Refuse
    BY <1>5, AcceptLeak, RefuseLeak
<1>6. CASE \E c \in Clients : Client(c)
    BY <1>6, ClientLeak
<1>7. CASE UNCHANGED vars
  <2>1. UNCHANGED <<pc, conn, leaked, backlog, peer, sent>>
      BY <1>7 DEF vars, server, kernel
  <2>2. QED
      BY <1>0, <2>1, SteadyLeak DEF LeakInv
<1>8. QED
    BY <1>1, <1>2, <1>3, <1>4, <1>5, <1>6, <1>7 DEF Next, Server, Overruns

\* No more descriptors are lost than directories have been asked for, so the
\* table of connections is overrun only when both together have used it up
\* (handle_request returns without closing what fopen opened).
THEOREM OnlyDirectoriesLeak == Spec => []LeaksAreDirectories
<1>1. IInv /\ LeakInv => LeaksAreDirectories
  <2> SUFFICES ASSUME IInv, LeakInv PROVE LeaksAreDirectories
      OBVIOUS
  <2>1. /\ Gone \subseteq Directories /\ Directories \subseteq Clients
        /\ leaked \subseteq Descriptors /\ Open \subseteq Slots
      BY DEF Gone, Directories, IInv, TypeOK, Open
  <2>2. /\ IsFiniteSet(Directories) /\ IsFiniteSet(leaked) /\ IsFiniteSet(Open)
        /\ Cardinality(Directories) \in Nat /\ Cardinality(leaked) \in Nat
        /\ Cardinality(Open) \in Nat /\ Cardinality(Gone) \in Nat
    <3>1. Gone \subseteq Clients /\ Open \subseteq Descriptors
        BY <2>1, AllFinite
    <3>2. QED
        BY <2>1, <3>1, AllFinite
  <2>3. Cardinality(leaked) <= Cardinality(Directories)
    <3>1. Cardinality(Gone) <= Cardinality(Directories)
        BY <2>1, <2>2, FS_Subset
    <3>2. QED
        BY <2>2, <3>1 DEF LeakInv
  <2>4. ASSUME pc = "overrun"
        PROVE  Cardinality(Open) + Cardinality(Directories) >= Cardinality(Slots)
    <3>1. Slots \subseteq Open \cup leaked /\ Slots \subseteq Descriptors
        BY <2>4, AllFinite DEF LeakInv, Held
    <3>2. /\ IsFiniteSet(Open \cup leaked)
          /\ Cardinality(Open \cup leaked)
                = Cardinality(Open) + Cardinality(leaked) - Cardinality(Open \cap leaked)
        BY <2>2, FS_Union
    <3>3. Cardinality(Open \cap leaked) = 0
      <4>1. Open \cap leaked = {}
          BY DEF LeakInv
      <4>2. QED
          BY <4>1, FS_EmptySet
    <3>4. Cardinality(Slots) <= Cardinality(Open \cup leaked) /\ Cardinality(Slots) \in Nat
        BY <3>1, <3>2, FS_Subset, AllFinite
    <3>5. QED
        BY <2>2, <2>3, <3>2, <3>3, <3>4
  <2>5. QED
      BY <2>3, <2>4 DEF LeaksAreDirectories, LeakInv
<1>2. QED
    BY <1>1, InitIInv, NextIInv, InitLeak, NextLeak, PTL DEF Spec

-----------------------------------------------------------------------------
(* The refinement: for its clients the loop is FileService, which knows one *)
(* client at a time.                                                        *)

WholeRequests == {c \in Clients : sent[c] = Segments[c]}
Served        == IF pc \in {"send", "dead"} THEN asked ELSE None

\* FileService with what it is mapped to.
LEMMA ServiceIs ==
    /\ Service!Init <=> /\ WholeRequests = {} /\ Served = None /\ next = 1
                        /\ stream = [c \in Clients |-> <<>>] /\ lost = [c \in Clients |-> {}]
    /\ UNCHANGED <<WholeRequests, Served, next, stream, lost>> => UNCHANGED Service!vars
    /\ \A c : Service!Turn(c) <=>
          Served = None /\ c \in WholeRequests /\ stream[c] = <<>> /\ lost[c] = {}
BY DEF Service!Init, Service!vars, Service!Turn, Service!Answered, WholeRequests, Served

\* What is written for a client reaches the client's stream, is lost, or is cut short.
LEMMA WriteIsPut ==
    ASSUME NEW c, NEW item, Write(c, item)
    PROVE  Service!Put(c, item)
BY DEF Write, Taken, Service!Put

\* A step that writes nothing, completes no request and leaves the transfer alone.
LEMMA QuietServes ==
    ASSUME UNCHANGED <<sent, next, stream, lost>>, Served' = Served
    PROVE  UNCHANGED Service!vars
<1>1. WholeRequests' = WholeRequests
    BY DEF WholeRequests
<1>2. QED
    BY <1>1, ServiceIs

LEMMA SendServes ==
    ASSUME TypeOK, NEW c \in Clients, Send(c)
    PROVE  Service!Ask(c) \/ UNCHANGED Service!vars
<1>1. /\ sent' = [sent EXCEPT ![c] = sent[c] + 1] /\ sent[c] \in Nat
      /\ sent[c] < Segments[c] /\ Segments[c] \in Nat
      /\ UNCHANGED <<pc, asked, next, stream, lost>>
    BY Basics DEF Send, TypeOK, server, replies
<1>2. Served' = Served
    BY <1>1 DEF Served
<1>3. sent'[c] = sent[c] + 1 /\ \A d \in Clients \ {c} : sent'[d] = sent[d]
    BY <1>1 DEF TypeOK
<1>4. CASE sent[c] + 1 = Segments[c]
  <2>1. WholeRequests' = WholeRequests \cup {c} /\ c \notin WholeRequests
      BY <1>1, <1>3, <1>4 DEF WholeRequests
  <2>2. Service!Ask(c)
      BY <1>1, <1>2, <2>1 DEF Service!Ask, WholeRequests, Served
  <2>3. QED
      BY <2>2
<1>5. CASE sent[c] + 1 # Segments[c]
  <2>1. WholeRequests' = WholeRequests
      BY <1>1, <1>3, <1>5 DEF WholeRequests
  <2>2. QED
      BY <1>1, <1>2, <2>1, ServiceIs
<1>6. QED
    BY <1>4, <1>5

\* The client whose turn it is: its request is whole and nothing has been written.
LEMMA AskedHasItsTurn ==
    ASSUME IInv, Replies, pc = "handle"
    PROVE  Service!Turn(asked) /\ asked \in Clients /\ conn[cur] = asked /\ next = 1
<1>1. /\ cur \in Slots /\ asked = conn[cur] /\ asked \in Clients /\ sent[asked] = Segments[asked]
    BY AskedClient
<1>2. Fresh(asked)
    BY <1>1 DEF Fresh, FdOf, Answering
<1>3. stream[asked] = <<>> /\ lost[asked] = {} /\ next = 1
    BY <1>1, <1>2 DEF Replies, ReplyOf, Silent
<1>4. Served = None /\ asked \in WholeRequests
    BY <1>1 DEF Served, WholeRequests
<1>5. QED
    BY <1>1, <1>3, <1>4, ServiceIs

LEMMA RefuseServes ==
    ASSUME IInv, Replies, Refuse
    PROVE  Service!Refuse(asked)
<1>1. /\ pc = "handle" /\ pc' = "loop" /\ next' = 1 /\ sent' = sent
      /\ Status(Request[asked]) # 200 /\ Write(conn[cur], Status(Request[asked]))
    BY DEF Refuse, Finish
<1>2. Service!Turn(asked) /\ asked \in Clients /\ conn[cur] = asked /\ next = 1
    BY <1>1, AskedHasItsTurn
<1>3. Service!Refusal(Request[asked]) = Status(Request[asked])
  <2>1. Request[asked] \in Kinds
      BY <1>2, Basics
  <2>2. QED
      BY <1>1, <2>1 DEF Service!Refusal, Status, Kinds
<1>4. Service!Put(asked, Service!Refusal(Request[asked]))
    BY <1>1, <1>2, <1>3, WriteIsPut
<1>5. UNCHANGED <<WholeRequests, Served, next>>
    BY <1>1, <1>2 DEF WholeRequests, Served
<1>6. QED
    BY <1>2, <1>4, <1>5 DEF Service!Refuse, WholeRequests, Served

LEMMA StartFileServes ==
    ASSUME IInv, Replies, StartFile
    PROVE  Service!Begin(asked)
<1>1. /\ pc = "handle" /\ pc' = "send" /\ UNCHANGED <<asked, next, sent>>
      /\ Status(Request[asked]) = 200 /\ Write(conn[cur], 200)
    BY DEF StartFile, job
<1>2. Service!Turn(asked) /\ asked \in Clients /\ conn[cur] = asked
    BY <1>1, AskedHasItsTurn
<1>3. Request[asked] = "file"
    BY <1>1 DEF Status
<1>4. Service!Put(asked, 200)
    BY <1>1, <1>2, WriteIsPut
<1>5. WholeRequests' = WholeRequests /\ Served' = asked
    BY <1>1 DEF WholeRequests, Served
<1>6. QED
    BY <1>1, <1>2, <1>3, <1>4, <1>5 DEF Service!Begin, WholeRequests, Served

LEMMA SendChunkServes ==
    ASSUME IInv, SendChunk
    PROVE  Service!Chunk
<1>1. /\ pc = "send" /\ next <= Chunks[asked] /\ next' = next + 1
      /\ Write(conn[cur], next) /\ UNCHANGED <<pc, asked, sent>>
    BY DEF SendChunk
<1>2. conn[cur] = asked /\ asked # None
    BY <1>1, AskedClient, Basics
<1>3. Served = asked /\ Served' = Served /\ WholeRequests' = WholeRequests
    BY <1>1 DEF Served, WholeRequests
<1>4. Service!Put(asked, next)
    BY <1>1, <1>2, WriteIsPut
<1>5. QED
    BY <1>1, <1>2, <1>3, <1>4 DEF Service!Chunk, Served, WholeRequests

LEMMA FinishFileServes ==
    ASSUME IInv, FinishFile
    PROVE  Service!End
<1>1. /\ pc = "send" /\ pc' = "loop" /\ next > Chunks[asked] /\ next' = 1
      /\ UNCHANGED <<sent, stream, lost>>
    BY DEF FinishFile, Finish, replies
<1>2. asked # None
    BY <1>1, AskedClient, Basics
<1>3. Served = asked /\ Served' = None /\ WholeRequests' = WholeRequests
    BY <1>1 DEF Served, WholeRequests
<1>4. QED
    BY <1>1, <1>2, <1>3 DEF Service!End, Served, WholeRequests

\* For its clients the server is FileService: whatever it does with descriptors, slots and
\* events is a stutter, and what it writes is the next thing that is due to the one client
\* whose turn it is (server.c:120-191).
THEOREM ClientsAreServedInTurn == Spec => ServesInTurn
<1>1. Init => Service!Init
  <2> SUFFICES ASSUME Init PROVE Service!Init
      OBVIOUS
  <2>1. WholeRequests = {} /\ Served = None
      BY Basics DEF Init, Empty, WholeRequests, Served
  <2>2. QED
      BY <2>1, ServiceIs DEF Init
<1>2. IInv /\ Replies /\ [Next]_vars => [Service!Next]_(Service!vars)
  <2> SUFFICES ASSUME IInv, Replies, [Next]_vars
               PROVE  Service!Next \/ UNCHANGED Service!vars
      OBVIOUS
  <2>1. TypeOK
      BY DEF IInv
  <2>2. CASE EpollWait \/ AcceptConn \/ Overruns \/ BrokenPipe
    <3>1. UNCHANGED <<sent, next, stream, lost>> /\ Served' = Served
        BY <2>2, OverrunsLeaveAllElse
           DEF EpollWait, AcceptConn, BrokenPipe, job, kernel, replies, Served
    <3>2. QED
        BY <3>1, QuietServes
  <2>3. CASE \E f \in Slots : RecvData(f) \/ RecvEnd(f)
    <3>1. UNCHANGED <<sent, next, stream, lost>> /\ Served' = Served
      <4>1. ASSUME NEW f \in Slots, RecvData(f)
            PROVE  UNCHANGED <<sent, next, stream, lost>> /\ Served' = Served
          BY <4>1 DEF RecvData, Arrived, job, replies, Served
      <4>2. ASSUME NEW f \in Slots, RecvEnd(f)
            PROVE  UNCHANGED <<sent, next, stream, lost>> /\ Served' = Served
          BY <4>2 DEF RecvEnd, job, replies, Served
      <4>3. QED
          BY <2>3, <4>1, <4>2
    <3>2. QED
        BY <3>1, QuietServes
  <2>4. CASE Refuse
    <3>1. asked \in Clients /\ Service!Refuse(asked)
        BY <2>4, AskedHasItsTurn, RefuseServes DEF Refuse
    <3>2. QED
        BY <3>1 DEF Service!Next
  <2>5. CASE StartFile
    <3>1. asked \in Clients /\ Service!Begin(asked)
        BY <2>5, AskedHasItsTurn, StartFileServes DEF StartFile
    <3>2. QED
        BY <3>1 DEF Service!Next
  <2>6. CASE SendChunk
      BY <2>6, SendChunkServes DEF Service!Next
  <2>7. CASE FinishFile
      BY <2>7, FinishFileServes DEF Service!Next
  <2>8. ASSUME NEW c \in Clients, Client(c)
        PROVE  Service!Next \/ UNCHANGED Service!vars
    <3>1. CASE Send(c)
        BY <2>1, <3>1, SendServes DEF Service!Next
    <3>2. CASE Connect(c) \/ HangUp(c) \/ ResetArrives(c) \/ Drain(c)
      <4>1. UNCHANGED <<sent, next, stream, lost>> /\ Served' = Served
          BY <3>2 DEF Connect, HangUp, ResetArrives, Drain, server, replies, Served
      <4>2. QED
          BY <4>1, QuietServes
    <3>3. QED
        BY <2>8, <3>1, <3>2 DEF Client
  <2>9. CASE UNCHANGED vars
    <3>1. UNCHANGED <<sent, next, stream, lost>> /\ Served' = Served
        BY <2>9 DEF vars, server, kernel, Served
    <3>2. QED
        BY <3>1, QuietServes
  <2>10. QED
      BY <2>2, <2>3, <2>4, <2>5, <2>6, <2>7, <2>8, <2>9 DEF Next, Server, Overruns
<1>3. Spec => [](IInv /\ Replies)
    BY Inductive, RepliesInductive, PTL
<1>4. QED
    BY <1>1, <1>2, <1>3, PTL DEF Spec, ServesInTurn, Service!Spec
=============================================================================

----------------------------- MODULE IPC_proofs -----------------------------
(* Proofs about IPC, for any number of copies, clients and starts.         *)
EXTENDS IPC, TLAPS

USE CopyAssumption

\* A name that stands for a copy stands for one that runs and has its handlers;
\* a name that stands for a dead socket was left by a copy that was killed.
NameInv ==
    /\ pc   \in [Copies -> {"off", "started"} \cup Handlers]
    /\ file \in Copies \cup {NoFile, Stale}
    /\ file \in Copies => pc[file] \in Bound
    /\ file = Stale => crashed

\* What becomes of the name when a copy that does not have it leaves, and when
\* one is killed or closes its server.
LEMMA LeavesAlone ==
    ASSUME NameInv, NEW p \in Copies, file # p, Die(p), UNCHANGED <<file, crashed>>
    PROVE  NameInv'
  BY DEF NameInv, Die, Goto, Bound, Handlers

LEMMA CrashKeepsNameInv ==
    ASSUME NameInv, NEW p \in Copies, Crash(p)
    PROVE  NameInv'
<1>1. /\ pc' \in [Copies -> {"off", "started"} \cup Handlers]
      /\ \A q \in Copies \ {p} : pc'[q] = pc[q]
      /\ file' \in Copies \cup {NoFile, Stale}
  BY DEF NameInv, Crash, Die, Goto, Bound, Handlers
<1>2. file' \in Copies => pc'[file'] \in Bound
  BY <1>1 DEF NameInv, Crash
<1>3. file' = Stale => crashed'
  <2>1. CASE file = p
    BY <2>1 DEF NameInv, Crash, Handlers
  <2>2. CASE file # p
    BY <2>2 DEF NameInv, Crash
  <2>3. QED
    BY <2>1, <2>2
<1>4. QED
  BY <1>1, <1>2, <1>3 DEF NameInv

LEMMA CloseKeepsNameInv ==
    ASSUME NameInv, NEW p \in Copies, CloseServer(p)
    PROVE  NameInv'
  BY DEF NameInv, CloseServer, Die, Goto, Bound, Handlers

\* A move of a copy that keeps whatever name it has.
LEMMA MovesKeepNameInv ==
    ASSUME NameInv, NEW p \in Copies, NEW l, Goto(p, l),
           l \in {"started", "ready"} \cup Bound,
           pc[p] \in Bound => l \in Bound,
           UNCHANGED <<file, crashed>>
    PROVE  NameInv'
  BY DEF NameInv, Goto, Bound, Handlers

LEMMA NameInvAlways == Spec => []NameInv
<1>1. Init => NameInv
  BY DEF Init, NameInv
<1>2. NameInv /\ [Next]_vars => NameInv'
  <2> SUFFICES ASSUME NameInv, [Next]_vars PROVE NameInv'
    OBVIOUS
  <2>1. ASSUME NEW p \in Copies, Start(p) PROVE NameInv'
    BY <2>1, MovesKeepNameInv DEF Start, Bound
  <2>2. ASSUME NEW p \in Copies, NoConfig(p) PROVE NameInv'
    BY <2>2, LeavesAlone DEF NoConfig, NameInv, Bound
  <2>3. ASSUME NEW p \in Copies, InstallHandlers(p) PROVE NameInv'
    BY <2>3, MovesKeepNameInv DEF InstallHandlers, Bound
  <2>4. ASSUME NEW p \in Copies, Bind(p) PROVE NameInv'
    BY <2>4 DEF Bind, NameInv, Goto, Bound, Handlers
  <2>5. ASSUME NEW p \in Copies, BindFails(p) PROVE NameInv'
    BY <2>5, LeavesAlone DEF BindFails, NameInv, Bound
  <2>6. ASSUME NEW p \in Copies, Listen(p) PROVE NameInv'
    BY <2>6, MovesKeepNameInv DEF Listen, Bound
  <2>7. ASSUME NEW p \in Copies, Accept(p) PROVE NameInv'
    BY <2>7, MovesKeepNameInv DEF Accept, Bound
  <2>8. ASSUME NEW p \in Copies, ReadMessage(p) \/ ReadEnd(p) \/ Reply(p)
        PROVE  NameInv'
    BY <2>8, MovesKeepNameInv DEF ReadMessage, ReadEnd, Reply, Bound
  <2>9. ASSUME NEW p \in Copies, BrokenPipe(p) \/ Kill(p) PROVE NameInv'
    BY <2>9, CrashKeepsNameInv DEF BrokenPipe, Kill
  <2>10. ASSUME NEW p \in Copies, AcceptFails(p) \/ CleanExit(p) PROVE NameInv'
    BY <2>10, CloseKeepsNameInv DEF AcceptFails, CleanExit
  <2>11. ASSUME NEW c \in Clients, Connect(c) \/ SendMessage(c) \/ Receive(c) \/ HangUp(c)
         PROVE  NameInv'
    BY <2>11 DEF Connect, SendMessage, Receive, HangUp, copies, NameInv
  <2>12. CASE UNCHANGED vars
    BY <2>12 DEF vars, copies, NameInv
  <2>13. QED
    BY <2>1, <2>2, <2>3, <2>4, <2>5, <2>6, <2>7, <2>8, <2>9, <2>10, <2>11,
       <2>12 DEF Next, Serve
<1>3. QED
  BY <1>1, <1>2, PTL DEF Spec

\* After clean stops alone the name is free: create_server can bind again
\* (server.h:74), however many copies were started, answered and stopped.
THEOREM CleanStopsFreeTheName == Spec => []CleanStopsAllowRestart
<1>1. NameInv => CleanStopsAllowRestart
  BY DEF NameInv, CleanStopsAllowRestart, Bound
<1>2. QED
  BY <1>1, NameInvAlways, PTL

\* A copy that serves loses its name only to the end of another copy that had
\* its handlers: bind never takes over a name in use (server.h:74-77).
THEOREM NamesAreKept == Spec => NameIsKept
<1> DEFINE Kept == \A p \in Copies :
          file = p /\ pc[p] \in Listening /\ pc'[p] \in Listening /\ file' # p
             => \E q \in Copies \ {p} :
                   pc[q] \in Handlers /\ pc'[q] = "off" /\ file' = NoFile
<1>1. NameInv /\ [Next]_vars => [Kept]_vars
  <2> SUFFICES ASSUME NameInv, Next, NEW p \in Copies, file = p,
                      pc[p] \in Listening, pc'[p] \in Listening, file' # p
               PROVE  \E q \in Copies \ {p} :
                         pc[q] \in Handlers /\ pc'[q] = "off" /\ file' = NoFile
    BY DEF Kept
  <2>1. ASSUME NEW q \in Copies, Crash(q) PROVE FALSE
    BY <2>1 DEF Crash, Die, Goto, NameInv, Listening
  <2>2. ASSUME NEW q \in Copies, pc[q] \in Handlers, CloseServer(q)
        PROVE  q # p /\ pc'[q] = "off" /\ file' = NoFile
    BY <2>2 DEF CloseServer, Die, Goto, NameInv, Listening
  <2>3. ASSUME NEW q \in Copies, AcceptFails(q) \/ CleanExit(q)
        PROVE  pc[q] \in Handlers /\ CloseServer(q)
    BY <2>3 DEF AcceptFails, CleanExit, Handlers, Bound
  <2>4. \A q \in Copies : ~(BrokenPipe(q) \/ Kill(q))
    BY <2>1 DEF BrokenPipe, Kill
  <2>5. \A q \in Copies :
           ~(\/ Start(q) \/ NoConfig(q) \/ InstallHandlers(q) \/ BindFails(q)
             \/ Listen(q) \/ Accept(q) \/ ReadMessage(q) \/ ReadEnd(q) \/ Reply(q))
    BY DEF Start, NoConfig, InstallHandlers, BindFails, Listen, Accept,
           ReadMessage, ReadEnd, Reply
  <2>6. \A q \in Copies : ~Bind(q)
    BY DEF Bind
  <2>7. \A c \in Clients : ~(Connect(c) \/ SendMessage(c) \/ Receive(c) \/ HangUp(c))
    BY DEF Connect, SendMessage, Receive, HangUp, copies
  <2>8. PICK q \in Copies : AcceptFails(q) \/ CleanExit(q)
    BY <2>4, <2>5, <2>6, <2>7 DEF Next, Serve
  <2>9. QED
    BY <2>2, <2>3, <2>8
<1>2. QED
  BY <1>1, NameInvAlways, PTL DEF Spec, NameIsKept

-----------------------------------------------------------------------------
\* Where the clients are: in one queue, once, or served, and never after an end.
HasPlace ==
    /\ \A p \in Copies : \A n, m \in DOMAIN queue[p] : queue[p][n] = queue[p][m] => n = m
    /\ \A p \in Copies : \A n \in DOMAIN queue[p] :
          queue[p][n] # serving[p] /\ st[queue[p][n]] \in {"queued", "gone"}
    /\ \A p \in Copies : serving[p] # Nobody => st[serving[p]] \in {"open", "gone"}
    /\ \A p \in Copies : queue[p] # <<>> => pc[p] \in Listening
    /\ \A p, q \in Copies : p # q => Cut(p) \cap Cut(q) = {}
    /\ \A c \in Clients : st[c] \in {"queued", "open"} => \E p \in Copies : c \in Cut(p)

PlaceInv == TypeOK /\ HasPlace

LEMMA PlacesStart == Init => PlaceInv
<1> SUFFICES ASSUME Init PROVE PlaceInv
  OBVIOUS
<1>1. /\ 0 \in 0 .. MaxStarts /\ 0 \in 0 .. MaxMsgs /\ <<>> \in Seq(Clients)
      /\ \A p \in Copies : serving[p] = Nobody /\ pc[p] = "off"
      /\ 0 \in 0 .. AnswerCap
  BY CopyAssumption DEF Init
<1>a. TypeOK
  <2>1. queue \in [Copies -> Seq(Clients)]
    BY <1>1 DEF Init
  <2>2. QED
    BY <1>1, <2>1 DEF Init, TypeOK
<1>2. HasPlace
  BY DEF Init, HasPlace, Cut
<1>3. QED
  BY <1>a, <1>2 DEF PlaceInv

\* A copy that moves on, with the connections that it has.
LEMMA MovesKeepPlaces ==
    ASSUME PlaceInv, NEW p \in Copies, NEW l, Goto(p, l), l \in {"off", "started"} \cup Handlers,
           pc[p] \in Listening => l \in Listening,
           pc[p] \in {"read", "reply"} <=> l \in {"read", "reply"},
           starts' \in 0 .. MaxStarts, unread' \in [Clients -> 0 .. MaxMsgs],
           answers' \in [Clients -> 0 .. AnswerCap],
           file' \in Copies \cup {NoFile, Stale},
           UNCHANGED <<queue, serving, crashed, st>>
    PROVE  PlaceInv'
<1>1. pc' \in [Copies -> {"off", "started"} \cup Handlers] /\ pc'[p] = l
      /\ \A q \in Copies \ {p} : pc'[q] = pc[q]
  BY DEF PlaceInv, TypeOK, Goto
<1>2. TypeOK'
  BY <1>1 DEF PlaceInv, TypeOK
<1>3. \A q \in Copies : Cut(q)' = Cut(q)
  BY DEF Cut
<1>4. HasPlace'
  BY <1>1, <1>3 DEF PlaceInv, HasPlace
<1>5. QED
  BY <1>2, <1>4 DEF PlaceInv

\* A copy that ends leaves nobody behind: who had a connection to it is cut off.
LEMMA EndsKeepPlaces ==
    ASSUME PlaceInv, NEW p \in Copies, Die(p), file' \in Copies \cup {NoFile, Stale},
           crashed' \in BOOLEAN
    PROVE  PlaceInv'
<1>1. /\ pc' = [pc EXCEPT ![p] = "off"] /\ queue' = [queue EXCEPT ![p] = <<>>]
      /\ serving' = [serving EXCEPT ![p] = Nobody]
      /\ st' = [c \in Clients |-> IF c \in Cut(p) /\ st[c] # "gone" THEN "cut" ELSE st[c]]
      /\ UNCHANGED <<starts, answers, unread>>
  BY DEF Die, Goto
<1>2. /\ pc'[p] = "off" /\ queue'[p] = <<>> /\ serving'[p] = Nobody
      /\ \A q \in Copies \ {p} :
            pc'[q] = pc[q] /\ queue'[q] = queue[q] /\ serving'[q] = serving[q]
  BY <1>1 DEF PlaceInv, TypeOK
<1>3. TypeOK'
  <2>1. /\ pc' \in [Copies -> {"off", "started"} \cup Handlers]
        /\ queue' \in [Copies -> Seq(Clients)] /\ serving' \in [Copies -> Clients \cup {Nobody}]
    BY <1>1 DEF PlaceInv, TypeOK
  <2>2. st' \in [Clients -> {"idle", "queued", "open", "gone", "cut"}]
    BY <1>1 DEF PlaceInv, TypeOK
  <2>3. \A q \in Copies : serving'[q] # Nobody <=> pc'[q] \in {"read", "reply"}
    BY <1>2 DEF PlaceInv, TypeOK
  <2>4. QED
    BY <1>1, <2>1, <2>2, <2>3 DEF PlaceInv, TypeOK
<1>4. Cut(p)' = {} /\ \A q \in Copies \ {p} : Cut(q)' = Cut(q)
  BY <1>2, CopyAssumption DEF Cut
<1>5. \A q \in Copies \ {p} : \A c \in Cut(q) : c \in Clients /\ st'[c] = st[c]
  BY <1>1 DEF PlaceInv, HasPlace, Cut
<1>6. \A q \in Copies \ {p} : \A n \in DOMAIN queue[q] : queue[q][n] \in Cut(q)
  BY DEF PlaceInv, TypeOK, Cut
<1>7. \A q \in Copies \ {p} : serving[q] # Nobody => serving[q] \in Cut(q)
  BY DEF PlaceInv, TypeOK, Cut
<1>8. HasPlace'
  <2>1. /\ \A q \in Copies : \A n, m \in DOMAIN queue'[q] : queue'[q][n] = queue'[q][m] => n = m
        /\ \A q \in Copies : queue'[q] # <<>> => pc'[q] \in Listening
    BY <1>2 DEF PlaceInv, HasPlace
  <2>2. \A q \in Copies : \A n \in DOMAIN queue'[q] :
           queue'[q][n] # serving'[q] /\ st'[queue'[q][n]] \in {"queued", "gone"}
    BY <1>2, <1>5, <1>6 DEF PlaceInv, HasPlace
  <2>3. \A q \in Copies : serving'[q] # Nobody => st'[serving'[q]] \in {"open", "gone"}
    BY <1>2, <1>5, <1>7 DEF PlaceInv, HasPlace
  <2>4. \A q, r \in Copies : q # r => Cut(q)' \cap Cut(r)' = {}
    BY <1>4 DEF PlaceInv, HasPlace
  <2>5. ASSUME NEW c \in Clients, st'[c] \in {"queued", "open"}
        PROVE  \E q \in Copies : c \in Cut(q)'
    <3>1. st[c] = st'[c] /\ c \notin Cut(p)
      BY <1>1, <2>5
    <3>2. PICK q \in Copies : c \in Cut(q)
      BY <2>5, <3>1 DEF PlaceInv, HasPlace
    <3>3. QED
      BY <1>4, <3>1, <3>2
  <2>6. QED
    BY <2>1, <2>2, <2>3, <2>4, <2>5 DEF HasPlace
<1>9. QED
  BY <1>3, <1>8 DEF PlaceInv

\* The client at the head of the queue is served instead of waiting.
LEMMA AcceptKeepsPlaces ==
    ASSUME PlaceInv, NEW p \in Copies, Accept(p)
    PROVE  PlaceInv'
<1> DEFINE d == Head(queue[p])
<1>1. /\ pc' = [pc EXCEPT ![p] = "read"] /\ queue' = [queue EXCEPT ![p] = Tail(queue[p])]
      /\ serving' = [serving EXCEPT ![p] = d]
      /\ st' = [st EXCEPT ![d] = IF st[d] = "queued" THEN "open" ELSE st[d]]
      /\ UNCHANGED <<file, starts, crashed, answers, unread>>
      /\ pc[p] = "accept" /\ queue[p] # <<>>
  BY DEF Accept, Goto
<1>2. /\ queue[p] \in Seq(Clients) /\ serving[p] = Nobody
      /\ d \in Clients /\ Tail(queue[p]) \in Seq(Clients) /\ d # Nobody
      /\ 1 \in DOMAIN queue[p] /\ d = queue[p][1]
      /\ \A n \in DOMAIN Tail(queue[p]) :
            n + 1 \in DOMAIN queue[p] /\ n + 1 # 1 /\ Tail(queue[p])[n] = queue[p][n + 1]
      /\ \A n \in DOMAIN queue[p] : n # 1 => n - 1 \in DOMAIN Tail(queue[p])
                                             /\ Tail(queue[p])[n - 1] = queue[p][n]
  <2>1. queue[p] \in Seq(Clients) /\ queue[p] # <<>> /\ serving[p] = Nobody
    BY <1>1 DEF PlaceInv, TypeOK
  <2>2. QED
    BY <2>1
<1> HIDE DEF d
<1>3. /\ pc'[p] = "read" /\ queue'[p] = Tail(queue[p]) /\ serving'[p] = d
      /\ \A q \in Copies \ {p} :
            pc'[q] = pc[q] /\ queue'[q] = queue[q] /\ serving'[q] = serving[q]
  BY <1>1 DEF PlaceInv, TypeOK
<1>4. /\ st[d] \in {"queued", "gone"} /\ st'[d] \in {"open", "gone"}
      /\ \A c \in Clients \ {d} : st'[c] = st[c]
  BY <1>1, <1>2 DEF PlaceInv, HasPlace, TypeOK
<1>5. TypeOK'
  <2>1. /\ pc' \in [Copies -> {"off", "started"} \cup Handlers]
        /\ queue' \in [Copies -> Seq(Clients)] /\ serving' \in [Copies -> Clients \cup {Nobody}]
    BY <1>1, <1>2 DEF PlaceInv, TypeOK, Handlers, Bound
  <2>2. st' \in [Clients -> {"idle", "queued", "open", "gone", "cut"}]
    BY <1>1, <1>2 DEF PlaceInv, TypeOK
  <2>3. \A q \in Copies : serving'[q] # Nobody <=> pc'[q] \in {"read", "reply"}
    <3>1. serving'[p] # Nobody /\ pc'[p] \in {"read", "reply"}
      BY <1>2, <1>3
    <3>2. \A q \in Copies : serving[q] # Nobody <=> pc[q] \in {"read", "reply"}
      BY DEF PlaceInv, TypeOK
    <3>3. QED
      BY <1>3, <3>1, <3>2
  <2>4. QED
    BY <1>1, <2>1, <2>2, <2>3 DEF PlaceInv, TypeOK
<1>6. \A q \in Copies : Cut(q)' = Cut(q)
  <2>1. \A q \in Copies \ {p} : Cut(q)' = Cut(q)
    BY <1>3 DEF Cut
  <2>2. Cut(p)' = Cut(p)
    <3>1. ASSUME NEW c \in Clients
          PROVE  (c = serving'[p] \/ \E n \in DOMAIN queue'[p] : queue'[p][n] = c)
                   <=> (c = serving[p] \/ \E n \in DOMAIN queue[p] : queue[p][n] = c)
      <4>1. c # serving[p]
        BY <1>2, CopyAssumption
      <4>2. ASSUME NEW n \in DOMAIN queue[p], queue[p][n] = c
            PROVE  c = d \/ \E m \in DOMAIN Tail(queue[p]) : Tail(queue[p])[m] = c
        BY <1>2, <4>2
      <4>3. QED
        BY <1>2, <1>3, <4>1, <4>2
    <3>2. QED
      BY <3>1 DEF Cut
  <2>3. QED
    BY <2>1, <2>2
<1>7. HasPlace'
  <2>1. \A q \in Copies : \A n, m \in DOMAIN queue'[q] : queue'[q][n] = queue'[q][m] => n = m
    <3>1. ASSUME NEW n \in DOMAIN Tail(queue[p]), NEW m \in DOMAIN Tail(queue[p]),
                 Tail(queue[p])[n] = Tail(queue[p])[m]
          PROVE  n = m
      <4>1. n + 1 = m + 1
        BY <1>2, <3>1 DEF PlaceInv, HasPlace
      <4>2. n \in Nat /\ m \in Nat
        BY <1>2
      <4>3. QED
        BY <4>1, <4>2
    <3>2. \A n, m \in DOMAIN queue'[p] : queue'[p][n] = queue'[p][m] => n = m
      BY <1>3, <3>1
    <3>3. \A q \in Copies \ {p} : \A n, m \in DOMAIN queue'[q] : queue'[q][n] = queue'[q][m] => n = m
      BY <1>3 DEF PlaceInv, HasPlace
    <3>4. QED
      BY <3>2, <3>3
  <2>2. \A q \in Copies : queue'[q] # <<>> => pc'[q] \in Listening
    BY <1>3 DEF PlaceInv, HasPlace, Listening
  <2>3. ASSUME NEW q \in Copies, NEW n \in DOMAIN queue'[q]
        PROVE  queue'[q][n] # serving'[q] /\ st'[queue'[q][n]] \in {"queued", "gone"}
    <3>1. CASE q = p
      <4>1. /\ n + 1 \in DOMAIN queue[p] /\ n + 1 # 1 /\ queue'[p][n] = queue[p][n + 1]
        BY <1>2, <1>3, <2>3, <3>1
      <4>2. queue[p][n + 1] # d /\ queue[p][n + 1] \in Clients
        BY <1>2, <4>1 DEF PlaceInv, HasPlace
      <4>3. st[queue[p][n + 1]] \in {"queued", "gone"}
        BY <4>1 DEF PlaceInv, HasPlace
      <4>4. st'[queue'[p][n]] = st[queue[p][n + 1]]
        BY <1>4, <4>1, <4>2
      <4>5. QED
        BY <1>3, <3>1, <4>1, <4>2, <4>3, <4>4
    <3>2. CASE q # p
      <4>1. /\ n \in DOMAIN queue[q] /\ queue'[q][n] = queue[q][n] /\ serving'[q] = serving[q]
        BY <1>3, <2>3, <3>2
      <4>2. queue[q][n] \in Cut(q) /\ d \in Cut(p)
        BY <1>2, <4>1 DEF PlaceInv, TypeOK, Cut
      <4>3. queue[q][n] # d /\ queue[q][n] \in Clients
        BY <3>2, <4>2 DEF PlaceInv, HasPlace, Cut
      <4>4. QED
        BY <1>4, <4>1, <4>3 DEF PlaceInv, HasPlace
    <3>3. QED
      BY <3>1, <3>2
  <2>4. ASSUME NEW q \in Copies, serving'[q] # Nobody
        PROVE  st'[serving'[q]] \in {"open", "gone"}
    <3>1. CASE q = p
      BY <1>3, <1>4, <3>1
    <3>2. CASE q # p
      <4>1. serving'[q] = serving[q] /\ serving[q] \in Cut(q) /\ d \in Cut(p)
        BY <1>2, <1>3, <2>4, <3>2 DEF PlaceInv, TypeOK, Cut
      <4>2. serving[q] # d /\ serving[q] \in Clients
        BY <3>2, <4>1 DEF PlaceInv, HasPlace, Cut
      <4>3. QED
        BY <1>4, <2>4, <4>1, <4>2 DEF PlaceInv, HasPlace
    <3>3. QED
      BY <3>1, <3>2
  <2>5. \A c \in Clients : st'[c] \in {"queued", "open"} => \E q \in Copies : c \in Cut(q)'
    <3>1. d \in Cut(p)
      BY <1>2 DEF Cut
    <3>2. QED
      BY <1>4, <1>6, <3>1 DEF PlaceInv, HasPlace
  <2>6. QED
    BY <1>6, <2>1, <2>2, <2>3, <2>4, <2>5 DEF PlaceInv, HasPlace
<1>8. QED
  BY <1>5, <1>7 DEF PlaceInv

\* A client that has hung up is let go.
LEMMA ReadEndKeepsPlaces ==
    ASSUME PlaceInv, NEW p \in Copies, ReadEnd(p)
    PROVE  PlaceInv'
<1>1. /\ pc' = [pc EXCEPT ![p] = "accept"] /\ serving' = [serving EXCEPT ![p] = Nobody]
      /\ UNCHANGED <<file, queue, starts, crashed, clients>>
      /\ st[serving[p]] = "gone" /\ pc[p] = "read"
  BY DEF ReadEnd, Goto
<1>2. /\ pc'[p] = "accept" /\ serving'[p] = Nobody
      /\ \A q \in Copies \ {p} : pc'[q] = pc[q] /\ serving'[q] = serving[q]
  BY <1>1 DEF PlaceInv, TypeOK
<1>3. TypeOK'
  <2>1. /\ pc' \in [Copies -> {"off", "started"} \cup Handlers]
        /\ serving' \in [Copies -> Clients \cup {Nobody}]
    BY <1>1 DEF PlaceInv, TypeOK, Handlers, Bound
  <2>2. \A q \in Copies : serving'[q] # Nobody <=> pc'[q] \in {"read", "reply"}
    BY <1>2 DEF PlaceInv, TypeOK
  <2>3. QED
    BY <1>1, <2>1, <2>2 DEF PlaceInv, TypeOK, clients
<1>4. /\ \A q \in Copies \ {p} : Cut(q)' = Cut(q)
      /\ Cut(p)' = Cut(p) \ {serving[p]}
  <2>1. \A q \in Copies \ {p} : Cut(q)' = Cut(q)
    BY <1>1, <1>2 DEF Cut
  <2>2. \A n \in DOMAIN queue[p] : queue[p][n] # serving[p]
    BY DEF PlaceInv, HasPlace
  <2>3. Nobody \notin Clients
    BY CopyAssumption
  <2>4. Cut(p)' = Cut(p) \ {serving[p]}
    BY <1>1, <1>2, <2>2, <2>3 DEF Cut
  <2>5. QED
    BY <2>1, <2>4
<1>5. HasPlace'
  <2>1. /\ \A q \in Copies : \A n, m \in DOMAIN queue'[q] : queue'[q][n] = queue'[q][m] => n = m
        /\ \A q \in Copies : queue'[q] # <<>> => pc'[q] \in Listening
    BY <1>1, <1>2 DEF PlaceInv, HasPlace, Listening
  <2>2. ASSUME NEW q \in Copies, NEW n \in DOMAIN queue'[q]
        PROVE  queue'[q][n] # serving'[q] /\ st'[queue'[q][n]] \in {"queued", "gone"}
    <3>1. queue'[q] = queue[q] /\ st' = st /\ n \in DOMAIN queue[q] /\ queue[q][n] \in Clients
      BY <1>1, <2>2 DEF clients, PlaceInv, TypeOK
    <3>2. QED
      BY <1>2, <3>1, CopyAssumption DEF PlaceInv, HasPlace
  <2>3. \A q \in Copies : serving'[q] # Nobody => st'[serving'[q]] \in {"open", "gone"}
    BY <1>1, <1>2 DEF PlaceInv, HasPlace, clients
  <2>4. \A q, r \in Copies : q # r => Cut(q)' \cap Cut(r)' = {}
    BY <1>4 DEF PlaceInv, HasPlace
  <2>5. ASSUME NEW c \in Clients, st'[c] \in {"queued", "open"}
        PROVE  \E q \in Copies : c \in Cut(q)'
    <3>1. st[c] \in {"queued", "open"} /\ c # serving[p]
      BY <1>1, <2>5 DEF clients
    <3>2. PICK q \in Copies : c \in Cut(q)
      BY <3>1 DEF PlaceInv, HasPlace
    <3>3. QED
      BY <1>4, <3>1, <3>2
  <2>6. QED
    BY <2>1, <2>2, <2>3, <2>4, <2>5 DEF HasPlace
<1>6. QED
  BY <1>3, <1>5 DEF PlaceInv

\* A client that connects is nowhere yet.
LEMMA ConnectKeepsPlaces ==
    ASSUME PlaceInv, NEW c \in Clients, Connect(c)
    PROVE  PlaceInv'
<1>1. PICK p \in Copies : /\ pc[p] \in Listening
                          /\ queue' = [queue EXCEPT ![p] = Append(queue[p], c)]
  BY DEF Connect
<1>2. /\ st[c] = "idle" /\ st' = [st EXCEPT ![c] = "queued"]
      /\ UNCHANGED <<pc, file, serving, starts, crashed, answers, unread>>
  BY DEF Connect
<1>3. /\ queue[p] \in Seq(Clients) /\ Append(queue[p], c) \in Seq(Clients)
      /\ DOMAIN queue[p] = 1 .. Len(queue[p])
      /\ DOMAIN Append(queue[p], c) = 1 .. Len(queue[p]) + 1
      /\ Append(queue[p], c)[Len(queue[p]) + 1] = c
      /\ \A n \in 1 .. Len(queue[p]) : Append(queue[p], c)[n] = queue[p][n]
  <2>1. queue[p] \in Seq(Clients)
    BY DEF PlaceInv, TypeOK
  <2>2. QED
    BY <2>1
<1>4. /\ queue'[p] = Append(queue[p], c)
      /\ \A q \in Copies \ {p} : queue'[q] = queue[q]
      /\ st'[c] = "queued" /\ \A e \in Clients \ {c} : st'[e] = st[e]
  BY <1>1, <1>2 DEF PlaceInv, TypeOK
<1>5. TypeOK'
  <2>1. /\ queue' \in [Copies -> Seq(Clients)]
        /\ st' \in [Clients -> {"idle", "queued", "open", "gone", "cut"}]
    BY <1>1, <1>2, <1>3 DEF PlaceInv, TypeOK
  <2>2. QED
    BY <1>2, <2>1 DEF PlaceInv, TypeOK
<1>6. /\ \A q \in Copies : c \notin Cut(q)
      /\ \A q \in Copies : \A n \in DOMAIN queue[q] : queue[q][n] # c /\ queue[q][n] \in Clients
      /\ \A q \in Copies : serving[q] # c
  <2>1. \A q \in Copies : \A n \in DOMAIN queue[q] : queue[q][n] # c /\ queue[q][n] \in Clients
    <3>1. ASSUME NEW q \in Copies, NEW n \in DOMAIN queue[q]
          PROVE  queue[q][n] # c /\ queue[q][n] \in Clients
      <4>1. queue[q] \in Seq(Clients)
        BY DEF PlaceInv, TypeOK
      <4>2. queue[q][n] \in Clients
        BY <4>1
      <4>3. st[queue[q][n]] \in {"queued", "gone"}
        BY DEF PlaceInv, HasPlace
      <4>4. QED
        BY <1>2, <4>2, <4>3
    <3>2. QED
      BY <3>1
  <2>2. \A q \in Copies : serving[q] # c
    BY <1>2, CopyAssumption DEF PlaceInv, HasPlace
  <2>3. QED
    BY <2>1, <2>2 DEF Cut
<1>7. /\ \A q \in Copies \ {p} : Cut(q)' = Cut(q)
      /\ Cut(p)' = Cut(p) \cup {c}
  <2>1. \A q \in Copies \ {p} : Cut(q)' = Cut(q)
    BY <1>2, <1>4 DEF Cut
  <2>2. ASSUME NEW e \in Clients
        PROVE  (\E n \in DOMAIN queue'[p] : queue'[p][n] = e)
                 <=> e = c \/ \E n \in DOMAIN queue[p] : queue[p][n] = e
    BY <1>3, <1>4
  <2>3. Cut(p)' = Cut(p) \cup {c}
    BY <1>2, <2>2 DEF Cut
  <2>4. QED
    BY <2>1, <2>3
<1>8. HasPlace'
  <2>1. \A q \in Copies : \A n, m \in DOMAIN queue'[q] : queue'[q][n] = queue'[q][m] => n = m
    <3>1. ASSUME NEW n \in 1 .. Len(queue[p]) + 1, NEW m \in 1 .. Len(queue[p]) + 1,
                 Append(queue[p], c)[n] = Append(queue[p], c)[m]
          PROVE  n = m
      <4>1. Len(queue[p]) \in Nat
        BY <1>3
      <4>2. \A k \in 1 .. Len(queue[p]) + 1 : k = Len(queue[p]) + 1 \/ k \in 1 .. Len(queue[p])
        BY <4>1
      <4>3. QED
        BY <1>3, <1>6, <3>1, <4>2 DEF PlaceInv, HasPlace
    <3>2. \A n, m \in DOMAIN queue'[p] : queue'[p][n] = queue'[p][m] => n = m
      BY <1>3, <1>4, <3>1
    <3>3. \A q \in Copies \ {p} : \A n, m \in DOMAIN queue'[q] : queue'[q][n] = queue'[q][m] => n = m
      BY <1>4 DEF PlaceInv, HasPlace
    <3>4. QED
      BY <3>2, <3>3
  <2>2. \A q \in Copies : queue'[q] # <<>> => pc'[q] \in Listening
    BY <1>1, <1>2, <1>4 DEF PlaceInv, HasPlace
  <2>3. ASSUME NEW q \in Copies, NEW n \in DOMAIN queue'[q]
        PROVE  queue'[q][n] # serving'[q] /\ st'[queue'[q][n]] \in {"queued", "gone"}
    <3>1. CASE n \in DOMAIN queue[q] /\ queue'[q][n] = queue[q][n]
      BY <1>2, <1>4, <1>6, <3>1 DEF PlaceInv, HasPlace
    <3>2. CASE queue'[q][n] = c
      BY <1>2, <1>4, <1>6, <3>2
    <3>3. QED
      <4>1. CASE q = p
        <5>1. n \in 1 .. Len(queue[p]) + 1 /\ Len(queue[p]) \in Nat
          BY <1>3, <1>4, <2>3, <4>1
        <5>2. n = Len(queue[p]) + 1 \/ n \in 1 .. Len(queue[p])
          BY <5>1
        <5>3. QED
          BY <1>3, <1>4, <3>1, <3>2, <4>1, <5>2
      <4>2. CASE q # p
        BY <1>4, <2>3, <3>1, <4>2
      <4>3. QED
        BY <4>1, <4>2
  <2>4. \A q \in Copies : serving'[q] # Nobody => st'[serving'[q]] \in {"open", "gone"}
    BY <1>2, <1>4, <1>6 DEF PlaceInv, HasPlace, TypeOK
  <2>5. \A q, r \in Copies : q # r => Cut(q)' \cap Cut(r)' = {}
    BY <1>6, <1>7 DEF PlaceInv, HasPlace
  <2>6. ASSUME NEW e \in Clients, st'[e] \in {"queued", "open"}
        PROVE  \E q \in Copies : e \in Cut(q)'
    <3>1. CASE e = c
      BY <1>7, <3>1
    <3>2. CASE e # c
      <4>1. PICK q \in Copies : e \in Cut(q)
        BY <1>4, <2>6, <3>2 DEF PlaceInv, HasPlace
      <4>2. e \in Cut(q)'
        BY <1>7, <4>1
      <4>3. QED
        BY <4>2
    <3>3. QED
      BY <3>1, <3>2
  <2>7. QED
    BY <2>1, <2>2, <2>3, <2>4, <2>5, <2>6 DEF HasPlace
<1>9. QED
  BY <1>5, <1>8 DEF PlaceInv

\* What else clients do.
LEMMA ClientsKeepPlaces ==
    ASSUME PlaceInv, NEW c \in Clients, SendMessage(c) \/ Receive(c) \/ HangUp(c)
    PROVE  PlaceInv'
<1>1. UNCHANGED copies /\ \A q \in Copies : Cut(q)' = Cut(q)
  BY DEF SendMessage, Receive, HangUp, copies, Cut
<1>2. CASE SendMessage(c) \/ Receive(c)
  <2>1. /\ MaxMsgs \in Nat /\ AnswerCap \in Nat
        /\ unread \in [Clients -> 0 .. MaxMsgs] /\ answers \in [Clients -> 0 .. AnswerCap]
    BY CopyAssumption DEF PlaceInv, TypeOK
  <2>2. unread' \in [Clients -> 0 .. MaxMsgs] /\ answers' \in [Clients -> 0 .. AnswerCap]
    <3>1. CASE SendMessage(c)
      BY <2>1, <3>1 DEF SendMessage
    <3>2. CASE Receive(c)
      BY <2>1, <3>2 DEF Receive
    <3>3. QED
      BY <1>2, <3>1, <3>2
  <2>3. st' = st
    BY <1>2 DEF SendMessage, Receive
  <2>4. TypeOK'
    BY <1>1, <2>2, <2>3 DEF PlaceInv, TypeOK, copies
  <2>5. HasPlace'
    BY <1>1, <2>3 DEF PlaceInv, HasPlace, copies
  <2>6. QED
    BY <2>4, <2>5 DEF PlaceInv
<1>3. CASE HangUp(c)
  <2>1. st' = [st EXCEPT ![c] = "gone"] /\ UNCHANGED <<answers, unread>>
    BY <1>3 DEF HangUp
  <2>2. st' \in [Clients -> {"idle", "queued", "open", "gone", "cut"}]
        /\ st'[c] = "gone" /\ \A e \in Clients \ {c} : st'[e] = st[e]
    BY <2>1 DEF PlaceInv, TypeOK
  <2>3. TypeOK'
    BY <1>1, <2>1, <2>2 DEF PlaceInv, TypeOK, copies
  <2>4. HasPlace'
    <3>1. \A q \in Copies : \A n \in DOMAIN queue[q] : queue[q][n] \in Clients
      BY DEF PlaceInv, TypeOK
    <3>2. \A q \in Copies : serving[q] # Nobody => serving[q] \in Clients
      BY DEF PlaceInv, TypeOK
    <3>3. QED
      BY <1>1, <2>2, <3>1, <3>2 DEF PlaceInv, HasPlace, copies
  <2>5. QED
    BY <2>3, <2>4 DEF PlaceInv
<1>4. QED
  BY <1>2, <1>3

LEMMA PlacesAlways == Spec => []PlaceInv
<1>1. PlaceInv /\ [Next]_vars => PlaceInv'
  <2> SUFFICES ASSUME PlaceInv, [Next]_vars PROVE PlaceInv'
    OBVIOUS
  <2>1. file \in Copies \cup {NoFile, Stale} /\ crashed \in BOOLEAN
    BY DEF PlaceInv, TypeOK
  <2>2. ASSUME NEW p \in Copies, Die(p), file' \in {file, NoFile, Stale}, crashed' \in BOOLEAN
        PROVE  PlaceInv'
    BY <2>1, <2>2, EndsKeepPlaces
  <2>3. /\ starts \in 0 .. MaxStarts /\ MaxStarts \in Nat
        /\ unread \in [Clients -> 0 .. MaxMsgs] /\ answers \in [Clients -> 0 .. AnswerCap]
    BY CopyAssumption DEF PlaceInv, TypeOK
  <2>4. ASSUME NEW p \in Copies, Start(p)
        PROVE  PlaceInv'
    <3>1. starts' \in 0 .. MaxStarts
      BY <2>3, <2>4 DEF Start
    <3>2. QED
      BY <2>1, <2>3, <2>4, <3>1, MovesKeepPlaces DEF Start, Listening, clients
  <2>5. ASSUME NEW p \in Copies, InstallHandlers(p) \/ Bind(p) \/ Listen(p)
        PROVE  PlaceInv'
    <3>1. CASE InstallHandlers(p)
      BY <2>1, <2>3, <3>1, MovesKeepPlaces DEF InstallHandlers, Listening, Handlers, clients
    <3>2. CASE Bind(p)
      BY <2>1, <2>3, <3>2, MovesKeepPlaces DEF Bind, Listening, Handlers, Bound, clients
    <3>3. CASE Listen(p)
      BY <2>1, <2>3, <3>3, MovesKeepPlaces DEF Listen, Listening, Handlers, Bound, clients
    <3>4. QED
      BY <2>5, <3>1, <3>2, <3>3
  <2>6. ASSUME NEW p \in Copies, ReadMessage(p)
        PROVE  PlaceInv'
    <3>1. PICK n \in 1 .. unread[serving[p]] :
             unread' = [unread EXCEPT ![serving[p]] = unread[serving[p]] - n]
      BY <2>6 DEF ReadMessage
    <3>2. serving[p] \in Clients
      BY <2>6, CopyAssumption DEF ReadMessage, PlaceInv, TypeOK
    <3>3. unread' \in [Clients -> 0 .. MaxMsgs]
      <4>1. unread[serving[p]] \in 0 .. MaxMsgs /\ MaxMsgs \in Nat
        BY <2>3, <3>2, CopyAssumption
      <4>2. unread[serving[p]] - n \in 0 .. MaxMsgs
        BY <4>1
      <4>3. QED
        BY <2>3, <3>1, <4>2
    <3>4. QED
      BY <2>1, <2>3, <2>6, <3>3, MovesKeepPlaces DEF ReadMessage, Listening, Handlers, Bound
  <2>a. ASSUME NEW p \in Copies, Reply(p)
        PROVE  PlaceInv'
    <3>1. /\ serving[p] \in Clients /\ answers[serving[p]] < AnswerCap
          /\ answers' = [answers EXCEPT ![serving[p]] = answers[serving[p]] + 1]
      BY <2>a, CopyAssumption DEF Reply, PlaceInv, TypeOK
    <3>2. answers' \in [Clients -> 0 .. AnswerCap]
      BY <2>3, <3>1, CopyAssumption
    <3>3. QED
      BY <2>1, <2>3, <2>a, <3>2, MovesKeepPlaces DEF Reply, Listening, Handlers, Bound
  <2>7. ASSUME NEW p \in Copies,
               NoConfig(p) \/ BindFails(p) \/ AcceptFails(p) \/ CleanExit(p) \/ BrokenPipe(p) \/ Kill(p)
        PROVE  PlaceInv'
    <3>1. Die(p) /\ file' \in {file, NoFile, Stale} /\ crashed' \in BOOLEAN
      BY <2>1, <2>7 DEF NoConfig, BindFails, AcceptFails, CleanExit, BrokenPipe, Kill, Crash, CloseServer
    <3>2. QED
      BY <2>2, <3>1
  <2>8. ASSUME NEW c \in Clients, Connect(c) \/ SendMessage(c) \/ Receive(c) \/ HangUp(c)
        PROVE  PlaceInv'
    BY <2>8, ConnectKeepsPlaces, ClientsKeepPlaces
  <2>9. CASE UNCHANGED vars
    <3>1. UNCHANGED copies /\ UNCHANGED clients /\ \A q \in Copies : Cut(q)' = Cut(q)
      BY <2>9 DEF vars, copies, clients, Cut
    <3>2. TypeOK'
      BY <3>1 DEF PlaceInv, TypeOK, copies, clients
    <3>3. HasPlace'
      BY <3>1 DEF PlaceInv, HasPlace, copies, clients
    <3>4. QED
      BY <3>2, <3>3 DEF PlaceInv
  <2>10. QED
    BY <2>4, <2>5, <2>6, <2>a, <2>7, <2>8, <2>9, AcceptKeepsPlaces, ReadEndKeepsPlaces DEF Next, Serve
<1>2. QED
  BY <1>1, PlacesStart, PTL DEF Spec

\* Every variable of the daemon, its copies and its clients keeps its type.
THEOREM TypeCorrect == Spec => []TypeOK
<1>1. PlaceInv => TypeOK
  BY DEF PlaceInv
<1>2. QED
  BY <1>1, PlacesAlways, PTL

\* Each client has one copy that waits for it or has it in its queue, and a copy is never
\* left with a client that is neither there nor gone (server.h:95-113).
THEOREM ClientsHaveOneCopy == Spec => []OneCopyPerClient
<1>1. PlaceInv => OneCopyPerClient
  <2> SUFFICES ASSUME PlaceInv PROVE OneCopyPerClient
    OBVIOUS
  <2>1. ASSUME NEW p \in Copies, Cut(p) # {}
        PROVE  pc[p] \in Listening
    <3>1. serving[p] # Nobody \/ queue[p] # <<>>
      BY <2>1, CopyAssumption DEF Cut
    <3>2. QED
      BY <3>1 DEF PlaceInv, TypeOK, HasPlace, Listening
  <2>2. ASSUME NEW c \in Clients, st[c] \in {"queued", "open"}
        PROVE  \E p \in Copies : c \in Cut(p) /\ (st[c] = "open" <=> serving[p] = c)
    <3>1. PICK p \in Copies : c \in Cut(p)
      BY <2>2 DEF PlaceInv, HasPlace
    <3>2. c # Nobody
      BY CopyAssumption
    <3>3. serving[p] = c => st[c] = "open"
      BY <2>2, <3>2 DEF PlaceInv, HasPlace
    <3>4. serving[p] # c => st[c] = "queued"
      BY <2>2, <3>1 DEF PlaceInv, HasPlace, Cut
    <3>5. QED
      BY <3>1, <3>3, <3>4
  <2>3. QED
    BY <2>1, <2>2 DEF PlaceInv, HasPlace, OneCopyPerClient
<1>2. QED
  BY <1>1, PlacesAlways, PTL
=============================================================================

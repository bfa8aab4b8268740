---------------------------- MODULE EventLoopProofs ----------------------------
(***************************************************************************)
(* Proofs about EventLoop, for every number of descriptors, listeners and  *)
(* clients.  `Aligned` is the inductive invariant: the types, the three    *)
(* vectors in step, the limit on their length and the open descriptors     *)
(* only hold together, because SlotOf and ClientOf search by descriptor    *)
(* and find the visited client only when the vectors are in step.          *)
(***************************************************************************)
EXTENDS EventLoop, TLAPS

Aligned == TypeOK /\ VectorsAligned /\ CapacityKept /\ PolledAreOpen

-------------------------------------------------------------------------------
(* Erasing and searching                                                       *)

\* erase() returns a vector one element shorter, the tail moved back by one.
LEMMA EraseFacts ==
    ASSUME NEW S, NEW s \in Seq(S), NEW i \in 1 .. Len(s)
    PROVE  /\ Erase(s, i) \in Seq(S)
           /\ Len(Erase(s, i)) = Len(s) - 1
           /\ \A j \in 1 .. (Len(s) - 1) :
                 Erase(s, i)[j] = IF j < i THEN s[j] ELSE s[j + 1]
  BY DEF Erase

\* One client_socket--.
LEMMA PointerBack ==
    ASSUME NEW c \in Client, c.sock \in Nat \ {0}
    PROVE  LET d == [c EXCEPT !.sock = c.sock - 1]
           IN  d \in Client /\ d.sock = c.sock - 1
  BY DEF Client

\* The fix-up of DeleteClient(): when every pointer was its own position before,
\* it is so again.
LEMMA EraseClientFacts ==
    ASSUME NEW s \in Seq(Client), NEW i \in 1 .. Len(s),
           \A k \in 1 .. Len(s) : s[k].sock = k
    PROVE  /\ EraseClient(s, i) \in Seq(Client)
           /\ Len(EraseClient(s, i)) = Len(s) - 1
           /\ \A j \in 1 .. (Len(s) - 1) : EraseClient(s, i)[j].sock = j
<1>1. ASSUME NEW j \in 1 .. (Len(s) - 1)
      PROVE  /\ s[j] \in Client /\ s[j].sock = j
             /\ s[j + 1] \in Client /\ s[j + 1].sock = j + 1
  BY <1>1
<1>2. ASSUME NEW j \in 1 .. (Len(s) - 1)
      PROVE  LET c == [s[j + 1] EXCEPT !.sock = s[j + 1].sock - 1]
             IN  c \in Client /\ c.sock = j
  BY <1>1, PointerBack, <1>2
<1>3. ASSUME NEW j \in 1 .. (Len(s) - 1)
      PROVE  EraseClient(s, i)[j] \in Client /\ EraseClient(s, i)[j].sock = j
  BY <1>1, <1>2, <1>3 DEF EraseClient
<1>. QED  BY <1>3 DEF EraseClient

\* Limit is a natural number.
LEMMA LimitType == Limit \in Nat
  BY SizeAssumption DEF Limit

\* When the vectors are in step, the searches for the descriptor at k find k.
LEMMA SearchFindsPosition ==
    ASSUME Aligned, NEW k \in DOMAIN pfds
    PROVE  /\ SlotOf(sockets, pfds[k].fd) = k
           /\ ClientOf(pfds[k].fd) = k
<1>1. /\ DOMAIN sockets = DOMAIN pfds /\ DOMAIN clients = DOMAIN pfds
      /\ DOMAIN pfds = 1 .. Len(pfds)
  BY DEF Aligned, TypeOK, VectorsAligned
<1>2. \A p \in DOMAIN sockets : sockets[p].fd = pfds[k].fd <=> p = k
  BY <1>1 DEF Aligned, VectorsAligned
<1>3. \A c \in DOMAIN clients : sockets[clients[c].sock].fd = pfds[k].fd <=> c = k
  BY <1>1, <1>2 DEF Aligned, VectorsAligned
<1>4. SlotOf(sockets, pfds[k].fd) = k
  BY <1>1, <1>2 DEF SlotOf
<1>5. ClientOf(pfds[k].fd) = k
  BY <1>1, <1>3 DEF ClientOf
<1>. QED  BY <1>4, <1>5

\* What every action of the serve loop starts from.
LEMMA VisitFacts ==
    ASSUME Aligned, Visiting
    PROVE  /\ at \in 1 .. Len(pfds) /\ Slot = at /\ Clt = at /\ Ptr = at
           /\ at \in 1 .. Len(sockets) /\ at \in 1 .. Len(clients)
           /\ Cur \in PollFd /\ Cur.fd = sockets[at].fd
           /\ sockets[at] \in ClientSocket /\ clients[at] \in Client
<1>1. at \in DOMAIN pfds
  BY DEF Visiting
<1>2. SlotOf(sockets, pfds[at].fd) = at /\ ClientOf(pfds[at].fd) = at
  BY <1>1, SearchFindsPosition
<1>3. DOMAIN pfds = 1 .. Len(pfds) /\ Len(sockets) = Len(pfds) /\ Len(clients) = Len(pfds)
  BY DEF Aligned, TypeOK, VectorsAligned
<1>. QED
  BY <1>1, <1>2, <1>3 DEF Slot, Clt, Ptr, Cur, Aligned, TypeOK, VectorsAligned

\* What an update in place must respect: the vectors keep their lengths, their
\* descriptors and their pointers.
InPlace ==
    /\ pfds' \in Seq(PollFd) /\ Len(pfds') = Len(pfds)
    /\ clients' \in Seq(Client) /\ Len(clients') = Len(clients)
    /\ sockets' \in Seq(ClientSocket) /\ Len(sockets') = Len(sockets)
    /\ \A k \in 1 .. Len(pfds) :
          /\ pfds'[k].fd = pfds[k].fd
          /\ sockets'[k].fd = sockets[k].fd
          /\ clients'[k].sock = clients[k].sock

LEMMA InPlaceKeeps ==
    ASSUME Aligned, InPlace,
           pc' \in {"poll", "accept", "serve"}, pc \in {"poll", "accept", "serve"},
           at' \in Nat \ {0}, running' \in BOOLEAN, ready' \in SUBSET (1 .. NListeners),
           UNCHANGED <<client_count, open>>
    PROVE  Aligned'
<1>1. TypeOK'
  BY DEF Aligned, TypeOK, InPlace
<1>2. DOMAIN pfds' = 1 .. Len(pfds) /\ DOMAIN pfds = 1 .. Len(pfds)
  BY DEF Aligned, TypeOK, InPlace
<1>3. VectorsAligned'
  BY <1>2 DEF Aligned, InPlace, VectorsAligned
<1>4. CapacityKept'
  BY DEF Aligned, InPlace, CapacityKept
<1>5. PolledAreOpen'
  BY <1>2 DEF Aligned, InPlace, PolledAreOpen, Alive
<1>. QED  BY <1>1, <1>3, <1>4, <1>5 DEF Aligned

\* Dropping the visited client keeps the vectors in step.
LEMMA DeleteKeeps ==
    ASSUME Aligned, Visiting, Delete
    PROVE  Aligned'
<1>. DEFINE n == Len(pfds)
<1>1. /\ at \in 1 .. n /\ Slot = at /\ Clt = at /\ Cur.fd = pfds[at].fd
      /\ Len(sockets) = n /\ Len(clients) = n /\ n \in Nat /\ DOMAIN pfds = 1 .. n
  BY VisitFacts DEF Aligned, VectorsAligned, TypeOK, Cur
<1>2. /\ pfds \in Seq(PollFd) /\ sockets \in Seq(ClientSocket) /\ clients \in Seq(Client)
      /\ \A k \in 1 .. n : clients[k].sock = k /\ sockets[k].fd = pfds[k].fd
      /\ \A j, k \in 1 .. n : pfds[j].fd = pfds[k].fd => j = k
      /\ client_count = n
  BY <1>1 DEF Aligned, TypeOK, VectorsAligned, CapacityKept
<1>3. /\ pfds' \in Seq(PollFd) /\ Len(pfds') = n - 1
      /\ \A j \in 1 .. (n - 1) : pfds'[j] = IF j < at THEN pfds[j] ELSE pfds[j + 1]
  <2>1. pfds' = Erase(pfds, at)
    BY DEF Delete
  <2>2. pfds \in Seq(PollFd) /\ at \in 1 .. Len(pfds)
    BY <1>1, <1>2
  <2>3. /\ Erase(pfds, at) \in Seq(PollFd) /\ Len(Erase(pfds, at)) = Len(pfds) - 1
        /\ \A j \in 1 .. (Len(pfds) - 1) :
              Erase(pfds, at)[j] = IF j < at THEN pfds[j] ELSE pfds[j + 1]
    BY <2>2, EraseFacts
  <2>. QED  BY <2>1, <2>3
<1>4. /\ sockets' \in Seq(ClientSocket) /\ Len(sockets') = n - 1
      /\ \A j \in 1 .. (n - 1) : sockets'[j] = IF j < at THEN sockets[j] ELSE sockets[j + 1]
  <2>1. sockets' = Erase(sockets, at)
    BY <1>1 DEF Delete
  <2>2. sockets \in Seq(ClientSocket) /\ at \in 1 .. Len(sockets)
    BY <1>1, <1>2
  <2>3. /\ Erase(sockets, at) \in Seq(ClientSocket)
        /\ Len(Erase(sockets, at)) = Len(sockets) - 1
        /\ \A j \in 1 .. (Len(sockets) - 1) :
              Erase(sockets, at)[j] = IF j < at THEN sockets[j] ELSE sockets[j + 1]
    BY <2>2, EraseFacts
  <2>. QED  BY <1>1, <2>1, <2>3
<1>5. /\ clients' \in Seq(Client) /\ Len(clients') = n - 1
      /\ \A j \in 1 .. (n - 1) : clients'[j].sock = j
  <2>. HIDE DEF n
  <2>1. at \in 1 .. Len(clients) /\ \A k \in 1 .. Len(clients) : clients[k].sock = k
    BY <1>1, <1>2
  <2>2. clients' = EraseClient(clients, at)
    BY <1>1 DEF Delete
  <2>3. clients \in Seq(Client) /\ Len(clients) = n
    BY <1>1, <1>2
  <2>4. /\ EraseClient(clients, at) \in Seq(Client)
        /\ Len(EraseClient(clients, at)) = Len(clients) - 1
        /\ \A j \in 1 .. (Len(clients) - 1) : EraseClient(clients, at)[j].sock = j
    BY <2>1, <2>3, EraseClientFacts
  <2>. QED  BY <2>2, <2>3, <2>4
<1>6. DOMAIN pfds' = 1 .. (n - 1)
  BY <1>3
<1>7. client_count' = n - 1 /\ open' = open \ {pfds[at].fd}
  BY <1>1, <1>2 DEF Delete
<1>8. TypeOK'
  <2>1. client_count' \in Nat
    BY <1>1, <1>7
  <2>. QED  BY <2>1, <1>3, <1>4, <1>5, <1>7 DEF Delete, Aligned, TypeOK
<1>. HIDE DEF n
<1>9. VectorsAligned'
  <2>1. ASSUME NEW j \in 1 .. (n - 1)  PROVE sockets'[j].fd = pfds'[j].fd
    BY <1>1, <1>2, <1>3, <1>4
  <2>2. ASSUME NEW j \in 1 .. (n - 1), NEW k \in 1 .. (n - 1), pfds'[j].fd = pfds'[k].fd
        PROVE  j = k
    <3>. DEFINE before(x) == IF x < at THEN x ELSE x + 1
    <3>1. /\ before(j) \in 1 .. n /\ before(k) \in 1 .. n
          /\ pfds'[j] = pfds[before(j)] /\ pfds'[k] = pfds[before(k)]
      BY <1>1, <1>3
    <3>2. before(j) = before(k)
      BY <3>1, <2>2, <1>2
    <3>. QED  BY <3>2, <1>1
  <2>. QED  BY <2>1, <2>2, <1>3, <1>4, <1>5, <1>6 DEF VectorsAligned
<1>10. CapacityKept'
  BY <1>1, <1>3, <1>7, SizeAssumption DEF Aligned, CapacityKept, n
<1>11. PolledAreOpen'
  <2>. SUFFICES ASSUME NEW j \in 1 .. (n - 1)  PROVE pfds'[j].fd \in open'
    BY <1>6 DEF PolledAreOpen
  <2>1. \A k \in 1 .. n : pfds[k].fd \in open
    BY <1>1 DEF Aligned, PolledAreOpen, Visiting, Alive
  <2>2. PICK k \in 1 .. n : k # at /\ pfds'[j] = pfds[k]
    BY <1>1, <1>3
  <2>. QED  BY <1>1, <1>2, <1>7, <2>1, <2>2
<1>. QED  BY <1>8, <1>9, <1>10, <1>11 DEF Aligned

\* A vector of ClientSockets with the same descriptors as `sockets`.
SameSlots(socks) ==
    /\ socks \in Seq(ClientSocket) /\ Len(socks) = Len(sockets)
    /\ \A k \in 1 .. Len(sockets) : socks[k].fd = sockets[k].fd

\* Replacing one ClientSocket by another of the same descriptor.
LEMMA SlotReplaced ==
    ASSUME NEW socks, SameSlots(socks), NEW i \in 1 .. Len(sockets),
           NEW c \in ClientSocket, c.fd = sockets[i].fd
    PROVE  SameSlots([socks EXCEPT ![i] = c])
  BY DEF SameSlots

\* Bytes came in: the fields of one ClientSocket change, its descriptor does not.
LEMMA SlotReceives ==
    ASSUME NEW s \in ClientSocket, NEW req \in SUBSET Fd, NEW age \in Ages
    PROVE  /\ [s EXCEPT !.req = req, !.age = age, !.first = TRUE] \in ClientSocket
           /\ [s EXCEPT !.req = req, !.age = age, !.first = TRUE].fd = s.fd
  BY DEF ClientSocket

\* Another event is asked for of the client at i.
LEMMA EventsReplaced ==
    ASSUME NEW s \in Seq(PollFd), NEW i \in 1 .. Len(s), NEW e \in {"IN", "OUT"},
           NEW t, t = [s EXCEPT ![i].events = e]
    PROVE  t \in Seq(PollFd) /\ Len(t) = Len(s) /\ \A k \in 1 .. Len(s) : t[k].fd = s[k].fd
<1>1. s[i] \in PollFd
  OBVIOUS
<1>2. [s[i] EXCEPT !.events = e] \in PollFd /\ [s[i] EXCEPT !.events = e].fd = s[i].fd
  BY <1>1 DEF PollFd
<1>. QED  BY <1>2

LEMMA TouchedFacts ==
    ASSUME Aligned, Visiting
    PROVE  /\ SameSlots(Touched)
           /\ Touched = [sockets EXCEPT ![at] = [sockets[at] EXCEPT !.timeout = Late]]
<1>. DEFINE c == [sockets[at] EXCEPT !.timeout = Late]
<1>1. at \in 1 .. Len(sockets) /\ Slot = at /\ sockets[at] \in ClientSocket
  BY VisitFacts
<1>2. Touched = [sockets EXCEPT ![at] = c]
  BY <1>1 DEF Touched
<1>3. Late \in BOOLEAN
  BY <1>1 DEF Late, ClientSocket
<1>4. c \in ClientSocket /\ c.fd = sockets[at].fd
  BY <1>1, <1>3 DEF ClientSocket
<1>5. SameSlots(sockets)
  BY DEF SameSlots, Aligned, TypeOK
<1>. QED  BY <1>1, <1>2, <1>4, <1>5, SlotReplaced

LEMMA ReceivedFacts ==
    ASSUME Aligned, Visiting
    PROVE  SameSlots(Received)
<1>. DEFINE req == sockets[at].req \cup {Cur.fd}
            age == IF sockets[at].first THEN sockets[at].age ELSE 0
            c   == [sockets[at] EXCEPT !.req = req, !.age = age, !.first = TRUE]
<1>1. at \in 1 .. Len(sockets) /\ Slot = at /\ sockets[at] \in ClientSocket /\ Cur \in PollFd
  BY VisitFacts
<1>2. Received = [sockets EXCEPT ![at] = c]
  BY <1>1 DEF Received, Aligned, TypeOK
<1>3. req \in SUBSET Fd /\ age \in Ages
  BY <1>1, LimitType DEF ClientSocket, PollFd, Ages
<1>4. c \in ClientSocket /\ c.fd = sockets[at].fd
  <2>. HIDE DEF req, age
  <2>. QED  BY <1>1, <1>3, SlotReceives
<1>5. SameSlots(sockets)
  BY DEF SameSlots, Aligned, TypeOK
<1>. QED  BY <1>1, <1>2, <1>4, <1>5, SlotReplaced

\* The serve loop goes on to the next client: at and the control variables.
LEMMA AdvanceFacts ==
    ASSUME Aligned, Visiting, Advance
    PROVE  /\ pc' = "serve" /\ pc = "serve" /\ at' \in Nat \ {0} /\ running' \in BOOLEAN
           /\ ready' \in SUBSET (1 .. NListeners) /\ open' = open
  BY DEF Aligned, TypeOK, Visiting, Advance

\* Only one ClientSocket changes, and its descriptor does not.
LEMMA SlotsKeep ==
    ASSUME Aligned, Visiting, Advance, SameSlots(sockets'),
           UNCHANGED <<pfds, clients, client_count>>
    PROVE  Aligned'
<1>1. InPlace
  BY DEF InPlace, SameSlots, Aligned, TypeOK, VectorsAligned
<1>. QED  BY <1>1, AdvanceFacts, InPlaceKeeps

\* Building a response changes the visited client in place.
LEMMA RespondKeeps ==
    ASSUME Aligned, Visiting, NEW socks, SameSlots(socks), NEW keep \in BOOLEAN,
           NEW rest \in SUBSET Fd, Respond(socks, keep, rest)
    PROVE  Aligned'
<1>1. /\ at \in 1 .. Len(pfds) /\ at \in 1 .. Len(sockets) /\ at \in 1 .. Len(clients)
      /\ Ptr = at /\ Clt = at /\ clients[at] \in Client
  BY VisitFacts
<1>2. PICK n \in 1 .. MaxSends :
        sockets' = [socks EXCEPT ![Ptr].res = n, ![Ptr].resOf = socks[Ptr].req, ![Ptr].req = rest]
  BY DEF Respond
<1>3. SameSlots(sockets')
  <2>. DEFINE own == socks[at].req
              c   == [socks[at] EXCEPT !.res = n, !.resOf = own, !.req = rest]
  <2>1. socks[at] \in ClientSocket /\ socks[at].fd = sockets[at].fd
    BY <1>1 DEF SameSlots
  <2>2. c \in ClientSocket /\ c.fd = sockets[at].fd
    <3>1. own \in SUBSET Fd
      BY <2>1 DEF ClientSocket
    <3>2. n \in 0 .. MaxSends
      OBVIOUS
    <3>. HIDE DEF own
    <3>3. c \in ClientSocket /\ c.fd = socks[at].fd
      BY <2>1, <3>1, <3>2 DEF ClientSocket
    <3>. QED  BY <2>1, <3>3
  <2>3. sockets' = [socks EXCEPT ![at] = c]
    BY <1>1, <1>2 DEF SameSlots
  <2>. QED  BY <1>1, <2>2, <2>3, SlotReplaced
<1>4. /\ pfds' = [pfds EXCEPT ![at].events = "OUT"]
      /\ clients' = [clients EXCEPT ![at].keepAlive = keep]
      /\ client_count' = client_count /\ Advance
  BY <1>1 DEF Respond
<1>5. /\ pfds' \in Seq(PollFd) /\ Len(pfds') = Len(pfds)
      /\ \A k \in 1 .. Len(pfds) : pfds'[k].fd = pfds[k].fd
  <2>1. pfds \in Seq(PollFd) /\ at \in 1 .. Len(pfds)
    BY <1>1 DEF Aligned, TypeOK
  <2>2. "OUT" \in {"IN", "OUT"} /\ pfds' = [pfds EXCEPT ![at].events = "OUT"]
    BY <1>4
  <2>. QED  BY <2>1, <2>2, EventsReplaced
<1>6. /\ clients' \in Seq(Client) /\ Len(clients') = Len(clients)
      /\ \A k \in 1 .. Len(clients) : clients'[k].sock = clients[k].sock
  BY <1>1, <1>4 DEF Aligned, TypeOK, Client
<1>7. InPlace
  BY <1>3, <1>5, <1>6 DEF InPlace, SameSlots, Aligned, VectorsAligned
<1>. QED  BY <1>4, <1>7, AdvanceFacts, InPlaceKeeps

-------------------------------------------------------------------------------
(* One lemma per group of actions                                              *)

LEMMA ClockAndSignalKeep ==
    ASSUME Aligned, Tick \/ Interrupt
    PROVE  Aligned'
<1>1. CASE Tick
  <2>1. /\ sockets' = [p \in DOMAIN sockets |->
              [sockets[p] EXCEPT !.age = IF @ <= Limit THEN @ + 1 ELSE @]]
        /\ UNCHANGED <<pc, at, running, ready, pfds, clients, client_count, open>>
    BY <1>1 DEF Tick
  <2>2. DOMAIN sockets = 1 .. Len(sockets) /\ Len(sockets) \in Nat
    BY DEF Aligned, TypeOK
  <2>3. ASSUME NEW p \in 1 .. Len(sockets)
        PROVE  sockets'[p] \in ClientSocket /\ sockets'[p].fd = sockets[p].fd
    <3>. DEFINE age == IF sockets[p].age <= Limit THEN sockets[p].age + 1 ELSE sockets[p].age
    <3>1. sockets[p] \in ClientSocket
      BY DEF Aligned, TypeOK
    <3>2. age \in Ages
      BY <3>1, LimitType DEF ClientSocket, Ages
    <3>3. sockets'[p] = [sockets[p] EXCEPT !.age = age]
      BY <2>1, <2>2
    <3>. HIDE DEF age
    <3>. QED  BY <3>1, <3>2, <3>3 DEF ClientSocket
  <2>4. sockets' \in Seq(ClientSocket) /\ Len(sockets') = Len(sockets)
    BY <2>1, <2>2, <2>3
  <2>5. InPlace
    BY <2>1, <2>3, <2>4 DEF InPlace, Aligned, TypeOK, VectorsAligned
  <2>. QED  BY <1>1, <2>1, <2>5, InPlaceKeeps DEF Tick, Alive, Aligned, TypeOK
<1>2. CASE Interrupt
  BY <1>2 DEF Interrupt, vectors, Aligned, TypeOK, VectorsAligned, CapacityKept,
              PolledAreOpen, Alive
<1>. QED  BY <1>1, <1>2

LEMMA StopKeeps ==
    ASSUME Aligned, Stop
    PROVE  Aligned'
  BY DEF Stop, vectors, Aligned, TypeOK, VectorsAligned, CapacityKept, PolledAreOpen, Alive

LEMMA PollKeeps ==
    ASSUME Aligned, Poll
    PROVE  Aligned'
<1>1. PICK rev \in [DOMAIN pfds -> Revents] :
        pfds' = [k \in DOMAIN pfds |-> [pfds[k] EXCEPT !.revents = rev[k]]]
  BY DEF Poll
<1>2. DOMAIN pfds = 1 .. Len(pfds) /\ Len(pfds) \in Nat
  BY DEF Aligned, TypeOK
<1>3. ASSUME NEW k \in 1 .. Len(pfds)
      PROVE  pfds'[k] \in PollFd /\ pfds'[k].fd = pfds[k].fd
  <2>1. pfds[k] \in PollFd /\ rev[k] \in Revents
    BY <1>2 DEF Aligned, TypeOK
  <2>2. pfds'[k] = [pfds[k] EXCEPT !.revents = rev[k]]
    BY <1>1, <1>2
  <2>. QED  BY <2>1, <2>2 DEF PollFd
<1>4. pfds' \in Seq(PollFd) /\ Len(pfds') = Len(pfds)
  BY <1>1, <1>2, <1>3
<1>5. InPlace
  BY <1>3, <1>4 DEF Poll, InPlace, Aligned, TypeOK, VectorsAligned
<1>. QED  BY <1>5, InPlaceKeeps DEF Poll, Aligned, TypeOK

LEMMA NextListenerFacts ==
    ASSUME Aligned, NextListener, pc = "accept"
    PROVE  /\ pc' \in {"accept", "serve"} /\ at' \in Nat \ {0}
           /\ ready' \in SUBSET (1 .. NListeners)
<1>1. CASE at < NListeners
  <2>1. at' = at + 1 /\ pc' = pc /\ ready' = ready
    BY <1>1 DEF NextListener
  <2>. QED  BY <2>1 DEF Aligned, TypeOK
<1>2. CASE ~(at < NListeners)
  BY <1>2 DEF NextListener
<1>. QED  BY <1>1, <1>2

LEMMA AppendFacts ==
    ASSUME NEW S, NEW s \in Seq(S), NEW e \in S, NEW t, t = Append(s, e)
    PROVE  /\ t \in Seq(S) /\ Len(t) = Len(s) + 1 /\ t[Len(s) + 1] = e
           /\ \A k \in 1 .. Len(s) : t[k] = s[k]
  OBVIOUS

LEMMA AcceptKeeps ==
    ASSUME Aligned, AcceptSkips \/ AcceptClient \/ AcceptLeaks
    PROVE  Aligned'
<1>1. CASE AcceptSkips
  BY <1>1, NextListenerFacts DEF AcceptSkips, vectors, Aligned, TypeOK, VectorsAligned,
     CapacityKept, PolledAreOpen, Alive
<1>2. CASE AcceptLeaks
  BY <1>2, NextListenerFacts DEF AcceptLeaks, Accepted, vectors, Aligned, TypeOK,
     VectorsAligned, CapacityKept, PolledAreOpen, Alive
<1>3. CASE AcceptClient
  <2>. DEFINE n == Len(pfds)
  <2>1. PICK f \in Fd, garbage \in Revents :
          /\ Accepted(f)
          /\ sockets' = Append(sockets,
                [fd |-> f, age |-> 0, first |-> FALSE, timeout |-> FALSE,
                 req |-> {}, res |-> 0, resOf |-> {}])
          /\ pfds' = Append(pfds, [fd |-> f, events |-> "IN", revents |-> garbage])
          /\ client_count' = client_count + 1
          /\ clients' = Append(clients, [sock |-> SlotOf(sockets', f), keepAlive |-> TRUE])
    BY <1>3 DEF AcceptClient
  <2>2. /\ pc = "accept" /\ client_count < MaxClients /\ f \notin open
        /\ open' = open \cup {f} /\ running' = running
        /\ pc' \in {"accept", "serve"} /\ at' \in Nat \ {0}
        /\ ready' \in SUBSET (1 .. NListeners)
    BY <2>1, NextListenerFacts DEF Accepted
  <2>3. /\ n \in Nat /\ Len(sockets) = n /\ Len(clients) = n /\ client_count = n
        /\ pfds \in Seq(PollFd) /\ sockets \in Seq(ClientSocket) /\ clients \in Seq(Client)
        /\ DOMAIN pfds = 1 .. n
    BY DEF Aligned, TypeOK, VectorsAligned, CapacityKept
  <2>4. /\ \A k \in 1 .. n : sockets[k].fd = pfds[k].fd /\ clients[k].sock = k
        /\ \A j, k \in 1 .. n : pfds[j].fd = pfds[k].fd => j = k
        /\ \A k \in 1 .. n : pfds[k].fd \in open
    BY <2>2, <2>3 DEF Aligned, VectorsAligned, PolledAreOpen, Alive
  <2>5. /\ pfds' \in Seq(PollFd) /\ Len(pfds') = n + 1 /\ pfds'[n + 1].fd = f
        /\ \A k \in 1 .. n : pfds'[k] = pfds[k]
    <3>. DEFINE e == [fd |-> f, events |-> "IN", revents |-> garbage]
    <3>1. e \in PollFd /\ e.fd = f
      BY DEF PollFd
    <3>2. pfds' = Append(pfds, e)
      BY <2>1
    <3>. HIDE DEF e
    <3>. QED  BY <2>3, <3>1, <3>2, AppendFacts
  <2>6. /\ sockets' \in Seq(ClientSocket) /\ Len(sockets') = n + 1 /\ sockets'[n + 1].fd = f
        /\ \A k \in 1 .. n : sockets'[k] = sockets[k]
    <3>. DEFINE e == [fd |-> f, age |-> 0, first |-> FALSE, timeout |-> FALSE,
                      req |-> {}, res |-> 0, resOf |-> {}]
    <3>1. e \in ClientSocket /\ e.fd = f
      BY LimitType, SizeAssumption DEF ClientSocket, Ages
    <3>2. sockets' = Append(sockets, e)
      BY <2>1
    <3>. HIDE DEF e, n
    <3>. QED  BY <2>3, <3>1, <3>2, AppendFacts
  <2>. HIDE DEF n
  <2>7. SlotOf(sockets', f) = n + 1
    <3>1. DOMAIN sockets' = 1 .. (n + 1)
      BY <2>3, <2>6
    <3>2. \A p \in 1 .. n : sockets'[p].fd # f
      BY <2>2, <2>4, <2>6
    <3>3. \A p \in DOMAIN sockets' : sockets'[p].fd = f <=> p = n + 1
      BY <2>3, <2>6, <3>1, <3>2
    <3>. QED  BY <3>1, <3>3, <2>3 DEF SlotOf
  <2>8. /\ clients' \in Seq(Client) /\ Len(clients') = n + 1 /\ clients'[n + 1].sock = n + 1
        /\ \A k \in 1 .. n : clients'[k] = clients[k]
    <3>. DEFINE e == [sock |-> n + 1, keepAlive |-> TRUE]
    <3>1. e \in Client /\ e.sock = n + 1
      BY <2>3 DEF Client
    <3>2. clients' = Append(clients, e)
      BY <2>1, <2>7
    <3>. HIDE DEF e
    <3>. QED  BY <2>3, <3>1, <3>2, AppendFacts
  <2>9. client_count' = n + 1 /\ n + 1 <= MaxClients
    BY <2>1, <2>2, <2>3, SizeAssumption
  <2>10. TypeOK'
    BY <2>2, <2>3, <2>5, <2>6, <2>8, <2>9 DEF Aligned, TypeOK
  <2>11. VectorsAligned'
    <3>1. DOMAIN pfds' = 1 .. (n + 1)
      BY <2>3, <2>5
    <3>2. ASSUME NEW k \in 1 .. (n + 1)
          PROVE  sockets'[k].fd = pfds'[k].fd /\ clients'[k].sock = k
      <4>1. k \in 1 .. n \/ k = n + 1
        BY <2>3
      <4>. QED  BY <4>1, <2>4, <2>5, <2>6, <2>8
    <3>3. \A k \in 1 .. n : pfds'[k].fd # f
      BY <2>2, <2>4, <2>5
    <3>4. ASSUME NEW j \in 1 .. (n + 1), NEW k \in 1 .. (n + 1), pfds'[j].fd = pfds'[k].fd
          PROVE  j = k
      <4>1. (j \in 1 .. n \/ j = n + 1) /\ (k \in 1 .. n \/ k = n + 1)
        BY <2>3
      <4>. QED  BY <4>1, <2>4, <2>5, <3>3, <3>4
    <3>. QED  BY <3>1, <3>2, <3>4, <2>5, <2>6, <2>8 DEF VectorsAligned
  <2>12. CapacityKept'
    BY <2>5, <2>9 DEF CapacityKept
  <2>13. PolledAreOpen'
    <3>1. ASSUME NEW k \in 1 .. (n + 1)  PROVE pfds'[k].fd \in open'
      <4>1. k \in 1 .. n \/ k = n + 1
        BY <2>3
      <4>. QED  BY <4>1, <2>2, <2>4, <2>5
    <3>. QED  BY <3>1, <2>3, <2>5 DEF PolledAreOpen
  <2>. QED  BY <2>10, <2>11, <2>12, <2>13 DEF Aligned
<1>. QED  BY <1>1, <1>2, <1>3

\* The actions that visit one client.
LEMMA ServeKeeps ==
    ASSUME Aligned, Serve
    PROVE  Aligned'
<1>1. CASE DropBroken \/ DropIdle \/ RecvFails \/ SendFails \/ CloseAnswered
  BY <1>1, DeleteKeeps DEF DropBroken, DropIdle, RecvFails, SendFails, CloseAnswered
<1>2. CASE SkipQuiet
  <2>1. SameSlots(sockets') /\ Visiting /\ Advance /\ UNCHANGED <<pfds, clients, client_count>>
    BY <1>2 DEF SkipQuiet, vectors, SameSlots, Aligned, TypeOK
  <2>. QED  BY <2>1, SlotsKeep
<1>3. CASE AnswerTimeout
  <2>1. Visiting /\ Respond(Touched, FALSE, sockets[Ptr].req)
    BY <1>3 DEF AnswerTimeout
  <2>2. sockets[Ptr].req \in SUBSET Fd
    BY <2>1, VisitFacts DEF ClientSocket
  <2>. QED  BY <2>1, <2>2, TouchedFacts, RespondKeeps
<1>4. CASE RecvPartial
  BY <1>4, ReceivedFacts, SlotsKeep DEF RecvPartial
<1>5. CASE RecvRejected
  <2>1. Visiting /\ Respond(Received, FALSE, Received[Ptr].req)
    BY <1>5 DEF RecvRejected
  <2>2. SameSlots(Received)
    BY <2>1, ReceivedFacts
  <2>3. Received[Ptr].req \in SUBSET Fd
    <3>1. Ptr \in 1 .. Len(sockets)
      BY <2>1, VisitFacts
    <3>2. Received[Ptr] \in ClientSocket
      BY <2>2, <3>1 DEF SameSlots
    <3>. QED  BY <3>2 DEF ClientSocket
  <2>. QED  BY <2>1, <2>2, <2>3, RespondKeeps
<1>6. CASE RecvComplete
  <2>1. PICK keep \in BOOLEAN, rest \in {{}, Received[Ptr].req} :
          Visiting /\ Respond(Received, keep, rest)
    BY <1>6 DEF RecvComplete
  <2>2. SameSlots(Received)
    BY <2>1, ReceivedFacts
  <2>3. rest \in SUBSET Fd
    <3>1. Ptr \in 1 .. Len(sockets)
      BY <2>1, VisitFacts
    <3>2. Received[Ptr] \in ClientSocket
      BY <2>2, <3>1 DEF SameSlots
    <3>. QED  BY <3>2 DEF ClientSocket
  <2>. QED  BY <2>1, <2>2, <2>3, RespondKeeps
<1>7. CASE SendBlock
  <2>. DEFINE left == sockets[at].res - 1
              of   == IF sockets[at].res = 1 THEN {} ELSE sockets[at].resOf
              c    == [Touched[at] EXCEPT !.res = left, !.resOf = of]
  <2>1. /\ Visiting /\ sockets[Ptr].res > 0 /\ Advance
        /\ UNCHANGED <<pfds, clients, client_count>>
        /\ sockets' = [Touched EXCEPT ![Slot].res = @ - 1,
                          ![Slot].resOf = IF sockets[Slot].res = 1 THEN {} ELSE @]
    BY <1>7 DEF SendBlock
  <2>2. /\ at \in 1 .. Len(sockets) /\ Slot = at /\ Ptr = at /\ sockets[at] \in ClientSocket
        /\ SameSlots(Touched)
        /\ Touched = [sockets EXCEPT ![at] = [sockets[at] EXCEPT !.timeout = Late]]
    BY <2>1, VisitFacts, TouchedFacts
  <2>3. /\ Touched[at] \in ClientSocket /\ Touched[at].fd = sockets[at].fd
        /\ Touched[at].res = sockets[at].res /\ Touched[at].resOf = sockets[at].resOf
    <3>1. Touched[at] \in ClientSocket /\ Touched[at].fd = sockets[at].fd
      BY <2>2 DEF SameSlots
    <3>2. Touched[at] = [sockets[at] EXCEPT !.timeout = Late]
      <4>. DEFINE d == [sockets[at] EXCEPT !.timeout = Late]
      <4>1. Touched = [sockets EXCEPT ![at] = d] /\ sockets \in Seq(ClientSocket)
        BY <2>2 DEF Aligned, TypeOK
      <4>. HIDE DEF d
      <4>2. Touched[at] = d
        BY <2>2, <4>1
      <4>. QED  BY <4>2 DEF d
    <3>3. /\ [sockets[at] EXCEPT !.timeout = Late].res = sockets[at].res
          /\ [sockets[at] EXCEPT !.timeout = Late].resOf = sockets[at].resOf
      BY <2>2 DEF ClientSocket
    <3>. QED  BY <3>1, <3>2, <3>3
  <2>4. left \in 0 .. MaxSends /\ of \in SUBSET Fd
    BY <2>1, <2>2, SizeAssumption DEF ClientSocket
  <2>5. sockets' = [Touched EXCEPT ![at] = c]
    <3>. DEFINE t == Touched[at]
    <3>1. sockets' = [Touched EXCEPT ![at] =
                [t EXCEPT !.res = t.res - 1, !.resOf = IF sockets[at].res = 1 THEN {} ELSE t.resOf]]
      BY <2>1, <2>2, <2>3 DEF SameSlots, ClientSocket
    <3>. QED  BY <3>1, <2>3
  <2>6. c \in ClientSocket /\ c.fd = sockets[at].fd
    <3>. HIDE DEF left, of
    <3>. QED  BY <2>3, <2>4 DEF ClientSocket
  <2>7. SameSlots(sockets')
    <3>. HIDE DEF c
    <3>. QED  BY <2>2, <2>5, <2>6, SlotReplaced
  <2>. QED  BY <2>1, <2>7, SlotsKeep
<1>8. CASE SendKills
  BY <1>8 DEF SendKills, vectors, Aligned, TypeOK, VectorsAligned, CapacityKept,
              PolledAreOpen, Alive
<1>9. CASE ResetAnswered
  <2>. DEFINE c == [sockets[at] EXCEPT !.age = 0, !.first = FALSE, !.timeout = FALSE]
  <2>1. /\ Visiting /\ Advance /\ UNCHANGED <<clients, client_count>>
        /\ pfds' = [pfds EXCEPT ![at].events = "IN"]
        /\ sockets' = [sockets EXCEPT ![Slot].age = 0, ![Slot].first = FALSE,
                                      ![Slot].timeout = FALSE]
    BY <1>9 DEF ResetAnswered
  <2>2. /\ at \in 1 .. Len(sockets) /\ at \in 1 .. Len(pfds) /\ Slot = at
        /\ sockets[at] \in ClientSocket /\ SameSlots(sockets) /\ pfds \in Seq(PollFd)
    BY <2>1, VisitFacts DEF SameSlots, Aligned, TypeOK
  <2>3. sockets' = [sockets EXCEPT ![at] = c]
    BY <2>1, <2>2 DEF SameSlots
  <2>4. c \in ClientSocket /\ c.fd = sockets[at].fd
    <3>1. 0 \in Ages
      BY LimitType DEF Ages
    <3>. QED  BY <2>2, <3>1 DEF ClientSocket
  <2>5. SameSlots(sockets')
    <3>. HIDE DEF c
    <3>. QED  BY <2>2, <2>3, <2>4, SlotReplaced
  <2>6. /\ pfds' \in Seq(PollFd) /\ Len(pfds') = Len(pfds)
        /\ \A k \in 1 .. Len(pfds) : pfds'[k].fd = pfds[k].fd
    <3>1. "IN" \in {"IN", "OUT"} /\ pfds' = [pfds EXCEPT ![at].events = "IN"]
      BY <2>1
    <3>. QED  BY <2>2, <3>1, EventsReplaced
  <2>7. InPlace
    BY <2>1, <2>5, <2>6 DEF InPlace, SameSlots, Aligned, TypeOK, VectorsAligned
  <2>. QED  BY <2>1, <2>7, AdvanceFacts, InPlaceKeeps
<1>. QED  BY <1>1, <1>2, <1>3, <1>4, <1>5, <1>6, <1>7, <1>8, <1>9 DEF Serve

-------------------------------------------------------------------------------
(* The theorems                                                                *)

THEOREM InitAligned == Init => Aligned
  BY SizeAssumption DEF Init, Aligned, TypeOK, VectorsAligned, CapacityKept, PolledAreOpen

THEOREM NextAligned == Aligned /\ [Next]_vars => Aligned'
<1>. SUFFICES ASSUME Aligned, [Next]_vars  PROVE Aligned'
  OBVIOUS
<1>1. CASE Tick \/ Interrupt
  BY <1>1, ClockAndSignalKeep
<1>2. CASE Poll
  BY <1>2, PollKeeps
<1>3. CASE PollInterrupted
  BY <1>3, StopKeeps DEF PollInterrupted
<1>4. CASE AcceptSkips \/ AcceptClient \/ AcceptLeaks
  BY <1>4, AcceptKeeps
<1>5. CASE Serve
  BY <1>5, ServeKeeps
<1>6. CASE EndIteration
  <2>1. CASE running
    <3>1. pc = "serve" /\ pc' = "poll" /\ at' = 1 /\ UNCHANGED <<running, ready, vectors, open>>
      BY <1>6, <2>1 DEF EndIteration
    <3>. QED
      BY <3>1 DEF vectors, Aligned, TypeOK, VectorsAligned, CapacityKept, PolledAreOpen, Alive
  <2>2. CASE ~running
    BY <1>6, <2>2, StopKeeps DEF EndIteration
  <2>. QED  BY <2>1, <2>2
<1>7. CASE UNCHANGED vars
  BY <1>7 DEF vars, vectors, Aligned, TypeOK, VectorsAligned, CapacityKept, PolledAreOpen, Alive
<1>. QED  BY <1>1, <1>2, <1>3, <1>4, <1>5, <1>6, <1>7 DEF Next, Server

\* In every behaviour of the loop the vectors have their types and stay in step.
THEOREM AlignedAlways == Spec => []Aligned
  BY InitAligned, NextAligned, PTL DEF Spec

\* The variables keep their types.
THEOREM TypeCorrect == Spec => []TypeOK
<1>1. Aligned => TypeOK
  BY DEF Aligned
<1>. QED  BY <1>1, AlignedAlways, PTL

\* pfds, clients and sockets list the same descriptors in the same order and
\* every raw pointer leads to its own ClientSocket, for any number of clients.
THEOREM PointersHold == Spec => []VectorsAligned
<1>1. Aligned => VectorsAligned
  BY DEF Aligned
<1>. QED  BY <1>1, AlignedAlways, PTL

\* The number of clients never exceeds worker_connections, so no push_back()
\* ever reallocates a vector the raw pointers lead into.
THEOREM CapacityHolds == Spec => []CapacityKept
<1>1. Aligned => CapacityKept
  BY DEF Aligned
<1>. QED  BY <1>1, AlignedAlways, PTL

\* No descriptor is polled after it was closed.
THEOREM NoClosedDescriptorPolled == Spec => []PolledAreOpen
<1>1. Aligned => PolledAreOpen
  BY DEF Aligned
<1>. QED  BY <1>1, AlignedAlways, PTL

-------------------------------------------------------------------------------
(* What a step does to the buffers                                             *)

\* Of a client the serve loop has yet to visit poll() reports input only if it was asked
\* for, and a new client, whose revents are garbage, is asked for input.
Fresh ==
    pc \in {"accept", "serve"} =>
        \A k \in DOMAIN pfds :
            (pc = "serve" => at <= k) /\ pfds[k].revents = "IN" => pfds[k].events = "IN"

\* Together with Aligned this is inductive: what is answered was asked for input, so
\* its res_buf was empty.
Buffered == Aligned /\ Fresh /\ OwnBytes /\ InputOnlyWhenIdle

\* The element at k keeps what the properties speak of.
Untouched(k) ==
    /\ pfds'[k].fd = pfds[k].fd /\ pfds'[k].events = pfds[k].events
    /\ clients'[k].keepAlive = clients[k].keepAlive
    /\ sockets'[k].fd = sockets[k].fd /\ sockets'[k].req = sockets[k].req
    /\ sockets'[k].res = sockets[k].res /\ sockets'[k].resOf = sockets[k].resOf

\* The client at k gets an answer to what it sent.
Answers(k) ==
    /\ pfds[k].revents = "IN" /\ pfds'[k].events = "OUT"
    /\ sockets'[k].req \cup sockets'[k].resOf \subseteq sockets[k].req \cup {sockets[k].fd}

\* More of its request came in, or more of its answer went out.
Moves(k) ==
    /\ pfds'[k].events = pfds[k].events /\ clients'[k].keepAlive = clients[k].keepAlive
    /\ sockets'[k].req \cup sockets'[k].resOf
          \subseteq sockets[k].req \cup sockets[k].resOf \cup {sockets[k].fd}
    /\ \/ sockets'[k].res = sockets[k].res
       \/ sockets[k].res > 0 /\ sockets'[k].res = sockets[k].res - 1

\* Its answer is sent and it is asked for the next request.
Resets(k) ==
    /\ sockets[k].res = 0 /\ clients[k].keepAlive
    /\ pfds'[k].events = "IN" /\ clients'[k].keepAlive = clients[k].keepAlive
    /\ sockets'[k].req = sockets[k].req /\ sockets'[k].resOf = sockets[k].resOf
    /\ sockets'[k].res = 0

SameLengths ==
    Len(pfds') = Len(pfds) /\ Len(sockets') = Len(sockets) /\ Len(clients') = Len(clients)

\* A step of the serve loop that stays in the vectors: one client has its turn.
Turn ==
    /\ Visiting /\ SameLengths
    /\ Answers(at) \/ Moves(at) \/ Resets(at)
    /\ \A k \in 1 .. Len(pfds) : sockets'[k].fd = sockets[k].fd
    /\ \A k \in 1 .. Len(pfds) : k # at => Untouched(k)

Still == SameLengths /\ \A k \in 1 .. Len(pfds) : Untouched(k)

\* A new client: nothing is in its buffers and its descriptor was not in use.
Joins ==
    LET n == Len(pfds) + 1 IN
    /\ Alive /\ Len(pfds') = n /\ Len(sockets') = n /\ Len(clients') = n
    /\ \A k \in 1 .. Len(pfds) :
          pfds'[k] = pfds[k] /\ sockets'[k] = sockets[k] /\ clients'[k] = clients[k]
    /\ sockets'[n].fd \notin open /\ clients'[n].keepAlive /\ pfds'[n].events = "IN"
    /\ sockets'[n].req = {} /\ sockets'[n].resOf = {} /\ sockets'[n].res = 0

\* A client leaves with its descriptor, and those behind it move up.
Departs ==
    LET n == Len(pfds)
        old(k) == IF k < at THEN k ELSE k + 1
    IN  /\ at \in 1 .. n /\ Visiting /\ open' = open \ {pfds[at].fd}
        /\ pc' = "serve" /\ at' = at
        /\ Len(pfds') = n - 1 /\ Len(sockets') = n - 1 /\ Len(clients') = n - 1
        /\ \A k \in 1 .. (n - 1) :
              /\ pfds'[k] = pfds[old(k)] /\ sockets'[k] = sockets[old(k)]
              /\ clients'[k].keepAlive = clients[old(k)].keepAlive

\* What DeleteClient() and DeleteClientFd() leave.
LEMMA DeleteDeparts ==
    ASSUME Aligned, Visiting, Delete
    PROVE  Departs
<1>. DEFINE n == Len(pfds)
<1>1. /\ at \in 1 .. n /\ Slot = at /\ Clt = at /\ Cur.fd = pfds[at].fd
      /\ Len(sockets) = n /\ Len(clients) = n /\ n \in Nat /\ pc = "serve"
      /\ pfds \in Seq(PollFd) /\ sockets \in Seq(ClientSocket) /\ clients \in Seq(Client)
  BY VisitFacts DEF Aligned, VectorsAligned, TypeOK, Cur, Visiting
<1>2. /\ Len(pfds') = n - 1
      /\ \A j \in 1 .. (n - 1) : pfds'[j] = IF j < at THEN pfds[j] ELSE pfds[j + 1]
  BY <1>1 DEF Delete, Erase
<1>3. /\ Len(sockets') = n - 1
      /\ \A j \in 1 .. (n - 1) : sockets'[j] = IF j < at THEN sockets[j] ELSE sockets[j + 1]
  BY <1>1 DEF Delete, Erase
<1>4. /\ Len(clients') = n - 1
      /\ \A j \in 1 .. (n - 1) :
            clients'[j].keepAlive = (IF j < at THEN clients[j] ELSE clients[j + 1]).keepAlive
  <2>1. clients' = EraseClient(clients, at)
    BY <1>1 DEF Delete
  <2>2. ASSUME NEW c \in Client, NEW x
        PROVE  [c EXCEPT !.sock = x].keepAlive = c.keepAlive
    BY DEF Client
  <2>3. ASSUME NEW j \in 1 .. (n - 1)
        PROVE  clients'[j].keepAlive = (IF j < at THEN clients[j] ELSE clients[j + 1]).keepAlive
    <3>1. clients[j + 1] \in Client
      BY <1>1
    <3>2. CASE j < at
      BY <1>1, <2>1, <3>2 DEF EraseClient
    <3>3. CASE ~(j < at)
      <4>1. clients'[j] = [clients[j + 1] EXCEPT !.sock = clients[j + 1].sock - 1]
        BY <1>1, <2>1, <3>3 DEF EraseClient
      <4>. QED  BY <4>1, <3>1, <2>2, <3>3
    <3>. QED  BY <3>2, <3>3
  <2>4. Len(clients') = n - 1
    BY <1>1, <2>1 DEF EraseClient
  <2>. QED  BY <2>3, <2>4
<1>. QED  BY <1>1, <1>2, <1>3, <1>4 DEF Departs, Delete

LEMMA UnchangedStill ==
    ASSUME UNCHANGED <<pfds, clients, sockets>>
    PROVE  Still
  BY DEF Still, SameLengths, Untouched

LEMMA TickStill ==
    ASSUME Aligned, Tick
    PROVE  Still
<1>1. /\ sockets' = [p \in DOMAIN sockets |->
            [sockets[p] EXCEPT !.age = IF @ <= Limit THEN @ + 1 ELSE @]]
      /\ pfds' = pfds /\ clients' = clients
  BY DEF Tick
<1>2. /\ sockets \in Seq(ClientSocket) /\ DOMAIN sockets = 1 .. Len(pfds)
      /\ Len(sockets) = Len(pfds) /\ Len(pfds) \in Nat
  BY DEF Aligned, TypeOK, VectorsAligned
<1>3. ASSUME NEW s \in ClientSocket, NEW x
      PROVE  LET t == [s EXCEPT !.age = x]
             IN  t.fd = s.fd /\ t.req = s.req /\ t.res = s.res /\ t.resOf = s.resOf
  BY DEF ClientSocket
<1>4. ASSUME NEW k \in 1 .. Len(pfds)
      PROVE  Untouched(k)
  <2>. DEFINE age == IF sockets[k].age <= Limit THEN sockets[k].age + 1 ELSE sockets[k].age
  <2>1. sockets[k] \in ClientSocket
    BY <1>2
  <2>2. sockets'[k] = [sockets[k] EXCEPT !.age = age]
    BY <1>1, <1>2
  <2>. HIDE DEF age
  <2>. QED  BY <2>1, <2>2, <1>1, <1>3 DEF Untouched
<1>5. Len(sockets') = Len(sockets)
  BY <1>1, <1>2
<1>. QED  BY <1>1, <1>4, <1>5 DEF Still, SameLengths

LEMMA PollStill ==
    ASSUME Aligned, Poll
    PROVE  Still /\ Fresh'
<1>1. PICK rev \in [DOMAIN pfds -> Revents] :
        /\ \A k \in DOMAIN pfds : rev[k] \in {"ERR", "NONE", pfds[k].events}
        /\ pfds' = [k \in DOMAIN pfds |-> [pfds[k] EXCEPT !.revents = rev[k]]]
  BY DEF Poll
<1>2. pfds \in Seq(PollFd) /\ DOMAIN pfds = 1 .. Len(pfds) /\ Len(pfds) \in Nat
  BY DEF Aligned, TypeOK
<1>3. ASSUME NEW k \in 1 .. Len(pfds)
      PROVE  /\ pfds'[k].fd = pfds[k].fd /\ pfds'[k].events = pfds[k].events
             /\ pfds'[k].revents = rev[k]
  <2>1. pfds[k] \in PollFd /\ rev[k] \in Revents
    BY <1>2
  <2>2. pfds'[k] = [pfds[k] EXCEPT !.revents = rev[k]]
    BY <1>1, <1>2
  <2>. QED  BY <2>1, <2>2 DEF PollFd
<1>4. DOMAIN pfds' = 1 .. Len(pfds) /\ Len(pfds') = Len(pfds)
  BY <1>1, <1>2
<1>5. Still
  BY <1>3, <1>4 DEF Still, SameLengths, Untouched, Poll
<1>6. ASSUME NEW k \in 1 .. Len(pfds), pfds'[k].revents = "IN"
      PROVE  pfds'[k].events = "IN"
  BY <1>1, <1>2, <1>3, <1>6
<1>. QED  BY <1>4, <1>5, <1>6 DEF Fresh

LEMMA AcceptJoins ==
    ASSUME Aligned, AcceptClient
    PROVE  Joins
<1>. DEFINE n == Len(pfds)
<1>1. PICK f \in Fd, garbage \in Revents :
        /\ Accepted(f)
        /\ sockets' = Append(sockets,
              [fd |-> f, age |-> 0, first |-> FALSE, timeout |-> FALSE,
               req |-> {}, res |-> 0, resOf |-> {}])
        /\ pfds' = Append(pfds, [fd |-> f, events |-> "IN", revents |-> garbage])
        /\ clients' = Append(clients, [sock |-> SlotOf(sockets', f), keepAlive |-> TRUE])
  BY DEF AcceptClient
<1>2. /\ n \in Nat /\ Len(sockets) = n /\ Len(clients) = n
      /\ pfds \in Seq(PollFd) /\ sockets \in Seq(ClientSocket) /\ clients \in Seq(Client)
  BY DEF Aligned, TypeOK, VectorsAligned
<1>3. ASSUME NEW s, NEW S, s \in Seq(S), Len(s) = n, NEW e, NEW t, t = Append(s, e)
      PROVE  Len(t) = n + 1 /\ t[n + 1] = e /\ \A k \in 1 .. n : t[k] = s[k]
  BY <1>3, <1>2
<1>. HIDE DEF n
<1>4. Len(pfds') = n + 1 /\ pfds'[n + 1].events = "IN" /\ \A k \in 1 .. n : pfds'[k] = pfds[k]
  <2>. DEFINE e == [fd |-> f, events |-> "IN", revents |-> garbage]
  <2>1. e.events = "IN" /\ pfds' = Append(pfds, e)
    BY <1>1
  <2>. HIDE DEF e
  <2>2. Len(pfds) = n
    BY DEF n
  <2>. QED  BY <2>1, <2>2, <1>2, <1>3
<1>5. /\ Len(sockets') = n + 1 /\ \A k \in 1 .. n : sockets'[k] = sockets[k]
      /\ sockets'[n + 1].fd = f /\ sockets'[n + 1].req = {} /\ sockets'[n + 1].resOf = {}
      /\ sockets'[n + 1].res = 0
  <2>. DEFINE e == [fd |-> f, age |-> 0, first |-> FALSE, timeout |-> FALSE,
                    req |-> {}, res |-> 0, resOf |-> {}]
  <2>1. /\ e.fd = f /\ e.req = {} /\ e.resOf = {} /\ e.res = 0 /\ sockets' = Append(sockets, e)
    BY <1>1
  <2>. HIDE DEF e
  <2>. QED  BY <2>1, <1>2, <1>3
<1>6. /\ Len(clients') = n + 1 /\ \A k \in 1 .. n : clients'[k] = clients[k]
      /\ clients'[n + 1].keepAlive
  <2>. DEFINE e == [sock |-> SlotOf(sockets', f), keepAlive |-> TRUE]
  <2>1. e.keepAlive /\ clients' = Append(clients, e)
    BY <1>1
  <2>. HIDE DEF e
  <2>. QED  BY <2>1, <1>2, <1>3
<1>7. f \notin open /\ Alive
  BY <1>1 DEF Accepted, Alive
<1>. QED  BY <1>4, <1>5, <1>6, <1>7 DEF Joins, n

\* One ClientSocket is replaced, and pfds and clients change at most there.
LEMMA OneTurn ==
    ASSUME Aligned, Visiting, NEW s, s.fd = sockets[at].fd,
           \A k \in 1 .. Len(sockets) : sockets'[k] = IF k = at THEN s ELSE sockets[k],
           SameLengths,
           \A k \in 1 .. Len(pfds) :
              k # at => pfds'[k] = pfds[k] /\ clients'[k].keepAlive = clients[k].keepAlive,
           Answers(at) \/ Moves(at) \/ Resets(at)
    PROVE  Turn
<1>1. Len(sockets) = Len(pfds)
  BY DEF Aligned, VectorsAligned
<1>. QED  BY <1>1 DEF Turn, Untouched

LEMMA KeepAliveReplaced ==
    ASSUME NEW t \in Seq(Client), NEW i \in 1 .. Len(t), NEW keep,
           NEW u, u = [t EXCEPT ![i].keepAlive = keep]
    PROVE  Len(u) = Len(t) /\ \A k \in 1 .. Len(t) : k # i => u[k] = t[k]
  OBVIOUS

LEMMA EventsAsked ==
    ASSUME NEW t \in Seq(PollFd), NEW i \in 1 .. Len(t), NEW e,
           NEW u, u = [t EXCEPT ![i].events = e]
    PROVE  /\ Len(u) = Len(t) /\ u[i].events = e
           /\ \A k \in 1 .. Len(t) : k # i => u[k] = t[k]
<1>1. [t[i] EXCEPT !.events = e].events = e
  BY DEF PollFd
<1>. QED  BY <1>1

LEMMA RespondAnswers ==
    ASSUME Aligned, Visiting, Cur.revents = "IN",
           NEW s \in ClientSocket, NEW socks, socks = [sockets EXCEPT ![at] = s],
           s.fd = sockets[at].fd, s.req \subseteq sockets[at].req \cup {sockets[at].fd},
           NEW keep, NEW rest, rest \subseteq s.req, Respond(socks, keep, rest)
    PROVE  Turn
<1>1. /\ at \in 1 .. Len(pfds) /\ at \in 1 .. Len(sockets) /\ at \in 1 .. Len(clients)
      /\ Ptr = at /\ Clt = at /\ sockets \in Seq(ClientSocket) /\ Cur = pfds[at]
  BY VisitFacts DEF Aligned, TypeOK, Cur
<1>2. socks \in Seq(ClientSocket) /\ Len(socks) = Len(sockets) /\ socks[at] = s
  BY <1>1
<1>3. PICK n \in 1 .. MaxSends :
        sockets' = [socks EXCEPT ![Ptr].res = n, ![Ptr].resOf = socks[Ptr].req, ![Ptr].req = rest]
  BY DEF Respond
<1>. DEFINE own == s.req
            c   == [s EXCEPT !.res = n, !.resOf = own, !.req = rest]
<1>4. sockets' = [socks EXCEPT ![at] = c]
  BY <1>1, <1>2, <1>3
<1>5. c.fd = s.fd /\ c.req = rest /\ c.resOf = own
  <2>. HIDE DEF own
  <2>. QED  BY DEF ClientSocket
<1>. HIDE DEF c
<1>6. /\ Len(sockets') = Len(sockets)
      /\ \A k \in 1 .. Len(sockets) : sockets'[k] = IF k = at THEN c ELSE sockets[k]
  BY <1>1, <1>2, <1>4
<1>7. /\ Len(pfds') = Len(pfds) /\ pfds'[at].events = "OUT"
      /\ \A k \in 1 .. Len(pfds) : k # at => pfds'[k] = pfds[k]
  BY <1>1, EventsAsked DEF Respond, Aligned, TypeOK
<1>8. /\ Len(clients') = Len(clients)
      /\ \A k \in 1 .. Len(clients) : k # at => clients'[k] = clients[k]
  BY <1>1, KeepAliveReplaced DEF Respond, Aligned, TypeOK
<1>9. Answers(at)
  BY <1>1, <1>5, <1>6, <1>7 DEF Answers
<1>10. SameLengths /\ \A k \in 1 .. Len(pfds) :
          k # at => pfds'[k] = pfds[k] /\ clients'[k].keepAlive = clients[k].keepAlive
  BY <1>6, <1>7, <1>8 DEF SameLengths, Aligned, VectorsAligned
<1>. QED  BY <1>5, <1>6, <1>9, <1>10, OneTurn

\* The ClientSocket after a recv().
LEMMA ReceivedSlot ==
    ASSUME Aligned, Visiting
    PROVE  \E s \in ClientSocket :
              /\ Received = [sockets EXCEPT ![at] = s]
              /\ s.fd = sockets[at].fd /\ s.req = sockets[at].req \cup {sockets[at].fd}
              /\ s.res = sockets[at].res /\ s.resOf = sockets[at].resOf
<1>. DEFINE req == sockets[at].req \cup {Cur.fd}
            age == IF sockets[at].first THEN sockets[at].age ELSE 0
            s   == [sockets[at] EXCEPT !.req = req, !.age = age, !.first = TRUE]
<1>1. /\ at \in 1 .. Len(sockets) /\ Slot = at /\ sockets[at] \in ClientSocket
      /\ Cur \in PollFd /\ Cur.fd = sockets[at].fd
  BY VisitFacts
<1>2. Received = [sockets EXCEPT ![at] = s]
  BY <1>1 DEF Received, Aligned, TypeOK
<1>3. req \in SUBSET Fd /\ age \in Ages
  BY <1>1, LimitType DEF ClientSocket, PollFd, Ages
<1>4. req = sockets[at].req \cup {sockets[at].fd}
  BY <1>1
<1>5. /\ s \in ClientSocket /\ s.fd = sockets[at].fd /\ s.req = req
      /\ s.res = sockets[at].res /\ s.resOf = sockets[at].resOf
  <2>. HIDE DEF req, age
  <2>. QED  BY <1>1, <1>3 DEF ClientSocket
<1>. QED  BY <1>2, <1>4, <1>5

LEMMA AnswersTurn ==
    ASSUME Aligned, AnswerTimeout \/ RecvRejected \/ RecvComplete
    PROVE  Turn
<1>1. CASE AnswerTimeout
  <2>. DEFINE s == [sockets[at] EXCEPT !.timeout = Late]
  <2>1. Visiting /\ Cur.revents = "IN" /\ Late /\ Respond(Touched, FALSE, sockets[Ptr].req)
    BY <1>1 DEF AnswerTimeout
  <2>2. /\ at \in 1 .. Len(sockets) /\ Ptr = at /\ sockets[at] \in ClientSocket
        /\ Touched = [sockets EXCEPT ![at] = s]
    BY <2>1, VisitFacts, TouchedFacts
  <2>3. s \in ClientSocket /\ s.fd = sockets[at].fd /\ s.req = sockets[at].req
    <3>1. Late \in BOOLEAN
      BY <2>1, <2>2, VisitFacts DEF Late, ClientSocket
    <3>. HIDE DEF Late
    <3>. QED  BY <2>2, <3>1 DEF ClientSocket
  <2>. HIDE DEF s
  <2>4. s.req \subseteq sockets[at].req \cup {sockets[at].fd} /\ sockets[at].req \subseteq s.req
    BY <2>3
  <2>. QED  BY <2>1, <2>2, <2>3, <2>4, RespondAnswers
<1>2. CASE RecvRejected \/ RecvComplete
  <2>1. Visiting /\ Cur.revents = "IN" /\ ~Late
    BY <1>2 DEF RecvRejected, RecvComplete
  <2>2. PICK s \in ClientSocket :
          /\ Received = [sockets EXCEPT ![at] = s]
          /\ s.fd = sockets[at].fd /\ s.req = sockets[at].req \cup {sockets[at].fd}
    BY <2>1, ReceivedSlot
  <2>3. /\ at \in 1 .. Len(sockets) /\ Ptr = at /\ Slot = at /\ sockets \in Seq(ClientSocket)
        /\ sockets[at] \in ClientSocket
    BY <2>1, VisitFacts DEF Aligned, TypeOK
  <2>4. Received[Ptr].req = s.req
    BY <2>2, <2>3
  <2>5. PICK keep \in BOOLEAN, rest \in {{}, Received[Ptr].req} : Respond(Received, keep, rest)
    BY <1>2 DEF RecvRejected, RecvComplete
  <2>6. rest \subseteq s.req
    BY <2>4, <2>5
  <2>. QED  BY <2>1, <2>2, <2>5, <2>6, RespondAnswers
<1>. QED  BY <1>1, <1>2

\* A ClientSocket is replaced in place: what OneTurn asks of it.
LEMMA SlotReplacedAt ==
    ASSUME Aligned, Visiting, NEW s, NEW socks, socks = [sockets EXCEPT ![at] = s]
    PROVE  /\ Len(socks) = Len(sockets)
           /\ \A k \in 1 .. Len(sockets) : socks[k] = IF k = at THEN s ELSE sockets[k]
  BY VisitFacts DEF Aligned, TypeOK

LEMMA MovesTurn ==
    ASSUME Aligned, RecvPartial \/ SendBlock
    PROVE  Turn
<1>1. Visiting /\ UNCHANGED <<pfds, clients>>
  BY DEF RecvPartial, SendBlock
<1>2. at \in 1 .. Len(sockets) /\ Slot = at /\ Ptr = at /\ sockets[at] \in ClientSocket
  BY <1>1, VisitFacts
<1>3. PICK s :
        /\ Len(sockets') = Len(sockets)
        /\ \A k \in 1 .. Len(sockets) : sockets'[k] = IF k = at THEN s ELSE sockets[k]
        /\ s.fd = sockets[at].fd
        /\ s.req \cup s.resOf \subseteq sockets[at].req \cup sockets[at].resOf \cup {sockets[at].fd}
        /\ \/ s.res = sockets[at].res
           \/ sockets[at].res > 0 /\ s.res = sockets[at].res - 1
  <2>1. CASE RecvPartial
    <3>1. PICK s \in ClientSocket :
            /\ Received = [sockets EXCEPT ![at] = s]
            /\ s.fd = sockets[at].fd /\ s.req = sockets[at].req \cup {sockets[at].fd}
            /\ s.res = sockets[at].res /\ s.resOf = sockets[at].resOf
      BY <1>1, ReceivedSlot
    <3>2. sockets' = [sockets EXCEPT ![at] = s]
      BY <2>1, <3>1 DEF RecvPartial
    <3>3. /\ Len(sockets') = Len(sockets)
          /\ \A k \in 1 .. Len(sockets) : sockets'[k] = IF k = at THEN s ELSE sockets[k]
      BY <1>1, <3>2, SlotReplacedAt
    <3>. QED  BY <3>1, <3>3
  <2>2. CASE SendBlock
    <3>. DEFINE o    == sockets[at]
                left == o.res - 1
                of   == IF o.res = 1 THEN {} ELSE o.resOf
                late == Late
                s    == [o EXCEPT !.timeout = late, !.res = left, !.resOf = of]
    <3>1. o.res > 0 /\ sockets' = [Touched EXCEPT ![Slot].res = @ - 1,
                          ![Slot].resOf = IF sockets[Slot].res = 1 THEN {} ELSE @]
      BY <2>2, <1>2 DEF SendBlock
    <3>2. Touched = [sockets EXCEPT ![at].timeout = late] /\ sockets \in Seq(ClientSocket)
      BY <1>2 DEF Touched, Aligned, TypeOK
    <3>. HIDE DEF late
    <3>3. Len(sockets') = Len(sockets) /\ DOMAIN sockets' = 1 .. Len(sockets)
      BY <3>1, <3>2, <1>2
    <3>4. \A k \in 1 .. Len(sockets) : k # at => sockets'[k] = sockets[k]
      BY <3>1, <3>2, <1>2
    <3>5. sockets'[at] = s
      <4>. DEFINE t == Touched[at]
      <4>1. t = [o EXCEPT !.timeout = late] /\ DOMAIN Touched = 1 .. Len(sockets)
        BY <3>2, <1>2
      <4>2. t.res = o.res /\ t.resOf = o.resOf
        BY <4>1, <1>2 DEF ClientSocket
      <4>3. sockets'[at] = [t EXCEPT !.res = t.res - 1,
                                     !.resOf = IF o.res = 1 THEN {} ELSE t.resOf]
        BY <3>1, <4>1, <1>2
      <4>4. sockets'[at] = [t EXCEPT !.res = left, !.resOf = of]
        BY <4>2, <4>3
      <4>. HIDE DEF left, of, t
      <4>. QED  BY <4>1, <4>4, <1>2 DEF ClientSocket
    <3>6. s.fd = o.fd /\ s.req = o.req /\ s.resOf = of /\ s.res = left
      <4>. HIDE DEF left, of
      <4>. QED  BY <1>2 DEF ClientSocket
    <3>7. s.req \cup s.resOf \subseteq o.req \cup o.resOf \cup {o.fd}
      BY <3>6
    <3>. HIDE DEF s
    <3>. QED  BY <3>1, <3>3, <3>4, <3>5, <3>6, <3>7
  <2>. QED  BY <2>1, <2>2
<1>4. Moves(at)
  BY <1>1, <1>2, <1>3 DEF Moves
<1>. QED  BY <1>1, <1>3, <1>4, OneTurn DEF SameLengths

LEMMA ResetTurn ==
    ASSUME Aligned, ResetAnswered
    PROVE  Turn
<1>. DEFINE s == [sockets[at] EXCEPT !.age = 0, !.first = FALSE, !.timeout = FALSE]
<1>1. Visiting
  BY DEF ResetAnswered
<1>2. /\ sockets[Ptr].res = 0 /\ clients[Clt].keepAlive /\ clients' = clients
      /\ pfds' = [pfds EXCEPT ![at].events = "IN"]
      /\ sockets' = [sockets EXCEPT ![Slot].age = 0, ![Slot].first = FALSE,
                                    ![Slot].timeout = FALSE]
  BY DEF ResetAnswered
<1>3. /\ at \in 1 .. Len(sockets) /\ at \in 1 .. Len(pfds) /\ Slot = at /\ Ptr = at /\ Clt = at
      /\ sockets[at] \in ClientSocket /\ pfds \in Seq(PollFd) /\ sockets \in Seq(ClientSocket)
  BY <1>1, VisitFacts DEF Aligned, TypeOK
<1>4. sockets' = [sockets EXCEPT ![at] = s]
  BY <1>2, <1>3
<1>5. /\ s.fd = sockets[at].fd /\ s.req = sockets[at].req
      /\ s.res = sockets[at].res /\ s.resOf = sockets[at].resOf
  BY <1>3 DEF ClientSocket
<1>. HIDE DEF s
<1>6. /\ Len(sockets') = Len(sockets)
      /\ \A k \in 1 .. Len(sockets) : sockets'[k] = IF k = at THEN s ELSE sockets[k]
  BY <1>1, <1>4, SlotReplacedAt
<1>7. /\ Len(pfds') = Len(pfds) /\ pfds'[at].events = "IN"
      /\ \A k \in 1 .. Len(pfds) : k # at => pfds'[k] = pfds[k]
  <2>1. pfds' = [pfds EXCEPT ![at].events = "IN"]
    BY <1>2
  <2>. QED  BY <2>1, <1>3, EventsAsked
<1>8. Resets(at)
  <2>1. sockets[at].res = 0 /\ clients[at].keepAlive /\ clients' = clients
    BY <1>2, <1>3
  <2>. QED  BY <2>1, <1>3, <1>5, <1>6, <1>7 DEF Resets
<1>9. SameLengths /\ clients' = clients
  BY <1>2, <1>6, <1>7 DEF SameLengths
<1>. QED  BY <1>1, <1>5, <1>6, <1>7, <1>8, <1>9, OneTurn

\* What a step can do to the vectors.
LEMMA StepShape ==
    ASSUME Aligned, [Next]_vars
    PROVE  Still \/ Joins \/ Turn \/ Departs
<1>1. CASE Tick
  BY <1>1, TickStill
<1>2. CASE Poll
  BY <1>2, PollStill
<1>3. CASE AcceptClient
  BY <1>3, AcceptJoins
<1>4. CASE DropBroken \/ DropIdle \/ RecvFails \/ SendFails \/ CloseAnswered
  BY <1>4, DeleteDeparts DEF DropBroken, DropIdle, RecvFails, SendFails, CloseAnswered
<1>5. CASE AnswerTimeout \/ RecvRejected \/ RecvComplete
  BY <1>5, AnswersTurn
<1>6. CASE RecvPartial \/ SendBlock
  BY <1>6, MovesTurn
<1>7. CASE ResetAnswered
  BY <1>7, ResetTurn
<1>8. CASE \/ Interrupt \/ PollInterrupted \/ AcceptSkips \/ AcceptLeaks
           \/ SkipQuiet \/ SendKills \/ EndIteration \/ UNCHANGED vars
  <2>1. UNCHANGED <<pfds, clients, sockets>>
    BY <1>8 DEF Interrupt, PollInterrupted, Stop, AcceptSkips, AcceptLeaks, SkipQuiet, SendKills,
                EndIteration, vars, vectors
  <2>. QED  BY <2>1, UnchangedStill
<1>. QED  BY <1>1, <1>2, <1>3, <1>4, <1>5, <1>6, <1>7, <1>8 DEF Next, Server, Serve

\* Going on to the next client leaves the clients yet to be visited as they were.
LEMMA AdvanceFresh ==
    ASSUME Aligned, Fresh, Visiting, Advance, Len(pfds') = Len(pfds), DOMAIN pfds' = 1 .. Len(pfds),
           \A k \in 1 .. Len(pfds) : k # at => pfds'[k] = pfds[k]
    PROVE  Fresh'
  BY DEF Fresh, Aligned, TypeOK, Visiting, Advance

LEMMA ServeFresh ==
    ASSUME Aligned, Fresh, Serve
    PROVE  Fresh'
<1>. Visiting
  BY DEF Serve, DropBroken, DropIdle, SkipQuiet, AnswerTimeout, RecvFails, RecvPartial,
         RecvRejected, RecvComplete, SendBlock, SendFails, SendKills, CloseAnswered, ResetAnswered
<1>1. CASE DropBroken \/ DropIdle \/ RecvFails \/ SendFails \/ CloseAnswered
  <2>1. Departs /\ pfds' \in Seq(PollFd)
    BY <1>1, DeleteDeparts, DeleteKeeps
    DEF DropBroken, DropIdle, RecvFails, SendFails, CloseAnswered, Aligned, TypeOK
  <2>2. DOMAIN pfds = 1 .. Len(pfds) /\ DOMAIN pfds' = 1 .. (Len(pfds) - 1) /\ Len(pfds) \in Nat
    BY <2>1 DEF Departs, Aligned, TypeOK
  <2>3. at \in Nat /\ pc = "serve" /\ pc' = "serve" /\ at' = at
    BY <2>1 DEF Departs, Visiting, Aligned, TypeOK
  <2>4. ASSUME NEW k \in 1 .. (Len(pfds) - 1), at <= k  PROVE pfds'[k] = pfds[k + 1]
    BY <2>1, <2>3, <2>4 DEF Departs
  <2>5. ASSUME NEW k \in 1 .. (Len(pfds) - 1), at <= k, pfds'[k].revents = "IN"
        PROVE  pfds'[k].events = "IN"
    <3>1. k + 1 \in DOMAIN pfds /\ at <= k + 1
      BY <2>2, <2>3, <2>5
    <3>. QED  BY <3>1, <2>3, <2>4, <2>5 DEF Fresh
  <2>. QED  BY <2>2, <2>3, <2>5 DEF Fresh
<1>2. CASE SkipQuiet \/ RecvPartial \/ SendBlock
  <2>1. Advance /\ pfds' = pfds
    BY <1>2 DEF SkipQuiet, RecvPartial, SendBlock, vectors
  <2>. QED  BY <2>1, AdvanceFresh DEF Aligned, TypeOK
<1>3. CASE AnswerTimeout \/ RecvRejected \/ RecvComplete \/ ResetAnswered
  <2>1. PICK e \in {"IN", "OUT"} : Advance /\ pfds' = [pfds EXCEPT ![at].events = e]
    BY <1>3 DEF AnswerTimeout, RecvRejected, RecvComplete, ResetAnswered, Respond
  <2>2. pfds \in Seq(PollFd) /\ at \in 1 .. Len(pfds)
    BY VisitFacts DEF Aligned, TypeOK
  <2>3. Len(pfds') = Len(pfds) /\ \A k \in 1 .. Len(pfds) : k # at => pfds'[k] = pfds[k]
    BY <2>1, <2>2, EventsAsked
  <2>4. DOMAIN pfds' = 1 .. Len(pfds)
    BY <2>1, <2>2
  <2>. QED  BY <2>1, <2>3, <2>4, AdvanceFresh
<1>4. CASE SendKills
  BY <1>4 DEF SendKills, Fresh
<1>. QED  BY <1>1, <1>2, <1>3, <1>4 DEF Serve

LEMMA NextFresh ==
    ASSUME Aligned, Fresh, [Next]_vars
    PROVE  Fresh'
<1>1. CASE Serve
  BY <1>1, ServeFresh
<1>2. CASE Poll
  BY <1>2, PollStill
<1>3. CASE AcceptClient
  <2>1. PICK f \in Fd, garbage \in Revents :
          pfds' = Append(pfds, [fd |-> f, events |-> "IN", revents |-> garbage])
    BY <1>3 DEF AcceptClient
  <2>2. pc = "accept"
    BY <1>3 DEF AcceptClient, Accepted
  <2>. DEFINE e == [fd |-> f, events |-> "IN", revents |-> garbage]
              n == Len(pfds)
  <2>3. e.events = "IN" /\ pfds' = Append(pfds, e) /\ pfds \in Seq(PollFd) /\ n \in Nat
    BY <2>1 DEF Aligned, TypeOK
  <2>. HIDE DEF e
  <2>4. /\ DOMAIN pfds' = 1 .. (n + 1) /\ DOMAIN pfds = 1 .. n /\ pfds'[n + 1] = e
        /\ \A k \in 1 .. n : pfds'[k] = pfds[k]
    BY <2>3
  <2>5. ASSUME NEW k \in 1 .. (n + 1), pfds'[k].revents = "IN"  PROVE pfds'[k].events = "IN"
    <3>1. k = n + 1 \/ k \in 1 .. n
      BY <2>3
    <3>. QED  BY <3>1, <2>2, <2>3, <2>4, <2>5 DEF Fresh
  <2>. QED  BY <2>4, <2>5 DEF Fresh
<1>4. CASE AcceptSkips \/ AcceptLeaks
  <2>1. pc = "accept" /\ pfds' = pfds
    BY <1>4 DEF AcceptSkips, AcceptLeaks, Accepted, vectors
  <2>. QED  BY <2>1 DEF Fresh
<1>5. CASE PollInterrupted \/ EndIteration
  <2>1. pc' \in {"poll", "stopped"}
    BY <1>5 DEF PollInterrupted, EndIteration, Stop
  <2>. QED  BY <2>1 DEF Fresh
<1>6. CASE Tick \/ Interrupt \/ UNCHANGED vars
  <2>1. UNCHANGED <<pc, at, pfds>>
    BY <1>6 DEF Tick, Interrupt, vars, vectors
  <2>. QED  BY <2>1 DEF Fresh
<1>. QED  BY <1>1, <1>2, <1>3, <1>4, <1>5, <1>6 DEF Next, Server

\* What a client whose turn it is owed: input was reported only because it was asked for,
\* and then it owed nothing.
LEMMA AnsweredWasIdle ==
    ASSUME Buffered, Visiting, Answers(at)
    PROVE  sockets[at].res = 0
  BY VisitFacts DEF Buffered, Fresh, InputOnlyWhenIdle, Answers, Visiting, Aligned, TypeOK

LEMMA ShapeKeepsBuffers ==
    ASSUME Buffered, Aligned', Still \/ Joins \/ Turn \/ Departs
    PROVE  OwnBytes' /\ InputOnlyWhenIdle'
<1>. DEFINE n == Len(pfds)
            own(k)  == sockets[k].req \cup sockets[k].resOf \subseteq {sockets[k].fd}
            idle(k) == pfds[k].events = "IN" => sockets[k].res = 0 /\ clients[k].keepAlive
            ownN(k)  == sockets'[k].req \cup sockets'[k].resOf \subseteq {sockets'[k].fd}
            idleN(k) == pfds'[k].events = "IN" => sockets'[k].res = 0 /\ clients'[k].keepAlive
<1>1. /\ n \in Nat /\ Len(sockets) = n /\ Len(clients) = n
      /\ DOMAIN pfds = 1 .. n /\ DOMAIN sockets = 1 .. n
  BY DEF Buffered, Aligned, TypeOK, VectorsAligned
<1>2. DOMAIN pfds' = 1 .. Len(pfds') /\ DOMAIN sockets' = 1 .. Len(pfds')
  BY DEF Aligned, TypeOK, VectorsAligned
<1>3. \A k \in 1 .. n : own(k) /\ idle(k)
  BY <1>1 DEF Buffered, OwnBytes, InputOnlyWhenIdle
<1>. SUFFICES \A k \in 1 .. Len(pfds') : ownN(k) /\ idleN(k)
  BY <1>2 DEF OwnBytes, InputOnlyWhenIdle
<1>4. ASSUME NEW k \in 1 .. n, Untouched(k)  PROVE ownN(k) /\ idleN(k)
  BY <1>3, <1>4 DEF Untouched
<1>5. CASE Still
  BY <1>4, <1>5 DEF Still, SameLengths
<1>6. CASE Joins
  <2>1. Len(pfds') = n + 1 /\ \A k \in 1 .. n : Untouched(k)
    BY <1>6 DEF Joins, Untouched
  <2>2. ownN(n + 1) /\ idleN(n + 1)
    BY <1>6 DEF Joins
  <2>3. ASSUME NEW k \in 1 .. (n + 1)  PROVE k \in 1 .. n \/ k = n + 1
    BY <1>1
  <2>. HIDE DEF n, ownN, idleN
  <2>. QED  BY <1>4, <2>1, <2>2, <2>3
<1>7. CASE Turn
  <2>1. /\ Len(pfds') = n /\ at \in 1 .. n /\ Visiting /\ sockets'[at].fd = sockets[at].fd
        /\ \A k \in 1 .. n : k # at => Untouched(k)
    BY <1>7, <1>1 DEF Turn, SameLengths, Visiting
  <2>2. ownN(at) /\ idleN(at)
    <3>1. CASE Answers(at)
      BY <3>1, <2>1, <1>3 DEF Answers
    <3>2. CASE Moves(at)
      BY <3>2, <2>1, <1>3 DEF Moves
    <3>3. CASE Resets(at)
      BY <3>3, <2>1, <1>3 DEF Resets
    <3>. QED  BY <3>1, <3>2, <3>3, <1>7 DEF Turn
  <2>. HIDE DEF ownN, idleN
  <2>. QED  BY <1>4, <2>1, <2>2
<1>8. CASE Departs
  <2>1. Len(pfds') = n - 1 /\ at \in 1 .. n
    BY <1>8 DEF Departs
  <2>2. ASSUME NEW k \in 1 .. (n - 1)
        PROVE  \E j \in 1 .. n : /\ pfds'[k] = pfds[j] /\ sockets'[k] = sockets[j]
                                 /\ clients'[k].keepAlive = clients[j].keepAlive
    <3>. DEFINE j == IF k < at THEN k ELSE k + 1
    <3>1. j \in 1 .. n
      BY <1>1, <2>1
    <3>2. /\ pfds'[k] = pfds[j] /\ sockets'[k] = sockets[j]
          /\ clients'[k].keepAlive = clients[j].keepAlive
      BY <1>8 DEF Departs
    <3>. QED  BY <3>1, <3>2
  <2>3. ASSUME NEW k \in 1 .. (n - 1)  PROVE ownN(k) /\ idleN(k)
    <3>1. PICK j \in 1 .. n : /\ pfds'[k] = pfds[j] /\ sockets'[k] = sockets[j]
                              /\ clients'[k].keepAlive = clients[j].keepAlive
      BY <2>2
    <3>2. own(j) /\ idle(j)
      BY <1>3
    <3>. QED  BY <3>1, <3>2
  <2>. HIDE DEF ownN, idleN
  <2>. QED  BY <2>1, <2>3
<1>. QED  BY <1>5, <1>6, <1>7, <1>8

THEOREM NextBuffered == Buffered /\ [Next]_vars => Buffered'
<1>. SUFFICES ASSUME Buffered, [Next]_vars  PROVE Buffered'
  OBVIOUS
<1>1. Aligned /\ Fresh /\ OwnBytes /\ InputOnlyWhenIdle
  BY DEF Buffered
<1>2. Aligned'
  BY <1>1, NextAligned
<1>3. Fresh'
  BY <1>1, NextFresh
<1>4. OwnBytes' /\ InputOnlyWhenIdle'
  BY <1>1, <1>2, StepShape, ShapeKeepsBuffers
<1>. QED  BY <1>2, <1>3, <1>4 DEF Buffered

\* In every behaviour the buffers belong to their connection and poll() is asked for input
\* only of a client that owes nothing.
THEOREM BufferedAlways == Spec => []Buffered
<1>1. Init => Buffered
  BY InitAligned DEF Init, Buffered, Fresh, OwnBytes, InputOnlyWhenIdle
<1>. QED  BY <1>1, NextBuffered, PTL DEF Spec

\* Whatever connections come and go around it, req_buf holds only what the peer of this
\* connection sent and res_buf only answers to that.
THEOREM BuffersOwn == Spec => []OwnBytes
<1>1. Buffered => OwnBytes
  BY DEF Buffered
<1>. QED  BY <1>1, BufferedAlways, PTL

\* A client the loop waits for input of has been sent its whole answer and may stay.
THEOREM IdleWhenAsked == Spec => []InputOnlyWhenIdle
<1>1. Buffered => InputOnlyWhenIdle
  BY DEF Buffered
<1>. QED  BY <1>1, BufferedAlways, PTL

-------------------------------------------------------------------------------
(* What a step does to one connection                                          *)

LEMMA OneSlotPerFd ==
    ASSUME Aligned, NEW j \in 1 .. Len(pfds), NEW k \in 1 .. Len(pfds),
           sockets[j].fd = sockets[k].fd
    PROVE  j = k
  BY DEF Aligned, VectorsAligned, TypeOK

\* Where the ClientSocket at j was before: it has its descriptor from there, and its
\* res_buf too unless the client had its turn.  A new one has a descriptor of its own.
LEMMA SlotCameFrom ==
    ASSUME Aligned, Aligned', Still \/ Joins \/ Turn \/ Departs, NEW j \in DOMAIN sockets'
    PROVE  \/ \E k \in 1 .. Len(pfds) :
                 /\ sockets'[j].fd = sockets[k].fd
                 /\ sockets'[j].res = sockets[k].res \/ (Turn /\ j = k /\ k = at)
           \/ /\ sockets'[j].res = 0
              /\ \A k \in 1 .. Len(pfds) : sockets'[j].fd # sockets[k].fd
<1>. DEFINE n == Len(pfds)
<1>1. n \in Nat /\ DOMAIN pfds = 1 .. n /\ j \in 1 .. Len(pfds')
  BY DEF Aligned, TypeOK, VectorsAligned
<1>2. CASE Still
  <2>1. j \in 1 .. n /\ sockets'[j].fd = sockets[j].fd /\ sockets'[j].res = sockets[j].res
    BY <1>1, <1>2 DEF Still, SameLengths, Untouched
  <2>. QED  BY <2>1
<1>3. CASE Joins
  <2>1. CASE j \in 1 .. n
    <3>1. sockets'[j] = sockets[j]
      BY <1>3, <2>1 DEF Joins
    <3>. QED  BY <2>1, <3>1
  <2>2. CASE j = n + 1
    <3>1. \A k \in 1 .. n : sockets[k].fd \in open
      BY <1>1, <1>3 DEF Joins, Aligned, PolledAreOpen, VectorsAligned
    <3>. QED  BY <1>3, <2>2, <3>1 DEF Joins
  <2>. QED  BY <1>1, <1>3, <2>1, <2>2 DEF Joins
<1>4. CASE Turn
  BY <1>1, <1>4 DEF Turn, SameLengths, Untouched
<1>5. CASE Departs
  <2>. DEFINE k == IF j < at THEN j ELSE j + 1
  <2>1. j \in 1 .. (n - 1) /\ at \in 1 .. n
    BY <1>1, <1>5 DEF Departs
  <2>2. sockets'[j] = sockets[k]
    BY <1>5, <2>1 DEF Departs
  <2>3. k \in 1 .. n
    BY <1>1, <2>1
  <2>. HIDE DEF k
  <2>. QED  BY <2>2, <2>3
<1>. QED  BY <1>2, <1>3, <1>4, <1>5

\* What the turn of a client can do to its res_buf.
LEMMA TurnFillsOrSends ==
    ASSUME Buffered, Turn
    PROVE  sockets[at].res = 0 \/ sockets'[at].res = sockets[at].res
           \/ sockets[at].res = sockets'[at].res + 1
<1>1. Visiting /\ sockets[at].res \in Nat
  BY VisitFacts, SizeAssumption DEF Turn, Buffered, ClientSocket
<1>2. CASE Answers(at)
  BY <1>1, <1>2, AnsweredWasIdle
<1>3. CASE Moves(at)
  BY <1>1, <1>3 DEF Moves
<1>4. CASE Resets(at)
  BY <1>4 DEF Resets
<1>. QED  BY <1>2, <1>3, <1>4 DEF Turn

\* Only the client that departs leaves the vectors.
LEMMA LeavesClosed ==
    ASSUME Aligned, Aligned', Still \/ Joins \/ Turn \/ Departs, NEW f, Leaves(f)
    PROVE  f \notin open'
<1>. DEFINE n == Len(pfds)
<1>1. /\ n \in Nat /\ DOMAIN pfds = 1 .. n /\ DOMAIN pfds' = 1 .. Len(pfds')
      /\ \A k \in 1 .. n : pfds[k].fd = sockets[k].fd
      /\ \A k \in 1 .. Len(pfds') : pfds'[k].fd = sockets'[k].fd
  <2>0. n \in Nat /\ DOMAIN pfds = 1 .. n
    BY DEF Aligned, TypeOK
  <2>1. n \in Nat /\ DOMAIN pfds = 1 .. n /\ \A k \in 1 .. n : pfds[k].fd = sockets[k].fd
    <3>. HIDE DEF n
    <3>. QED  BY <2>0 DEF Aligned, VectorsAligned
  <2>2. /\ DOMAIN pfds' = 1 .. Len(pfds')
        /\ \A k \in 1 .. Len(pfds') : pfds'[k].fd = sockets'[k].fd
    BY DEF Aligned, TypeOK, VectorsAligned
  <2>. QED  BY <2>1, <2>2
<1>2. PICK k \in 1 .. n : pfds[k].fd = f /\ \A j \in 1 .. Len(pfds') : pfds'[j].fd # f
  BY <1>1 DEF Leaves
<1>3. ~Still
  <2>. SUFFICES ASSUME Still  PROVE FALSE
    OBVIOUS
  <2>1. Len(pfds') = n /\ pfds'[k].fd = pfds[k].fd
    BY DEF Still, SameLengths, Untouched
  <2>. QED  BY <1>2, <2>1
<1>4. ~Joins
  <2>. SUFFICES ASSUME Joins  PROVE FALSE
    OBVIOUS
  <2>1. k \in 1 .. Len(pfds') /\ pfds'[k] = pfds[k]
    BY <1>1 DEF Joins
  <2>. QED  BY <1>2, <2>1
<1>5. ~Turn
  <2>. SUFFICES ASSUME Turn  PROVE FALSE
    OBVIOUS
  <2>1. Len(pfds') = n /\ sockets'[k].fd = sockets[k].fd
    BY DEF Turn, SameLengths
  <2>2. pfds'[k].fd = sockets'[k].fd /\ pfds[k].fd = sockets[k].fd
    BY <1>1, <2>1
  <2>. QED  BY <1>2, <2>1, <2>2
<1>6. Departs
  BY <1>3, <1>4, <1>5
<1>7. k = at
  <2>. SUFFICES ASSUME k # at  PROVE FALSE
    OBVIOUS
  <2>. DEFINE j == IF k < at THEN k ELSE k - 1
  <2>1. j \in 1 .. (n - 1) /\ (IF j < at THEN j ELSE j + 1) = k
    BY <1>1, <1>6 DEF Departs
  <2>2. pfds'[j] = pfds[k]
    BY <1>6, <2>1 DEF Departs
  <2>. QED  BY <1>2, <1>6, <2>1, <2>2 DEF Departs
<1>. QED  BY <1>2, <1>6, <1>7 DEF Departs

\* A response is written into an empty res_buf, which then only shrinks by what send()
\* took, and a client that goes is closed: for any interleaving of the connections.
THEOREM NoResponseCut == Spec => ResponsesWhole
<1>. DEFINE step ==
        \A f \in Fd :
            /\ Leaves(f) => f \notin open'
            /\ \A k \in DOMAIN sockets, j \in DOMAIN sockets' :
                  sockets[k].fd = f /\ sockets'[j].fd = f /\ sockets'[j].res # sockets[k].res
                      => sockets[k].res \in {0, sockets'[j].res + 1}
<1>1. ASSUME Buffered, Buffered', [Next]_vars  PROVE step
  <2>1. Aligned /\ Aligned' /\ (Still \/ Joins \/ Turn \/ Departs)
    BY <1>1, StepShape DEF Buffered
  <2>2. ASSUME NEW f, Leaves(f)  PROVE f \notin open'
    BY <2>1, <2>2, LeavesClosed
  <2>3. ASSUME NEW k \in DOMAIN sockets, NEW j \in DOMAIN sockets',
               sockets'[j].fd = sockets[k].fd, sockets'[j].res # sockets[k].res
        PROVE  sockets[k].res \in {0, sockets'[j].res + 1}
    <3>1. k \in 1 .. Len(pfds)
      BY <2>1 DEF Aligned, TypeOK, VectorsAligned
    <3>2. PICK i \in 1 .. Len(pfds) :
            /\ sockets'[j].fd = sockets[i].fd
            /\ sockets'[j].res = sockets[i].res \/ (Turn /\ j = i /\ i = at)
      BY <2>1, <2>3, <3>1, SlotCameFrom
    <3>3. i = k
      BY <2>1, <2>3, <3>1, <3>2, OneSlotPerFd
    <3>4. Turn /\ j = at /\ k = at
      BY <2>3, <3>2, <3>3
    <3>. QED  BY <1>1, <2>3, <3>4, TurnFillsOrSends
  <2>. QED  BY <2>2, <2>3
<1>. QED  BY <1>1, BufferedAlways, PTL DEF Spec, ResponsesWhole

-------------------------------------------------------------------------------
(* The mark of lateness                                                        *)

Earned(s) == s.timeout => s.age > Limit

\* One ClientSocket is replaced by one whose mark is earned.
LEMMA EarnedReplaced ==
    ASSUME Aligned, Visiting, TimeoutsEarned, NEW s, Earned(s),
           sockets' = [sockets EXCEPT ![at] = s]
    PROVE  TimeoutsEarned'
<1>1. DOMAIN sockets' = DOMAIN sockets /\ at \in DOMAIN sockets
  BY VisitFacts DEF Aligned, TypeOK
<1>2. \A k \in DOMAIN sockets : sockets'[k] = IF k = at THEN s ELSE sockets[k]
  BY <1>1
<1>. QED  BY <1>1, <1>2 DEF TimeoutsEarned, Earned, Limit

\* An answer is built behind what the step did to the ClientSocket before.
LEMMA EarnedAnswered ==
    ASSUME Aligned, Visiting, TimeoutsEarned,
           NEW s \in ClientSocket, NEW socks, socks = [sockets EXCEPT ![at] = s], Earned(s),
           NEW keep, NEW rest, Respond(socks, keep, rest)
    PROVE  TimeoutsEarned'
<1>1. at \in 1 .. Len(sockets) /\ Ptr = at /\ sockets \in Seq(ClientSocket)
  BY VisitFacts DEF Aligned, TypeOK
<1>2. PICK n \in 1 .. MaxSends :
        sockets' = [socks EXCEPT ![Ptr].res = n, ![Ptr].resOf = socks[Ptr].req, ![Ptr].req = rest]
  BY DEF Respond
<1>. DEFINE own == s.req
            c   == [s EXCEPT !.res = n, !.resOf = own, !.req = rest]
<1>3. socks[at] = s
  BY <1>1
<1>4. sockets' = [sockets EXCEPT ![at] = c]
  BY <1>1, <1>2, <1>3
<1>5. c.timeout = s.timeout /\ c.age = s.age
  <2>. HIDE DEF own
  <2>. QED  BY DEF ClientSocket
<1>. HIDE DEF c
<1>. QED  BY <1>4, <1>5, EarnedReplaced DEF Earned

\* A visit marks only who is late.
LEMMA TouchedEarned ==
    ASSUME Aligned, Visiting, TimeoutsEarned
    PROVE  \E s \in ClientSocket : /\ Touched = [sockets EXCEPT ![at] = s] /\ Earned(s)
                                   /\ s.res = sockets[at].res /\ s.resOf = sockets[at].resOf
<1>. DEFINE late == Late
            s    == [sockets[at] EXCEPT !.timeout = late]
<1>1. /\ at \in DOMAIN sockets /\ Slot = at /\ sockets[at] \in ClientSocket
      /\ Touched = [sockets EXCEPT ![at] = s]
  BY VisitFacts, TouchedFacts DEF Aligned, TypeOK
<1>2. late \in BOOLEAN /\ (late => sockets[at].age > Limit)
  BY <1>1 DEF Late, TimeoutsEarned, ClientSocket
<1>. HIDE DEF late
<1>3. /\ s \in ClientSocket /\ s.timeout = late /\ s.age = sockets[at].age
      /\ s.res = sockets[at].res /\ s.resOf = sockets[at].resOf
  BY <1>1, <1>2 DEF ClientSocket
<1>. QED  BY <1>1, <1>2, <1>3 DEF Earned

\* Nothing is received from a client that is marked.
LEMMA ReceivedEarned ==
    ASSUME Aligned, Visiting, TimeoutsEarned, ~Late
    PROVE  \E s \in ClientSocket : Received = [sockets EXCEPT ![at] = s] /\ Earned(s)
<1>. DEFINE req == sockets[at].req \cup {Cur.fd}
            age == IF sockets[at].first THEN sockets[at].age ELSE 0
            s   == [sockets[at] EXCEPT !.req = req, !.age = age, !.first = TRUE]
<1>1. /\ at \in 1 .. Len(sockets) /\ Slot = at /\ sockets[at] \in ClientSocket /\ Cur \in PollFd
      /\ sockets[at].timeout = FALSE
  BY VisitFacts DEF Late, ClientSocket
<1>2. Received = [sockets EXCEPT ![at] = s]
  BY <1>1 DEF Received, Aligned, TypeOK
<1>3. req \in SUBSET Fd /\ age \in Ages
  BY <1>1, LimitType DEF ClientSocket, PollFd, Ages
<1>4. s \in ClientSocket /\ s.timeout = FALSE
  <2>. HIDE DEF req, age
  <2>. QED  BY <1>1, <1>3 DEF ClientSocket
<1>. QED  BY <1>2, <1>4 DEF Earned

\* The clock only adds to the age of a connection.
LEMMA TickEarned ==
    ASSUME Aligned, TimeoutsEarned, Tick
    PROVE  TimeoutsEarned'
<1>1. DOMAIN sockets' = DOMAIN sockets
  BY DEF Tick
<1>2. ASSUME NEW k \in DOMAIN sockets, sockets'[k].timeout
      PROVE  sockets'[k].age > Limit
  <2>. DEFINE age == IF sockets[k].age <= Limit THEN sockets[k].age + 1 ELSE sockets[k].age
  <2>1. sockets[k] \in ClientSocket
    BY DEF Aligned, TypeOK
  <2>2. sockets'[k] = [sockets[k] EXCEPT !.age = age]
    BY DEF Tick
  <2>3. sockets[k].age > Limit => age > Limit
    BY <2>1, LimitType DEF ClientSocket, Ages
  <2>. HIDE DEF age
  <2>4. sockets'[k].timeout = sockets[k].timeout /\ sockets'[k].age = age
    BY <2>1, <2>2 DEF ClientSocket
  <2>. QED  BY <1>2, <2>3, <2>4 DEF TimeoutsEarned
<1>. QED  BY <1>1, <1>2 DEF TimeoutsEarned, Limit

THEOREM NextEarned == Aligned /\ TimeoutsEarned /\ [Next]_vars => TimeoutsEarned'
<1>. SUFFICES ASSUME Aligned, TimeoutsEarned, [Next]_vars  PROVE TimeoutsEarned'
  OBVIOUS
<1>1. CASE Tick
  BY <1>1, TickEarned
<1>2. CASE UNCHANGED sockets
  BY <1>2 DEF TimeoutsEarned, Limit
<1>3. CASE AcceptClient
  <2>1. PICK f \in Fd : sockets' = Append(sockets,
              [fd |-> f, age |-> 0, first |-> FALSE, timeout |-> FALSE,
               req |-> {}, res |-> 0, resOf |-> {}])
    BY <1>3 DEF AcceptClient
  <2>. DEFINE e == [fd |-> f, age |-> 0, first |-> FALSE, timeout |-> FALSE,
                    req |-> {}, res |-> 0, resOf |-> {}]
  <2>2. e.timeout = FALSE /\ sockets' = Append(sockets, e) /\ sockets \in Seq(ClientSocket)
    BY <2>1 DEF Aligned, TypeOK
  <2>. HIDE DEF e
  <2>3. /\ DOMAIN sockets' = 1 .. (Len(sockets) + 1) /\ DOMAIN sockets = 1 .. Len(sockets)
        /\ sockets'[Len(sockets) + 1] = e
        /\ \A k \in DOMAIN sockets : sockets'[k] = sockets[k]
    BY <2>2
  <2>. QED  BY <2>2, <2>3 DEF TimeoutsEarned, Limit
<1>4. CASE DropBroken \/ DropIdle \/ RecvFails \/ SendFails \/ CloseAnswered
  <2>1. Departs /\ Aligned'
    BY <1>4, DeleteDeparts, DeleteKeeps
    DEF DropBroken, DropIdle, RecvFails, SendFails, CloseAnswered
  <2>2. ASSUME NEW k \in DOMAIN sockets'
        PROVE  \E j \in DOMAIN sockets : sockets'[k] = sockets[j]
    <3>. DEFINE j == IF k < at THEN k ELSE k + 1
    <3>1. k \in 1 .. (Len(pfds) - 1) /\ at \in 1 .. Len(pfds) /\ DOMAIN sockets = 1 .. Len(pfds)
      BY <2>1 DEF Departs, Aligned, TypeOK, VectorsAligned
    <3>2. j \in DOMAIN sockets
      BY <3>1
    <3>3. sockets'[k] = sockets[j]
      BY <2>1, <3>1 DEF Departs
    <3>. QED  BY <3>2, <3>3
  <2>. QED  BY <2>2 DEF TimeoutsEarned, Limit
<1>5. CASE AnswerTimeout
  <2>1. Visiting /\ Respond(Touched, FALSE, sockets[Ptr].req)
    BY <1>5 DEF AnswerTimeout
  <2>2. PICK s \in ClientSocket : Touched = [sockets EXCEPT ![at] = s] /\ Earned(s)
    BY <2>1, TouchedEarned
  <2>. QED  BY <2>1, <2>2, EarnedAnswered
<1>6. CASE RecvPartial \/ RecvRejected \/ RecvComplete
  <2>1. Visiting /\ ~Late
    BY <1>6 DEF RecvPartial, RecvRejected, RecvComplete
  <2>2. PICK s \in ClientSocket : Received = [sockets EXCEPT ![at] = s] /\ Earned(s)
    BY <2>1, ReceivedEarned
  <2>3. CASE RecvPartial
    BY <2>1, <2>2, <2>3, EarnedReplaced DEF RecvPartial
  <2>4. CASE RecvRejected \/ RecvComplete
    <3>1. PICK keep, rest : Respond(Received, keep, rest)
      BY <2>4 DEF RecvRejected, RecvComplete
    <3>. QED  BY <2>1, <2>2, <3>1, EarnedAnswered
  <2>. QED  BY <1>6, <2>3, <2>4
<1>7. CASE SendBlock
  <2>1. Visiting /\ sockets' = [Touched EXCEPT ![Slot].res = @ - 1,
                          ![Slot].resOf = IF sockets[Slot].res = 1 THEN {} ELSE @]
    BY <1>7 DEF SendBlock
  <2>2. PICK s \in ClientSocket :
          /\ Touched = [sockets EXCEPT ![at] = s] /\ Earned(s)
          /\ s.res = sockets[at].res /\ s.resOf = sockets[at].resOf
    BY <2>1, TouchedEarned
  <2>3. at \in 1 .. Len(sockets) /\ Slot = at /\ sockets \in Seq(ClientSocket)
    BY <2>1, VisitFacts DEF Aligned, TypeOK
  <2>. DEFINE left == s.res - 1
              of   == IF sockets[at].res = 1 THEN {} ELSE s.resOf
              c    == [s EXCEPT !.res = left, !.resOf = of]
  <2>4. sockets' = [sockets EXCEPT ![at] = c]
    <3>1. Touched[at] = s
      BY <2>2, <2>3
    <3>2. sockets' = [Touched EXCEPT ![at].res = @ - 1,
                          ![at].resOf = IF sockets[at].res = 1 THEN {} ELSE @]
      BY <2>1, <2>3
    <3>3. [Touched[at] EXCEPT !.res = @ - 1].resOf = s.resOf
      BY <3>1 DEF ClientSocket
    <3>. QED  BY <2>2, <2>3, <3>1, <3>2, <3>3
  <2>5. c.timeout = s.timeout /\ c.age = s.age
    <3>. HIDE DEF left, of
    <3>. QED  BY DEF ClientSocket
  <2>. HIDE DEF c
  <2>. QED  BY <2>1, <2>2, <2>4, <2>5, EarnedReplaced DEF Earned
<1>8. CASE ResetAnswered
  <2>. DEFINE s == [sockets[at] EXCEPT !.age = 0, !.first = FALSE, !.timeout = FALSE]
  <2>1. Visiting /\ sockets' = [sockets EXCEPT ![Slot].age = 0, ![Slot].first = FALSE,
                                                ![Slot].timeout = FALSE]
    BY <1>8 DEF ResetAnswered
  <2>2. /\ at \in 1 .. Len(sockets) /\ Slot = at /\ sockets[at] \in ClientSocket
        /\ sockets \in Seq(ClientSocket)
    BY <2>1, VisitFacts DEF Aligned, TypeOK
  <2>3. sockets' = [sockets EXCEPT ![at] = s]
    BY <2>1, <2>2
  <2>4. s.timeout = FALSE
    BY <2>2 DEF ClientSocket
  <2>. HIDE DEF s
  <2>. QED  BY <2>1, <2>3, <2>4, EarnedReplaced DEF Earned
<1>9. CASE \/ Interrupt \/ Poll \/ PollInterrupted \/ AcceptSkips \/ AcceptLeaks
           \/ SkipQuiet \/ SendKills \/ EndIteration \/ UNCHANGED vars
  <2>1. UNCHANGED sockets
    BY <1>9 DEF Interrupt, Poll, PollInterrupted, Stop, AcceptSkips, AcceptLeaks, SkipQuiet,
                SendKills, EndIteration, vars, vectors
  <2>. QED  BY <1>2, <2>1
<1>. QED
  BY <1>1, <1>3, <1>4, <1>5, <1>6, <1>7, <1>8, <1>9 DEF Next, Server, Serve

\* No connection is refused for the lateness of an earlier request: with any limit the
\* mark is_timeout() sets is there only while the time of the connection is over.
THEOREM TimeoutsAreEarned == Spec => []TimeoutsEarned
<1>1. Init => Aligned /\ TimeoutsEarned
  BY InitAligned DEF Init, TimeoutsEarned
<1>2. Aligned /\ TimeoutsEarned /\ [Next]_vars => (Aligned /\ TimeoutsEarned)'
  BY NextAligned, NextEarned
<1>. QED  BY <1>1, <1>2, PTL DEF Spec
=============================================================================

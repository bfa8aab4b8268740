--------------------------- MODULE ClientSlotsProofs ---------------------------
(***************************************************************************)
(* Proofs about ClientSlots: a client that nobody was removed in front of  *)
(* has its own headers only, and is answered as if it were alone, for any  *)
(* number of clients and any requests.                                     *)
(***************************************************************************)
EXTENDS ClientSlots, TLAPS, WellFoundedInduction

-------------------------------------------------------------------------------
(* The inductive invariant                                                     *)

Values  == {f.is : f \in Fields} \cup {Nothing, 0}
Maps    == UNION {[D -> [of : Peers, is : Values]] : D \in SUBSET Names}
Phases  == {"head", "body", "answer"}
Read    == Heads \cup {Nothing}
Codes   == {0, 200, 400, 408, 411, 415}
Clients ==
    [peer : Peers, phase : Phases, head : Read, status : Codes, alive : BOOLEAN,
     length : Values, left : BOOLEAN, req : Maps, res : Maps]

Typed ==
    /\ clients \in Seq(Clients) /\ Len(clients) <= MaxClients
    /\ moved \subseteq Connected
    /\ \A k \in DOMAIN clients : clients[k].phase = "body" => clients[k].head \in Heads
    /\ \A j, k \in DOMAIN clients : clients[j].peer = clients[k].peer => j = k

\* A client as it would be without others.
Plain(c) ==
    /\ c.phase = "head" => c.req = NoHeaders /\ c.res = NoHeaders /\ c.status = 0 /\ c.alive
    /\ c.phase = "body" =>
          LET head == Headed(Fresh(c.peer), c.head) IN
              c.req = head.req /\ c.res = NoHeaders /\ c.status = head.status /\ c.alive
    /\ c.phase = "answer" =>
          /\ Own(c.peer, c.req) /\ Own(c.peer, c.res)
          /\ c.head # Nothing =>
                LET alone == Alone(c.peer, c.head) IN
                    /\ c.status = alone.status /\ c.alive = alone.alive
                    /\ c.req = alone.req /\ c.res = alone.res

Inv ==
    /\ Typed
    /\ \A k \in DOMAIN clients : clients[k].peer \notin moved => Plain(clients[k])

-------------------------------------------------------------------------------
(* Maps                                                                        *)

\* The first field of a name, which is the one that counts (Parser.cpp:173-260).
LEMMA FirstThere ==
    ASSUME NEW T \in SUBSET Nat, T # {}
    PROVE  \E i \in T : \A j \in T : i <= j
<1>. DEFINE less == {ss \in Nat \X Nat : ss[1] < ss[2]}
<1>1. IsWellFoundedOn(less, Nat)
  BY NatLessThanWellFounded, Zenon DEF OpToRel
<1>2. PICK i \in T : \A j \in T : <<j, i>> \notin less
  BY <1>1, WFMin, Zenon
<1>3. ASSUME NEW j \in T  PROVE i <= j
  <2>1. i \in Nat /\ j \in Nat /\ <<j, i>> \in Nat \X Nat
    OBVIOUS
  <2>2. ~(j < i)
    BY <1>2, <2>1
  <2>. QED  BY <2>1, <2>2
<1>. QED  BY <1>3

\* Analysed() keeps what is there and adds values of this peer (Parser.cpp:164-283).
LEMMA AnalysedMap ==
    ASSUME NEW map \in Maps, NEW p \in Peers, NEW h \in Heads
    PROVE  /\ Analysed(map, p, h.fields) \in Maps
           /\ Own(p, map) => Own(p, Analysed(map, p, h.fields))
<1>. DEFINE fields   == h.fields
            heard    == {i \in DOMAIN fields : \A s \in SecondHost(map, fields) : i < s}
            said     == {fields[i].name : i \in heard}
            first(n) == CHOOSE i \in heard : /\ fields[i].name = n
                                             /\ \A j \in heard : fields[j].name = n => i <= j
            result   == [n \in DOMAIN map \cup said |->
                            IF n \in DOMAIN map THEN map[n] ELSE Value(p, fields[first(n)].is)]
<1>1. fields \in Seq(Fields) /\ DOMAIN fields \subseteq Nat
  BY SlotAssumption
<1>2. \A i \in DOMAIN fields : fields[i] \in Fields
  BY <1>1
<1>3. ASSUME NEW n \in said  PROVE n \in Names /\ fields[first(n)].is \in Values
  <2>. DEFINE T == {i \in heard : fields[i].name = n}
  <2>1. T \in SUBSET Nat /\ T # {}
    BY <1>1
  <2>2. PICK i \in T : \A j \in T : i <= j
    BY <2>1, FirstThere
  <2>3. first(n) \in heard
    BY <2>2
  <2>. QED  BY <1>2, <2>3 DEF Names, Values
<1>4. PICK D \in SUBSET Names : map \in [D -> [of : Peers, is : Values]]
  BY DEF Maps
<1>5. result \in [D \cup said -> [of : Peers, is : Values]]
  BY <1>3, <1>4 DEF Value
<1>6. D \cup said \in SUBSET Names
  BY <1>3
<1>7. result \in Maps
  BY <1>5, <1>6 DEF Maps
<1>8. Own(p, map) => Own(p, result)
  BY <1>4 DEF Own, Value
<1>9. Analysed(map, p, h.fields) = result
  BY DEF Analysed
<1>. QED  BY <1>7, <1>8, <1>9

\* addNewPair() keeps what is there (HTTPMessage.cpp:39-42).
LEMMA AddMap ==
    ASSUME NEW map \in Maps, NEW p \in Peers
    PROVE  LET sum == Add(map, "Content-Length", Value(p, Nothing)) IN
              sum \in Maps /\ (Own(p, map) => Own(p, sum))
<1>. DEFINE sum == Add(map, "Content-Length", Value(p, Nothing))
<1>1. PICK D \in SUBSET Names : map \in [D -> [of : Peers, is : Values]]
  BY DEF Maps
<1>2. sum \in [D \cup {"Content-Length"} -> [of : Peers, is : Values]]
  BY <1>1 DEF Add, Value, Values
<1>3. D \cup {"Content-Length"} \in SUBSET Names
  BY DEF Names
<1>4. sum \in Maps
  BY <1>2, <1>3 DEF Maps
<1>5. Own(p, map) => Own(p, sum)
  BY <1>1 DEF Own, Add, Value
<1>. QED  BY <1>4, <1>5

\* The empty map.
LEMMA EmptyMap == NoHeaders \in Maps /\ \A p \in Peers : Own(p, NoHeaders)
<1>1. NoHeaders \in [{} -> [of : Peers, is : Values]]
  BY DEF NoHeaders
<1>. QED  BY <1>1 DEF Maps, Own, NoHeaders

-------------------------------------------------------------------------------
(* One client                                                                  *)

\* A client that has just come, or was reset, is a plain one (ClientLifespan.cpp:10-51).
LEMMA FreshFacts ==
    ASSUME NEW p \in Peers, NEW left \in BOOLEAN
    PROVE  LET c == [Fresh(p) EXCEPT !.left = left] IN
              c \in Clients /\ c.peer = p /\ c.phase = "head" /\ Plain(c)
BY EmptyMap DEF Fresh, Clients, Values, Phases, Read, Codes, Plain

LEMMA FreshClient ==
    ASSUME NEW p \in Peers
    PROVE  Fresh(p) \in Clients /\ Fresh(p).peer = p /\ Fresh(p).phase = "head" /\ Plain(Fresh(p))
BY EmptyMap DEF Fresh, Clients, Values, Phases, Read, Codes, Plain

\* What the head of a request changes (main.cpp:339-363).
LEMMA HeadedFacts ==
    ASSUME NEW c \in Clients, NEW h \in Heads
    PROVE  LET d == Headed(c, h) IN
              /\ d \in Clients /\ d.peer = c.peer /\ d.phase = "body" /\ d.head = h
              /\ d.req = Analysed(c.req, c.peer, h.fields) /\ d.res = c.res
              /\ d.status = HeadStatus(c.req, h, Analysed(c.req, c.peer, h.fields))
              /\ d.alive = c.alive
<1>. DEFINE req == Analysed(c.req, c.peer, h.fields)
<1>1. c.req \in Maps /\ c.peer \in Peers
  BY DEF Clients
<1>2. req \in Maps
  BY <1>1, AnalysedMap
<1>. DEFINE status == HeadStatus(c.req, h, req)
            length == IF "Content-Length" \in DOMAIN req THEN req["Content-Length"].is ELSE c.length
<1>3. status \in Codes
  BY DEF HeadStatus, Codes
<1>4. length \in Values
  BY <1>2 DEF Maps, Clients
<1>5. h \in Read /\ "body" \in Phases
  BY DEF Read, Phases
<1>6. Headed(c, h) = [c EXCEPT !.head = h, !.req = req, !.phase = "body", !.status = status,
                              !.length = length]
  BY DEF Headed
<1>. HIDE DEF req, status, length
<1>7. Headed(c, h) = [peer |-> c.peer, phase |-> "body", head |-> h, status |-> status,
                      alive |-> c.alive, length |-> length, left |-> c.left, req |-> req,
                      res |-> c.res]
  BY <1>6 DEF Clients
<1>8. Headed(c, h) \in Clients
  BY <1>2, <1>3, <1>4, <1>5, <1>7 DEF Clients
<1>9. /\ Headed(c, h).peer = c.peer /\ Headed(c, h).phase = "body" /\ Headed(c, h).head = h
      /\ Headed(c, h).req = req /\ Headed(c, h).res = c.res /\ Headed(c, h).status = status
      /\ Headed(c, h).alive = c.alive
  BY <1>7
<1>. QED  BY <1>8, <1>9 DEF req, status

\* What an answer changes (Process.cpp:8-40, ResBuilderUtils.cpp:64).
LEMMA AnsweredFacts ==
    ASSUME NEW c \in Clients
    PROVE  LET d == Answered(c) IN
              /\ d \in Clients /\ d.peer = c.peer /\ d.phase = "answer" /\ d.head = c.head
              /\ d.req = c.req /\ d.res = Add(c.res, "Content-Length", Value(c.peer, Nothing))
              /\ d.status = IF c.status = 0 THEN IF Unsupported(c) THEN 415 ELSE 200 ELSE c.status
              /\ d.alive = (c.alive /\ ~(c.status = 0 /\ Has(c.req, "Connection", "close")))
<1>1. Add(c.res, "Content-Length", Value(c.peer, Nothing)) \in Maps
  BY AddMap DEF Clients
<1>. DEFINE status == IF c.status = 0 THEN IF Unsupported(c) THEN 415 ELSE 200 ELSE c.status
            alive  == c.alive /\ ~(c.status = 0 /\ Has(c.req, "Connection", "close"))
            res    == Add(c.res, "Content-Length", Value(c.peer, Nothing))
<1>2. status \in Codes /\ alive \in BOOLEAN /\ 0 \in Values /\ "answer" \in Phases
  BY DEF Clients, Codes, Values, Phases
<1>3. Answered(c) = [c EXCEPT !.phase = "answer", !.length = 0, !.status = status,
                              !.alive = alive, !.res = res]
  BY DEF Answered
<1>. HIDE DEF status, alive, res
<1>4. Answered(c) = [peer |-> c.peer, phase |-> "answer", head |-> c.head, status |-> status,
                     alive |-> alive, length |-> 0, left |-> c.left, req |-> c.req, res |-> res]
  BY <1>3 DEF Clients
<1>5. Answered(c) \in Clients
  BY <1>1, <1>2, <1>4 DEF Clients, res
<1>6. /\ Answered(c).peer = c.peer /\ Answered(c).phase = "answer" /\ Answered(c).head = c.head
      /\ Answered(c).req = c.req /\ Answered(c).res = res /\ Answered(c).status = status
      /\ Answered(c).alive = alive
  BY <1>4
<1>. QED  BY <1>5, <1>6 DEF status, alive, res

\* Refused() is an answer without a head (main.cpp:299-311, 244-255).
LEMMA RefusedFacts ==
    ASSUME NEW c \in Clients, NEW s \in {400, 408}
    PROVE  LET d == Refused(c, s) IN
              /\ d \in Clients /\ d.peer = c.peer /\ d.phase = "answer" /\ d.head = Nothing
              /\ d.req = c.req /\ d.res = Add(c.res, "Content-Length", Value(c.peer, Nothing))
<1>. DEFINE e == [c EXCEPT !.status = s, !.head = Nothing]
<1>0. e = [c EXCEPT !.status = s, !.head = Nothing]
  OBVIOUS
<1>. HIDE DEF e
<1>1. e = [peer |-> c.peer, phase |-> c.phase, head |-> Nothing, status |-> s, alive |-> c.alive,
           length |-> c.length, left |-> c.left, req |-> c.req, res |-> c.res]
  BY <1>0 DEF Clients
<1>2. s \in Codes /\ Nothing \in Read
  BY DEF Codes, Read
<1>. DEFINE a == Answered(e)  d == Refused(c, s)
<1>3. d = [a EXCEPT !.alive = FALSE]
  BY DEF Refused, e
<1>. HIDE DEF a, d
<1>4. e \in Clients /\ e.peer = c.peer /\ e.head = Nothing /\ e.req = c.req /\ e.res = c.res
  BY <1>1, <1>2 DEF Clients
<1>5. /\ a \in Clients /\ a.peer = e.peer /\ a.phase = "answer" /\ a.head = e.head
      /\ a.req = e.req /\ a.res = Add(e.res, "Content-Length", Value(e.peer, Nothing))
  BY <1>4, AnsweredFacts DEF a
<1>6. d = [peer |-> a.peer, phase |-> a.phase, head |-> a.head, status |-> a.status,
           alive |-> FALSE, length |-> a.length, left |-> a.left, req |-> a.req, res |-> a.res]
  BY <1>3, <1>5 DEF Clients
<1>7. d \in Clients
  BY <1>5, <1>6 DEF Clients
<1>. QED  BY <1>4, <1>5, <1>6, <1>7 DEF d

\* A plain client that is refused is a plain client.
LEMMA RefusedPlain ==
    ASSUME NEW c \in Clients, Plain(c), c.phase \in {"head", "body"}, NEW s \in {400, 408},
           c.phase = "body" => c.head \in Heads
    PROVE  Plain(Refused(c, s))
<1>1. Own(c.peer, c.req) /\ Own(c.peer, c.res)
  <2>1. c.peer \in Peers
    BY DEF Clients
  <2>2. CASE c.phase = "head"
    BY <2>1, <2>2, EmptyMap DEF Plain
  <2>3. CASE c.phase = "body"
    BY <2>1, <2>3, EmptyMap, FreshClient, HeadedFacts, AnalysedMap DEF Plain, Fresh
  <2>. QED  BY <2>2, <2>3
<1>2. Own(c.peer, Add(c.res, "Content-Length", Value(c.peer, Nothing)))
  BY <1>1, AddMap DEF Clients
<1>. QED  BY <1>1, <1>2, RefusedFacts DEF Plain

\* A plain client whose head is read is answered as if alone, or waits for its body.
LEMMA HeadedPlain ==
    ASSUME NEW c \in Clients, Plain(c), c.phase = "head", NEW h \in Heads
    PROVE  Plain(Headed(c, h))
<1>1. c.peer \in Peers /\ c.req = NoHeaders /\ c.res = NoHeaders /\ c.alive
  BY DEF Plain, Clients
<1>2. Headed(Fresh(c.peer), h).req = Analysed(NoHeaders, c.peer, h.fields)
      /\ Headed(Fresh(c.peer), h).status
            = HeadStatus(NoHeaders, h, Analysed(NoHeaders, c.peer, h.fields))
  BY <1>1, FreshClient, HeadedFacts DEF Fresh
<1>. QED  BY <1>1, <1>2, HeadedFacts DEF Plain

\* Completed() is a client with its answer, and a plain one if it was plain.
LEMMA CompletedFacts ==
    ASSUME NEW c \in Clients, c.head \in Heads, c.phase = "body"
    PROVE  LET d == Completed(c) IN
              /\ d \in Clients /\ d.peer = c.peer /\ d.phase = "answer"
              /\ Plain(c) => Plain(d)
<1>. DEFINE d == Completed(c)  a == Answered(c)
<1>1. /\ a \in Clients /\ d \in Clients /\ d.peer = a.peer /\ d.phase = a.phase /\ d.head = a.head
      /\ d.req = a.req /\ d.res = a.res /\ d.status = a.status /\ d.alive = a.alive
  <2>1. a \in Clients
    BY AnsweredFacts
  <2>. DEFINE left == c.length < c.head.sends
  <2>2. d = [a EXCEPT !.left = left] /\ left \in BOOLEAN
    BY DEF Completed
  <2>. HIDE DEF a, d, left
  <2>. QED  BY <2>1, <2>2 DEF Clients
<1>2. ASSUME Plain(c)  PROVE Plain(d)
  <2>. DEFINE head == Headed(Fresh(c.peer), c.head)
  <2>1. c.peer \in Peers
    BY DEF Clients
  <2>2. /\ head \in Clients /\ head.peer = c.peer /\ head.res = NoHeaders /\ head.alive = TRUE
        /\ head.head = c.head /\ head.req = Analysed(NoHeaders, c.peer, c.head.fields)
    BY <2>1, FreshClient, HeadedFacts DEF Fresh
  <2>. HIDE DEF head
  <2>3. c.req = head.req /\ c.res = head.res /\ c.status = head.status /\ c.alive = head.alive
    BY <1>2, <2>2 DEF Plain, head, Clients
  <2>4. Own(c.peer, c.req) /\ Own(c.peer, a.res)
    BY <2>1, <2>2, <2>3, EmptyMap, AnalysedMap, AddMap, AnsweredFacts
  <2>5. Unsupported(c) = Unsupported(head)
    BY <2>2, <2>3 DEF Unsupported, ContentType
  <2>6. a.status = Answered(head).status /\ a.req = Answered(head).req /\ a.res = Answered(head).res
    BY <2>2, <2>3, <2>5, AnsweredFacts
  <2>7. a.alive = Answered(head).alive
    BY <2>2, <2>3, AnsweredFacts
  <2>. QED  BY <1>1, <2>4, <2>6, <2>7, AnsweredFacts DEF Plain, Alone, head
<1>. QED  BY <1>1, <1>2, AnsweredFacts

-------------------------------------------------------------------------------
(* The vector                                                                  *)

\* Before the first client has come.
THEOREM InitInv == Init => Inv
BY SlotAssumption DEF Init, Inv, Typed, Connected

\* A client changed in its place (main.cpp:198-575).
LEMMA InPlaceKeeps ==
    ASSUME Inv, NEW k \in DOMAIN clients, NEW c \in Clients, c.peer = clients[k].peer,
           c.phase = "body" => c.head \in Heads,
           moved' \subseteq moved, moved \ {c.peer} \subseteq moved',
           c.peer \notin moved' => Plain(c),
           clients' = [clients EXCEPT ![k] = c]
    PROVE  Inv'
<1>1. clients \in Seq(Clients) /\ clients' \in Seq(Clients)
      /\ Len(clients') = Len(clients) /\ DOMAIN clients' = DOMAIN clients
  BY DEF Inv, Typed
<1>2. \A j \in DOMAIN clients : clients'[j] = IF j = k THEN c ELSE clients[j]
  BY <1>1
<1>3. \A j \in DOMAIN clients : clients'[j].peer = clients[j].peer
  BY <1>2
<1>4. Connected' = Connected
  BY <1>1, <1>3 DEF Connected
<1>5. Typed'
  <2>1. Len(clients') <= MaxClients /\ (moved \subseteq Connected)'
    BY <1>1, <1>4 DEF Inv, Typed
  <2>2. \A j \in DOMAIN clients' : clients'[j].phase = "body" => clients'[j].head \in Heads
    BY <1>1, <1>2 DEF Inv, Typed
  <2>3. \A i, j \in DOMAIN clients' : clients'[i].peer = clients'[j].peer => i = j
    BY <1>1, <1>3 DEF Inv, Typed
  <2>. QED  BY <1>1, <2>1, <2>2, <2>3 DEF Typed
<1>6. ASSUME NEW j \in DOMAIN clients, clients'[j].peer \notin moved'
      PROVE  Plain(clients'[j])
  <2>1. CASE j = k
    BY <1>2, <1>6, <2>1
  <2>2. CASE j # k
    <3>1. clients[j].peer # c.peer
      BY <2>2 DEF Inv, Typed
    <3>2. clients[j].peer \notin moved
      BY <1>3, <1>6, <3>1
    <3>. QED  BY <1>2, <2>2, <3>2 DEF Inv
  <2>. QED  BY <2>1, <2>2
<1>. QED  BY <1>1, <1>5, <1>6 DEF Inv

\* accept_client() and push_back() (main.cpp:175-194).
LEMMA AcceptKeeps ==
    ASSUME Inv, NEW p \in Peers, Accept(p)
    PROVE  Inv'
<1>1. clients \in Seq(Clients) /\ Fresh(p) \in Clients /\ Len(clients) \in Nat
  BY FreshClient DEF Inv, Typed
<1>2. clients' = Append(clients, Fresh(p)) /\ moved' = moved \ {p}
  BY DEF Accept
<1>3. /\ clients' \in Seq(Clients) /\ Len(clients') = Len(clients) + 1
      /\ DOMAIN clients = 1 .. Len(clients) /\ DOMAIN clients' = 1 .. (Len(clients) + 1)
      /\ \A j \in DOMAIN clients : clients'[j] = clients[j]
      /\ clients'[Len(clients) + 1] = Fresh(p)
  BY <1>1, <1>2
<1>4. \A j \in DOMAIN clients : clients[j].peer # p
  BY DEF Accept, Connected
<1>5. \A j \in DOMAIN clients' : j \in DOMAIN clients \/ j = Len(clients) + 1
  BY <1>1, <1>3
<1>6. Fresh(p).peer = p /\ Fresh(p).phase = "head" /\ Plain(Fresh(p))
  BY FreshClient
<1>7. Typed'
  <2>1. Len(clients') <= MaxClients
    BY <1>1, <1>3, SlotAssumption DEF Accept
  <2>2. (moved \subseteq Connected)'
    <3>1. Connected \subseteq Connected'
      BY <1>1, <1>3 DEF Connected
    <3>. QED  BY <1>2, <3>1 DEF Inv, Typed
  <2>3. \A j \in DOMAIN clients' : clients'[j].phase = "body" => clients'[j].head \in Heads
    BY <1>3, <1>5, <1>6 DEF Inv, Typed
  <2>4. \A i, j \in DOMAIN clients' : clients'[i].peer = clients'[j].peer => i = j
    BY <1>3, <1>4, <1>5, <1>6 DEF Inv, Typed
  <2>. QED  BY <1>3, <2>1, <2>2, <2>3, <2>4 DEF Typed
<1>8. ASSUME NEW j \in DOMAIN clients', clients'[j].peer \notin moved'
      PROVE  Plain(clients'[j])
  BY <1>2, <1>3, <1>4, <1>5, <1>6, <1>8 DEF Inv
<1>. QED  BY <1>7, <1>8 DEF Inv

\* erase(): those in front keep what they have, those behind are marked
\* (ClientLifespan.cpp:53-67, Request.cpp:24-31).
LEMMA EraseKeeps ==
    ASSUME Inv, NEW k \in DOMAIN clients, Erase(k)
    PROVE  Inv'
<1>. DEFINE n == Len(clients)
            slid(j) == [clients[j + 1] EXCEPT !.req = clients[j].req, !.res = clients[j].res]
<1>1. clients \in Seq(Clients) /\ n \in Nat /\ DOMAIN clients = 1 .. n /\ k \in 1 .. n
      /\ \A j \in 1 .. n : clients[j] \in Clients
  BY DEF Inv, Typed
<1>2. clients' = [j \in 1 .. (n - 1) |-> IF j < k THEN clients[j] ELSE slid(j)]
  BY DEF Erase
<1>3. \A j \in 1 .. (n - 1) : j \in 1 .. n /\ j + 1 \in 1 .. n
  BY <1>1
<1>4. ASSUME NEW j \in 1 .. (n - 1)
      PROVE  /\ slid(j) \in Clients /\ slid(j).peer = clients[j + 1].peer
             /\ slid(j).phase = clients[j + 1].phase /\ slid(j).head = clients[j + 1].head
  <2>. DEFINE a == clients[j]  b == clients[j + 1]
  <2>1. a \in Clients /\ b \in Clients
    BY <1>1, <1>3
  <2>. HIDE DEF a, b
  <2>2. [b EXCEPT !.req = a.req, !.res = a.res] \in Clients
    BY <2>1 DEF Clients
  <2>3. LET d == [b EXCEPT !.req = a.req, !.res = a.res] IN
           d.peer = b.peer /\ d.phase = b.phase /\ d.head = b.head
    BY <2>1 DEF Clients
  <2>. QED  BY <2>2, <2>3 DEF a, b
<1>. DEFINE from(j) == IF j < k THEN j ELSE j + 1
<1>5. ASSUME NEW j \in 1 .. (n - 1)
      PROVE  /\ clients'[j] \in Clients /\ from(j) \in 1 .. n /\ from(j) # k
             /\ clients'[j].peer = clients[from(j)].peer
             /\ clients'[j].phase = clients[from(j)].phase
             /\ clients'[j].head = clients[from(j)].head
  <2>. HIDE DEF slid
  <2>1. clients'[j] = IF j < k THEN clients[j] ELSE slid(j)
    BY <1>2
  <2>2. CASE j < k
    BY <1>1, <1>3, <2>1, <2>2
  <2>3. CASE ~(j < k)
    BY <1>1, <1>3, <1>4, <2>1, <2>3
  <2>. QED  BY <2>2, <2>3
<1>6. clients' \in Seq(Clients) /\ Len(clients') = n - 1 /\ DOMAIN clients' = 1 .. (n - 1)
  <2>. HIDE DEF n, slid
  <2>1. n - 1 \in Nat
    BY <1>1
  <2>2. clients' \in [1 .. (n - 1) -> Clients]
    BY <1>2, <1>5
  <2>. QED  BY <2>1, <2>2
<1>7. moved' = (moved \ {clients[k].peer}) \cup {clients[j].peer : j \in (k + 1) .. n}
  BY DEF Erase
<1>8. \A i, j \in 1 .. n : clients[i].peer = clients[j].peer => i = j
  BY <1>1 DEF Inv, Typed
<1>9. \A i \in 1 .. n : i # k => \E j \in 1 .. (n - 1) : clients'[j].peer = clients[i].peer
  <2>. SUFFICES ASSUME NEW i \in 1 .. n, i # k
                PROVE  \E j \in 1 .. (n - 1) : from(j) = i
    BY <1>5
  <2>1. CASE i < k
    BY <1>1, <2>1
  <2>2. CASE i > k
    <3>1. i - 1 \in 1 .. (n - 1) /\ from(i - 1) = i
      BY <1>1, <2>2
    <3>. QED  BY <3>1
  <2>. QED  BY <1>1, <2>1, <2>2
<1>10. Typed'
  <2>1. Len(clients') <= MaxClients
    BY <1>1, <1>6, SlotAssumption DEF Inv, Typed
  <2>2. (moved \subseteq Connected)'
    <3>1. Connected = {clients[i].peer : i \in 1 .. n}
      BY <1>1 DEF Connected
    <3>2. Connected' = {clients'[j].peer : j \in 1 .. (n - 1)}
      BY <1>6 DEF Connected
    <3>3. \A i \in 1 .. n : i # k => clients[i].peer \in Connected'
      BY <1>9, <3>2
    <3>4. moved \subseteq Connected
      BY DEF Inv, Typed
    <3>5. \A p \in moved \ {clients[k].peer} : p \in Connected'
      BY <3>1, <3>3, <3>4
    <3>6. \A j \in (k + 1) .. n : clients[j].peer \in Connected'
      BY <1>1, <3>3
    <3>. QED  BY <1>7, <3>5, <3>6
  <2>3. \A j \in DOMAIN clients' : clients'[j].phase = "body" => clients'[j].head \in Heads
    <3>1. \A i \in 1 .. n : clients[i].phase = "body" => clients[i].head \in Heads
      BY <1>1 DEF Inv, Typed
    <3>. QED  BY <1>5, <1>6, <3>1
  <2>4. ASSUME NEW i \in DOMAIN clients', NEW j \in DOMAIN clients',
               clients'[i].peer = clients'[j].peer
        PROVE  i = j
    <3>1. from(i) = from(j)
      BY <1>5, <1>6, <1>8, <2>4
    <3>. QED  BY <1>1, <1>6, <3>1
  <2>. QED  BY <1>6, <2>1, <2>2, <2>3, <2>4 DEF Typed
<1>11. ASSUME NEW j \in DOMAIN clients', clients'[j].peer \notin moved'
       PROVE  Plain(clients'[j])
  <2>1. j \in 1 .. (n - 1) /\ from(j) \in 1 .. n /\ clients'[j].peer = clients[from(j)].peer
    BY <1>5, <1>6
  <2>2. j < k
    BY <1>1, <1>7, <1>11, <2>1
  <2>3. clients'[j] = clients[j] /\ j \in DOMAIN clients
    BY <1>1, <1>2, <2>1, <2>2
  <2>4. clients[j].peer \notin moved
    BY <1>1, <1>7, <1>8, <1>11, <2>2, <2>3
  <2>. QED  BY <2>3, <2>4 DEF Inv
<1>. QED  BY <1>10, <1>11 DEF Inv

-------------------------------------------------------------------------------
(* The steps                                                                   *)

\* A head read, with the answer if no body is to come (main.cpp:283-363, 478-519).
LEMMA HeadReadKeeps ==
    ASSUME Inv, NEW k \in DOMAIN clients, HeadRead(k)
    PROVE  Inv'
<1>1. PICK h \in Heads :
         LET c == Headed(clients[k], h) IN InPlace(k, IF c.length = 0 THEN Completed(c) ELSE c)
  BY DEF HeadRead
<1>. DEFINE c == Headed(clients[k], h)  d == IF c.length = 0 THEN Completed(c) ELSE c
<1>2. clients[k] \in Clients /\ clients[k].phase = "head"
  BY DEF Inv, Typed, HeadRead
<1>3. c \in Clients /\ c.peer = clients[k].peer /\ c.phase = "body" /\ c.head \in Heads
  BY <1>2, HeadedFacts
<1>4. clients[k].peer \notin moved => Plain(c)
  BY <1>2, HeadedPlain DEF Inv
<1>5. /\ d.phase = "body" => d.head \in Heads
      /\ clients[k].peer \notin moved => Plain(d)
  <2>. HIDE DEF c
  <2>. QED  BY <1>3, <1>4, CompletedFacts
<1>6. d \in Clients /\ d.peer = clients[k].peer
  <2>. HIDE DEF c
  <2>. QED  BY <1>3, CompletedFacts
<1>7. clients' = [clients EXCEPT ![k] = d] /\ moved' = moved
  BY <1>1 DEF InPlace
<1>. HIDE DEF d
<1>. QED  BY <1>5, <1>6, <1>7, InPlaceKeeps

\* A refusal: the rest of a body, or a request that is late (main.cpp:244-255, 299-311).
LEMMA RefusalKeeps ==
    ASSUME Inv, NEW k \in DOMAIN clients, NEW s \in {400, 408},
           clients[k].phase \in {"head", "body"}, InPlace(k, Refused(clients[k], s))
    PROVE  Inv'
<1>. DEFINE d == Refused(clients[k], s)
<1>1. clients[k] \in Clients /\ (clients[k].phase = "body" => clients[k].head \in Heads)
  BY DEF Inv, Typed
<1>2. d \in Clients /\ d.peer = clients[k].peer /\ d.phase = "answer"
  BY <1>1, RefusedFacts
<1>3. clients[k].peer \notin moved => Plain(d)
  BY <1>1, RefusedPlain DEF Inv
<1>4. clients' = [clients EXCEPT ![k] = d] /\ moved' = moved
  BY DEF InPlace
<1>. HIDE DEF d
<1>5. d.phase # "body" /\ moved' \subseteq moved /\ moved \ {d.peer} \subseteq moved'
  BY <1>2, <1>4
<1>6. d.peer \notin moved' => Plain(d)
  BY <1>2, <1>3, <1>4
<1>. QED  BY <1>2, <1>4, <1>5, <1>6, InPlaceKeeps

\* A body read (main.cpp:504-519).
LEMMA BodyReadKeeps ==
    ASSUME Inv, NEW k \in DOMAIN clients, BodyRead(k)
    PROVE  Inv'
<1>. DEFINE d == Completed(clients[k])
<1>1. clients[k] \in Clients /\ clients[k].head \in Heads /\ clients[k].phase = "body"
  BY DEF Inv, Typed, BodyRead
<1>2. d \in Clients /\ d.peer = clients[k].peer /\ d.phase = "answer"
      /\ (clients[k].peer \notin moved => Plain(d))
  BY <1>1, CompletedFacts DEF Inv
<1>3. clients' = [clients EXCEPT ![k] = d] /\ moved' = moved
  BY DEF BodyRead, InPlace
<1>. HIDE DEF d
<1>. QED  BY <1>2, <1>3, InPlaceKeeps

\* ResetClient() (ClientLifespan.cpp:28-51).
LEMMA ResetKeeps ==
    ASSUME Inv, NEW k \in DOMAIN clients, ResetClient(k)
    PROVE  Inv'
<1>. DEFINE d == [Fresh(clients[k].peer) EXCEPT !.left = clients[k].left]
<1>1. clients[k].peer \in Peers /\ clients[k].left \in BOOLEAN
  <2>1. clients[k] \in Clients
    BY DEF Inv, Typed
  <2>. QED  BY <2>1 DEF Clients
<1>2. d \in Clients /\ d.peer = clients[k].peer /\ d.phase = "head" /\ Plain(d)
  BY <1>1, FreshFacts
<1>3. clients' = [clients EXCEPT ![k] = d] /\ moved' = moved \ {clients[k].peer}
  BY DEF ResetClient
<1>. HIDE DEF d
<1>. QED  BY <1>2, <1>3, InPlaceKeeps

\* No step of the server breaks the invariant.
THEOREM NextInv == Inv /\ [Next]_vars => Inv'
<1>. SUFFICES ASSUME Inv, [Next]_vars  PROVE Inv'
  OBVIOUS
<1>1. ASSUME NEW p \in Peers, Accept(p)  PROVE Inv'
  BY <1>1, AcceptKeeps
<1>2. ASSUME NEW k \in DOMAIN clients, HeadRead(k)  PROVE Inv'
  BY <1>2, HeadReadKeeps
<1>3. ASSUME NEW k \in DOMAIN clients, RestRead(k)  PROVE Inv'
  BY <1>3, RefusalKeeps DEF RestRead
<1>4. ASSUME NEW k \in DOMAIN clients, BodyRead(k)  PROVE Inv'
  BY <1>4, BodyReadKeeps
<1>5. ASSUME NEW k \in DOMAIN clients, Timeout(k)  PROVE Inv'
  BY <1>5, RefusalKeeps DEF Timeout
<1>6. ASSUME NEW k \in DOMAIN clients, ResetClient(k)  PROVE Inv'
  BY <1>6, ResetKeeps
<1>7. ASSUME NEW k \in DOMAIN clients, Close(k) \/ Drop(k)  PROVE Inv'
  BY <1>7, EraseKeeps DEF Close, Drop
<1>8. CASE UNCHANGED vars
  BY <1>8 DEF vars, Inv, Typed, Connected, Plain
<1>. QED  BY <1>1, <1>2, <1>3, <1>4, <1>5, <1>6, <1>7, <1>8 DEF Next

-------------------------------------------------------------------------------
(* The results                                                                 *)

\* The types, the capacity, and a peer in one place only (main.cpp:175-194).
THEOREM TypeCorrect == Spec => []TypeOK
<1>1. Inv => TypeOK
  <2>. SUFFICES ASSUME Inv  PROVE TypeOK
    OBVIOUS
  <2>1. \A k \in DOMAIN clients : clients[k] \in Clients
    BY DEF Inv, Typed
  <2>2. ASSUME NEW m \in Maps  PROVE DOMAIN m \subseteq Names
    BY DEF Maps
  <2>3. ASSUME NEW k \in DOMAIN clients
        PROVE  /\ clients[k].peer \in Peers /\ clients[k].head \in Heads \cup {Nothing}
               /\ clients[k].phase \in {"head", "body", "answer"}
               /\ clients[k].status \in {0, 200, 400, 408, 411, 415}
               /\ DOMAIN clients[k].req \cup DOMAIN clients[k].res \subseteq Names
    <3>1. clients[k].req \in Maps /\ clients[k].res \in Maps
      BY <2>1 DEF Clients
    <3>2. /\ clients[k].peer \in Peers /\ clients[k].head \in Read
          /\ clients[k].phase \in Phases /\ clients[k].status \in Codes
      BY <2>1 DEF Clients
    <3>. QED  BY <2>2, <3>1, <3>2 DEF Read, Phases, Codes
  <2>. QED  BY <2>3 DEF Inv, Typed, TypeOK
<1>. QED  BY <1>1, InitInv, NextInv, PTL DEF Spec

\* Headers stay with their client unless somebody in front of it is removed
\* (main.cpp:74-82, ClientLifespan.cpp:28-67).
THEOREM OwnHeaders == Spec => []OwnUnlessMoved
<1>1. Inv => OwnUnlessMoved
  <2>. SUFFICES ASSUME Inv, NEW k \in DOMAIN clients, clients[k].peer \notin moved
                PROVE  Own(clients[k].peer, clients[k].req) /\ Own(clients[k].peer, clients[k].res)
    BY DEF OwnUnlessMoved
  <2>. DEFINE c == clients[k]
  <2>1. c \in Clients /\ Plain(c) /\ (c.phase = "body" => c.head \in Heads)
    BY DEF Inv, Typed
  <2>. HIDE DEF c
  <2>2. c.peer \in Peers /\ c.phase \in Phases
    BY <2>1 DEF Clients
  <2>3. c.phase = "body" => Own(c.peer, c.req) /\ Own(c.peer, c.res)
    BY <2>1, <2>2, EmptyMap, FreshClient, HeadedFacts, AnalysedMap DEF Plain, Fresh
  <2>4. c.phase # "body" => Own(c.peer, c.req) /\ Own(c.peer, c.res)
    BY <2>1, <2>2, EmptyMap DEF Plain, Phases
  <2>. QED  BY <2>3, <2>4 DEF c
<1>. QED  BY <1>1, InitInv, NextInv, PTL DEF Spec

\* Such a client is answered as it would be without the others (Process.cpp:8-40).
THEOREM AloneInEffect == Spec => []AnsweredAsAlone
<1>1. Inv => AnsweredAsAlone
  BY DEF Inv, Plain, HasAnswer, AnsweredAsAlone
<1>. QED  BY <1>1, InitInv, NextInv, PTL DEF Spec
=============================================================================

------------------------------ MODULE ClientSlots ------------------------------
(***************************************************************************)
(* What a client has in its place in the vector `clients` of main()        *)
(* (src/src/main.cpp): the headers of its request and of its answer.       *)
(*                                                                         *)
(* When a client is removed vector::erase() assigns every later element to *)
(* the one in front of it.  Request::operator=() and Response::operator=() *)
(* assign every member but headers_, the map they inherit from             *)
(* HTTPMessage: so the maps stay where they are, and the clients move.     *)
(*                                                                         *)
(* Each value in a map is kept with the peer whose head, or whose answer,  *)
(* it was made for.  Bodies are counted; chunked ones, and refusals that   *)
(* do not depend on headers, are left out.                                 *)
(***************************************************************************)
EXTENDS Naturals, Sequences

CONSTANTS
    Peers,
    Heads,          \* what a peer may send: its fields, a sequence of [name, is], if it is
                    \* a POST, and how much body it sends
    MaxClients,     \* max_clients
    MimeTypes,      \* the media types the location accepts
    Nothing

Fields == UNION {{h.fields[i] : i \in DOMAIN h.fields} : h \in Heads}

ASSUME SlotAssumption ==
    /\ MaxClients \in Nat \ {0}
    /\ \A h \in Heads : h.fields \in Seq(Fields) /\ h.post \in BOOLEAN

Names  == {f.name : f \in Fields} \cup {"Content-Length"}

VARIABLES
    clients,    \* the vector
    moved       \* ghost: who was moved since its maps were last empty

vars == <<clients, moved>>

Value(p, v) == [of |-> p, is |-> v]
NoHeaders   == [n \in {} |-> Nothing]
Has(map, name, v) == name \in DOMAIN map /\ map[name].is = v

\* addNewPair(): a key that is there keeps its value.
Add(map, name, value) ==
    [n \in DOMAIN map \cup {name} |-> IF n \in DOMAIN map THEN map[n] ELSE value]

\* InitClient().
Fresh(p) ==
    [peer |-> p, phase |-> "head", head |-> Nothing, status |-> 0, alive |-> TRUE,
     length |-> 0, left |-> FALSE, req |-> NoHeaders, res |-> NoHeaders]

Connected == {clients[k].peer : k \in DOMAIN clients}

Init == clients = <<>> /\ moved = {}

-------------------------------------------------------------------------------
(* A request                                                                   *)

\* AnalysisRequestHeaders(): it stops at a Host when there is one already, and the first
\* of several other fields counts.
SecondHost(map, fields) ==
    {i \in DOMAIN fields : fields[i].name = "Host" /\
        ("Host" \in DOMAIN map \/ \E j \in 1 .. (i - 1) : fields[j].name = "Host")}

Analysed(map, p, fields) ==
    LET heard    == {i \in DOMAIN fields : \A s \in SecondHost(map, fields) : i < s}
        said     == {fields[i].name : i \in heard}
        first(n) == CHOOSE i \in heard : /\ fields[i].name = n
                                         /\ \A j \in heard : fields[j].name = n => i <= j
    IN  [n \in DOMAIN map \cup said |->
            IF n \in DOMAIN map THEN map[n] ELSE Value(p, fields[first(n)].is)]

\* ParseErrorToStatusCode(), CheckHeaderBeforeProcess().
HeadStatus(map, head, req) ==
    IF "Host" \notin DOMAIN req THEN 400
    ELSE IF head.post /\ "Content-Length" \notin DOMAIN req THEN 411
    ELSE IF SecondHost(map, head.fields) # {} THEN 400 ELSE 0

Headed(c, head) ==
    LET req == Analysed(c.req, c.peer, head.fields) IN
    [c EXCEPT !.head = head, !.req = req, !.phase = "body",
              !.status = HeadStatus(c.req, head, req),
              !.length = IF "Content-Length" \in DOMAIN req THEN req["Content-Length"].is ELSE @]

\* ProcessRequest() of a request that is not refused.
ContentType(map) ==
    IF "Content-Type" \in DOMAIN map THEN map["Content-Type"].is ELSE "application/octet-stream"
Unsupported(c) == c.head.post /\ ContentType(c.req) \notin MimeTypes

\* ProcessRequest() and, of the answer, its length.
Answered(c) ==
    [c EXCEPT !.phase = "answer", !.length = 0,
              !.status = IF @ = 0 THEN IF Unsupported(c) THEN 415 ELSE 200 ELSE @,
              !.alive = @ /\ ~(c.status = 0 /\ Has(c.req, "Connection", "close")),
              !.res = Add(@, "Content-Length", Value(c.peer, Nothing))]

\* What the buffer has beyond the body stays in it.
Completed(c) == [Answered(c) EXCEPT !.left = c.length < c.head.sends]

\* An answer after which the client is removed.
Refused(c, s) == [Answered([c EXCEPT !.status = s, !.head = Nothing]) EXCEPT !.alive = FALSE]

InPlace(k, c) ==
    /\ clients' = [clients EXCEPT ![k] = c]
    /\ UNCHANGED moved

-------------------------------------------------------------------------------
(* The vector                                                                  *)

\* accept_client(), push_back(): the maps of the copy are empty.
Accept(p) ==
    /\ p \notin Connected /\ Len(clients) < MaxClients
    /\ clients' = Append(clients, Fresh(p))
    /\ moved' = moved \ {p}

\* Mutant of Erase: begin() is erased, not the iterator that was found.
EraseFirst(k) ==
    /\ clients' = [j \in 1 .. (Len(clients) - 1) |->
                      [clients[j + 1] EXCEPT !.req = clients[j].req, !.res = clients[j].res]]
    /\ moved' = (moved \ {clients[1].peer}) \cup {clients[j].peer : j \in (k + 1) .. Len(clients)}

\* DeleteClientFromVector(): erase() assigns, and assignment leaves the maps where they
\* are.  Those of the last place go with it.
Erase(k) ==
    /\ clients' = [j \in 1 .. (Len(clients) - 1) |->
                      IF j < k THEN clients[j]
                      ELSE [clients[j + 1] EXCEPT !.req = clients[j].req, !.res = clients[j].res]]
    /\ moved' = (moved \ {clients[k].peer}) \cup {clients[j].peer : j \in (k + 1) .. Len(clients)}

HeadRead(k) ==
    /\ clients[k].phase = "head" /\ ~clients[k].left
    /\ \E head \in Heads :
          LET c == Headed(clients[k], head) IN InPlace(k, IF c.length = 0 THEN Completed(c) ELSE c)

\* The rest of a body is no request line.
RestRead(k) ==
    /\ clients[k].phase = "head" /\ clients[k].left
    /\ InPlace(k, Refused(clients[k], 400))

BodyRead(k) ==
    /\ clients[k].phase = "body" /\ clients[k].length <= clients[k].head.sends
    /\ InPlace(k, Completed(clients[k]))

\* The request is not there in time, or never.
Timeout(k) ==
    /\ clients[k].phase \in {"head", "body"}
    /\ InPlace(k, Refused(clients[k], 408))

\* Mutant of ResetClient: the headers of the request are kept.
ResetClientRequest(k) ==
    /\ clients[k].phase = "answer" /\ clients[k].alive
    /\ clients' = [clients EXCEPT
                      ![k] = [Fresh(@.peer) EXCEPT !.left = clients[k].left, !.req = clients[k].req]]
    /\ moved' = moved \ {clients[k].peer}

\* All is sent; req_buf is not touched.
ResetClient(k) ==
    /\ clients[k].phase = "answer" /\ clients[k].alive
    /\ clients' = [clients EXCEPT ![k] = [Fresh(@.peer) EXCEPT !.left = clients[k].left]]
    /\ moved' = moved \ {clients[k].peer}

\* All is sent to a client that is not kept.
Close(k) == clients[k].phase = "answer" /\ ~clients[k].alive /\ Erase(k)

\* The peer goes away, or recv() or send() fails.
Drop(k) == Erase(k)

Next ==
    \/ \E p \in Peers : Accept(p)
    \/ \E k \in DOMAIN clients :
          \/ HeadRead(k) \/ RestRead(k) \/ BodyRead(k) \/ Timeout(k)
          \/ ResetClient(k) \/ Close(k) \/ Drop(k)

Spec == Init /\ [][Next]_vars

-------------------------------------------------------------------------------
(* Properties                                                                  *)

TypeOK ==
    /\ Len(clients) <= MaxClients /\ moved \subseteq Connected
    /\ \A k \in DOMAIN clients :
          /\ clients[k].peer \in Peers /\ clients[k].head \in Heads \cup {Nothing}
          /\ clients[k].phase \in {"head", "body", "answer"}
          /\ clients[k].phase = "body" => clients[k].head \in Heads
          /\ clients[k].status \in {0, 200, 400, 408, 411, 415}
          /\ DOMAIN clients[k].req \cup DOMAIN clients[k].res \subseteq Names
          /\ \A j \in DOMAIN clients : clients[j].peer = clients[k].peer => j = k

\* A client that was not moved since its maps were last empty has no header of anybody
\* else, whoever came, left or was reset meanwhile (main.cpp:74-82, ClientLifespan.cpp:28-67).
Own(p, map) == \A n \in DOMAIN map : map[n].of = p
OwnUnlessMoved ==
    \A k \in DOMAIN clients :
        clients[k].peer \notin moved =>
            Own(clients[k].peer, clients[k].req) /\ Own(clients[k].peer, clients[k].res)

\* Such a client is answered as if it were the first and only client of the server, also
\* after requests of its own that were refused (ClientLifespan.cpp:28-51).
Alone(p, head) == Answered(Headed(Fresh(p), head))
HasAnswer(c)   == c.phase = "answer" /\ c.head # Nothing
AnsweredAsAlone ==
    \A k \in DOMAIN clients :
        HasAnswer(clients[k]) /\ clients[k].peer \notin moved =>
            LET alone == Alone(clients[k].peer, clients[k].head) IN
                /\ clients[k].status = alone.status /\ clients[k].alive = alone.alive
                /\ clients[k].req = alone.req /\ clients[k].res = alone.res
=============================================================================

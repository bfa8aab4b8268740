------------------------------- MODULE EventLoop -------------------------------
(***************************************************************************)
(* The poll() loop of webserv (src/src/main.cpp) with the part of the      *)
(* SocketManager and of client_lifespan it drives.                         *)
(*                                                                         *)
(* The loop keeps three parallel vectors: `pfds` (struct pollfd; only its  *)
(* client part, the listening sockets that precede it are the numbers      *)
(* 1..NListeners), `clients` (struct Client) and `sockets`                 *)
(* (SocketManager::clients_).  A Client holds a raw pointer into the third *)
(* vector, here the index `sock`; every helper finds its element by        *)
(* searching for a descriptor, here SlotOf and ClientOf.                   *)
(*                                                                         *)
(* One action is one call of poll(), one listening socket of the accept    *)
(* loop, or one client visited by the serve loop; the clock and SIGINT may *)
(* move between two of them.  The kernel and the peers answer each system  *)
(* call in every way it can end.  What a request says is left to the       *)
(* module of the request reader: here a recv() leaves the request          *)
(* incomplete, malformed or complete.                                      *)
(***************************************************************************)
EXTENDS Naturals, Sequences

CONSTANTS
    Fd,          \* descriptors the process may use for client sockets
    NListeners,  \* listening sockets
    MaxClients,  \* worker_connections
    MaxSends,    \* bound: send() calls a response takes at most
    Timeout,     \* TIMEOUT, in ticks of the clock
    Scale,       \* the factor SocketManager::update_timeout multiplies it by
    Watched      \* the descriptors the liveness properties speak of: no action
                 \* tells two apart, so that one stands for all

ASSUME SizeAssumption ==
    /\ NListeners \in Nat \ {0}
    /\ MaxClients \in Nat \ {0}
    /\ MaxSends \in Nat \ {0}
    /\ Timeout \in Nat
    /\ Scale \in Nat \ {0}

VARIABLES
    pc,            \* "poll", "accept", "serve"; "stopped" after the loop; "killed"
    at,            \* the listening socket or the client the loops are at
    running,       \* server_running
    ready,         \* listening sockets with POLLIN in revents
    pfds,          \* the client part of the vector given to poll()
    clients,       \* std::vector<struct Client>
    sockets,       \* SocketManager::clients_
    client_count,
    open           \* kernel: the descriptors in use for client sockets

vectors == <<pfds, clients, sockets, client_count>>
vars    == <<pc, at, running, ready, vectors, open>>

(***************************************************************************)
(* The revents of a client, by the first test of the serve loop it passes: *)
(* POLLERR or POLLHUP, neither POLLIN nor POLLOUT, POLLIN, POLLOUT.        *)
(***************************************************************************)
Revents == {"ERR", "NONE", "IN", "OUT"}

\* update_timeout() compares seconds with TIMEOUT * 1000.
Limit == Timeout * Scale

\* Bound: an age is only ever compared with Timeout and with Limit.
Ages == 0 .. (Limit + 1)

PollFd == [fd : Fd, events : {"IN", "OUT"}, revents : Revents]

Client == [sock : Nat, keepAlive : BOOLEAN]

\* `first`: first_recv_time is set; `age`: time since it, or since last_active
\* when it is not set; `req`: the descriptors whose bytes are in req_buf; `res`:
\* the send() calls res_buf still takes; `resOf`: whose bytes it answers.
ClientSocket ==
    [fd : Fd, age : Ages, first : BOOLEAN, timeout : BOOLEAN,
     req : SUBSET Fd, res : 0 .. MaxSends, resOf : SUBSET Fd]

TypeOK ==
    /\ pc \in {"poll", "accept", "serve", "stopped", "killed"}
    /\ at \in Nat \ {0}
    /\ running \in BOOLEAN
    /\ ready \in SUBSET (1 .. NListeners)
    /\ pfds \in Seq(PollFd)
    /\ clients \in Seq(Client)
    /\ sockets \in Seq(ClientSocket)
    /\ client_count \in Nat
    /\ open \in SUBSET Fd

Init ==
    /\ pc = "poll" /\ at = 1 /\ running = TRUE /\ ready = {}
    /\ pfds = <<>> /\ clients = <<>> /\ sockets = <<>> /\ client_count = 0
    /\ open = {}

Alive == pc \notin {"stopped", "killed"}

-------------------------------------------------------------------------------
(* Searching and erasing                                                       *)

\* get_one_client(): the first element with this descriptor.
SlotOf(socks, f) ==
    CHOOSE p \in DOMAIN socks :
        socks[p].fd = f /\ \A q \in DOMAIN socks : socks[q].fd = f => p <= q

\* GetClientByFd(): the first client whose pointer leads to this descriptor.
ClientOf(f) ==
    CHOOSE c \in DOMAIN clients :
        /\ sockets[clients[c].sock].fd = f
        /\ \A d \in DOMAIN clients : sockets[clients[d].sock].fd = f => c <= d

\* std::vector::erase of the element at i.
Erase(s, i) == [j \in 1 .. (Len(s) - 1) |-> IF j < i THEN s[j] ELSE s[j + 1]]

\* Mutant of EraseClient: the loop at the end of DeleteClient() is missing.
EraseClientPointersKept(s, i) == Erase(s, i)

\* DeleteClient() moves the pointers of the shifted clients back by one, because
\* their ClientSockets were shifted too.
EraseClient(s, i) ==
    [j \in 1 .. (Len(s) - 1) |->
        IF j < i THEN s[j] ELSE [s[j + 1] EXCEPT !.sock = @ - 1]]

-------------------------------------------------------------------------------
(* Clock and signal                                                            *)

Tick ==
    /\ Alive
    /\ \E p \in DOMAIN sockets : sockets[p].age <= Limit
    /\ sockets' = [p \in DOMAIN sockets |->
          [sockets[p] EXCEPT !.age = IF @ <= Limit THEN @ + 1 ELSE @]]
    /\ UNCHANGED <<pc, at, running, ready, pfds, clients, client_count, open>>

\* SignalHandler() on SIGINT.
Interrupt ==
    /\ Alive
    /\ running
    /\ running' = FALSE
    /\ UNCHANGED <<pc, at, ready, vectors, open>>

\* Behind the loop every polled descriptor is closed.
Stop ==
    /\ pc' = "stopped"
    /\ open' = open \ {pfds[k].fd : k \in DOMAIN pfds}
    /\ UNCHANGED <<at, running, ready, vectors>>

-------------------------------------------------------------------------------
(* poll() and accept()                                                         *)

\* poll() reports what a client waits for, or nothing, or an error.
Poll ==
    /\ pc = "poll"
    /\ pc' = "accept"
    /\ at' = 1
    /\ ready' \in SUBSET (1 .. NListeners)
    /\ \E rev \in [DOMAIN pfds -> Revents] :
          /\ \A k \in DOMAIN pfds : rev[k] \in {"ERR", "NONE", pfds[k].events}
          /\ pfds' = [k \in DOMAIN pfds |-> [pfds[k] EXCEPT !.revents = rev[k]]]
    /\ UNCHANGED <<running, clients, sockets, client_count, open>>

\* SIGINT during poll(): it returns -1 and the loop is left.
PollInterrupted ==
    /\ pc = "poll"
    /\ ~running
    /\ Stop

\* The accept loop moves to its next listening socket, or the serve loop starts:
\* nobody reads `ready` before the next poll() then, so it is forgotten.
NextListener ==
    IF at < NListeners
    THEN at' = at + 1 /\ UNCHANGED <<pc, ready>>
    ELSE at' = 1 /\ pc' = "serve" /\ ready' = {}

\* Nobody waits, the clients are at their maximum, or accept() fails because the
\* process has no descriptor left.
AcceptSkips ==
    /\ pc = "accept"
    /\ at \notin ready \/ client_count >= MaxClients \/ open = Fd
    /\ NextListener
    /\ UNCHANGED <<running, vectors, open>>

\* Mutant of Accepted: the limit lets one client too many in.
AcceptedOneTooMany(f) ==
    /\ pc = "accept"
    /\ at \in ready
    /\ client_count <= MaxClients
    /\ f \in Fd \ open
    /\ open' = open \cup {f}
    /\ NextListener
    /\ UNCHANGED running

\* accept() returned descriptor f.
Accepted(f) ==
    /\ pc = "accept"
    /\ at \in ready
    /\ client_count < MaxClients
    /\ f \in Fd \ open
    /\ open' = open \cup {f}
    /\ NextListener
    /\ UNCHANGED running

\* accept_client() succeeds and main() adds the client to every vector.
\* AddClientFd() leaves revents uninitialised, and the serve loop of this very
\* iteration reads it: `garbage`.
AcceptClient ==
    \E f \in Fd, garbage \in Revents :
        /\ Accepted(f)
        /\ sockets' = Append(sockets,
              [fd |-> f, age |-> 0, first |-> FALSE, timeout |-> FALSE,
               req |-> {}, res |-> 0, resOf |-> {}])
        /\ pfds' = Append(pfds, [fd |-> f, events |-> "IN", revents |-> garbage])
        /\ client_count' = client_count + 1
        /\ clients' = Append(clients, [sock |-> SlotOf(sockets', f), keepAlive |-> TRUE])

\* fcntl() fails: accept_client() returns -1 and nobody closes the descriptor.
AcceptLeaks ==
    /\ \E f \in Fd : Accepted(f)
    /\ UNCHANGED vectors

-------------------------------------------------------------------------------
(* Serving one client                                                          *)

Visiting == pc = "serve" /\ at \in DOMAIN pfds

Cur  == pfds[at]
Slot == SlotOf(sockets, Cur.fd)          \* sm.get_one_client(pfds[i].fd)
Clt  == ClientOf(Cur.fd)                 \* clt
Ptr  == clients[Clt].sock                \* clt->client_socket

\* Mutants of Late: the time is only watched while a request is read; only once
\* its first byte came.
LateWhileReading == (sockets[Slot].timeout \/ sockets[Slot].age > Limit) /\ Cur.events = "IN"
LateOnceBegun    == (sockets[Slot].timeout \/ sockets[Slot].age > Limit) /\ sockets[Slot].first

\* is_timeout(): the flag, once set, stays.
Late    == sockets[Slot].timeout \/ sockets[Slot].age > Limit
Touched == [sockets EXCEPT ![Slot].timeout = Late]

\* The loop variable's increment.
Advance == at' = at + 1 /\ UNCHANGED <<pc, running, ready, open>>

\* Mutant of Delete: the last pollfd is erased instead of the closed one.
DeleteLastPollFd ==
    /\ sockets' = Erase(sockets, Slot)
    /\ clients' = EraseClient(clients, Clt)
    /\ pfds' = Erase(pfds, Len(pfds))
    /\ client_count' = client_count - 1
    /\ open' = open \ {Cur.fd}
    /\ UNCHANGED <<pc, at, running, ready>>

\* close(), DeleteClient(), DeleteClientFd(), client_count--, i--.
Delete ==
    /\ sockets' = Erase(sockets, Slot)
    /\ clients' = EraseClient(clients, Clt)
    /\ pfds' = Erase(pfds, at)
    /\ client_count' = client_count - 1
    /\ open' = open \ {Cur.fd}
    /\ UNCHANGED <<pc, at, running, ready>>

DropBroken ==
    /\ Visiting /\ Cur.revents = "ERR"
    /\ Delete

DropIdle ==
    /\ Visiting /\ Cur.revents = "NONE" /\ Late
    /\ Delete

SkipQuiet ==
    /\ Visiting /\ Cur.revents = "NONE" /\ ~Late
    /\ Advance
    /\ UNCHANGED vectors

\* process::ProcessRequest() fills res_buf through the client's pointer, and the
\* loop switches the client to POLLOUT.  `socks` is what the step did before,
\* `rest` what it leaves in req_buf.
Respond(socks, keep, rest) ==
    /\ \E n \in 1 .. MaxSends :
          sockets' = [socks EXCEPT ![Ptr].res = n, ![Ptr].resOf = socks[Ptr].req,
                                   ![Ptr].req = rest]
    /\ clients' = [clients EXCEPT ![Clt].keepAlive = keep]
    /\ pfds' = [pfds EXCEPT ![at].events = "OUT"]
    /\ Advance
    /\ UNCHANGED client_count

\* 408: the request took too long, whatever was received is ignored.
AnswerTimeout ==
    /\ Visiting /\ Cur.revents = "IN" /\ Late
    /\ Respond(Touched, FALSE, sockets[Ptr].req)

\* recv() returns 0 at the end of the stream, -1 after a reset or, if revents
\* was garbage, with nothing to read.
RecvFails ==
    /\ Visiting /\ Cur.revents = "IN" /\ ~Late
    /\ Delete

\* Mutants of Received: the bytes go through the pointer of another client; every
\* recv() restarts the time.
ReceivedAtLast ==
    [sockets EXCEPT ![Len(sockets)].req = @ \cup {Cur.fd},
                    ![Slot].age = IF sockets[Slot].first THEN @ ELSE 0,
                    ![Slot].first = TRUE]

ReceivedRestarts ==
    [sockets EXCEPT ![Slot].req = @ \cup {Cur.fd},
                    ![Slot].age = 0,
                    ![Slot].first = TRUE]

\* recv_append() and set_first_recv_time().
Received ==
    [sockets EXCEPT ![Slot].req = @ \cup {Cur.fd},
                    ![Slot].age = IF sockets[Slot].first THEN @ ELSE 0,
                    ![Slot].first = TRUE]

\* More bytes are needed, for the headers or for the body.
RecvPartial ==
    /\ Visiting /\ Cur.revents = "IN" /\ ~Late
    /\ sockets' = Received
    /\ Advance
    /\ UNCHANGED <<pfds, clients, client_count>>

\* A syntax error (400) or a body over the limit (413) ends the connection.
RecvRejected ==
    /\ Visiting /\ Cur.revents = "IN" /\ ~Late
    /\ Respond(Received, FALSE, Received[Ptr].req)

\* A complete request is processed and its bytes leave req_buf; those of a
\* request pipelined behind it stay.
RecvComplete ==
    /\ Visiting /\ Cur.revents = "IN" /\ ~Late
    /\ \E keep \in BOOLEAN, rest \in {{}, Received[Ptr].req} : Respond(Received, keep, rest)

\* Mutant of SendBlock: res_buf is cleared after the first send().
SendBlockClears ==
    /\ Visiting /\ Cur.revents = "OUT" /\ sockets[Ptr].res > 0
    /\ sockets' = [Touched EXCEPT ![Slot].res = 0, ![Slot].resOf = {}]
    /\ Advance
    /\ UNCHANGED <<pfds, clients, client_count>>

\* One send() call takes what it can of res_buf.
SendBlock ==
    /\ Visiting /\ Cur.revents = "OUT" /\ sockets[Ptr].res > 0
    /\ sockets' = [Touched EXCEPT ![Slot].res = @ - 1,
                                  ![Slot].resOf = IF sockets[Slot].res = 1 THEN {} ELSE @]
    /\ Advance
    /\ UNCHANGED <<pfds, clients, client_count>>

\* send() returns -1.
SendFails ==
    /\ Visiting /\ Cur.revents = "OUT" /\ sockets[Ptr].res > 0
    /\ Delete

\* The peer, which had closed its side, resets the connection between poll() and
\* send(): EPIPE comes with SIGPIPE, which nobody handles.
SendKills ==
    /\ Visiting /\ Cur.revents = "OUT" /\ sockets[Ptr].res > 0
    /\ pc' = "killed"
    /\ open' = {}
    /\ UNCHANGED <<at, running, ready, vectors>>

CloseAnswered ==
    /\ Visiting /\ Cur.revents = "OUT" /\ sockets[Ptr].res = 0
    /\ ~clients[Clt].keepAlive
    /\ Delete

\* Mutant of ResetAnswered: the client is asked for input whether or not its
\* connection is to be kept.
ResetRegardless ==
    /\ Visiting /\ Cur.revents = "OUT" /\ sockets[Ptr].res = 0
    /\ pfds' = [pfds EXCEPT ![at].events = "IN"]
    /\ sockets' = [sockets EXCEPT ![Slot].age = 0, ![Slot].first = FALSE,
                                  ![Slot].timeout = FALSE]
    /\ Advance
    /\ UNCHANGED <<clients, client_count>>

\* Mutant of ResetAnswered: set_time_assets() sets the times but not the mark.
ResetMarkKept ==
    /\ Visiting /\ Cur.revents = "OUT" /\ sockets[Ptr].res = 0
    /\ clients[Clt].keepAlive
    /\ pfds' = [pfds EXCEPT ![at].events = "IN"]
    /\ sockets' = [Touched EXCEPT ![Slot].age = 0, ![Slot].first = FALSE]
    /\ Advance
    /\ UNCHANGED <<clients, client_count>>

\* set_time_assets() and ResetClient(); req_buf keeps what it has.
ResetAnswered ==
    /\ Visiting /\ Cur.revents = "OUT" /\ sockets[Ptr].res = 0
    /\ clients[Clt].keepAlive
    /\ pfds' = [pfds EXCEPT ![at].events = "IN"]
    /\ sockets' = [sockets EXCEPT ![Slot].age = 0, ![Slot].first = FALSE,
                                  ![Slot].timeout = FALSE]
    /\ Advance
    /\ UNCHANGED <<clients, client_count>>

\* Mutant of EndIteration: the loop is while (1).
EndIterationNeverStops ==
    /\ pc = "serve" /\ at > Len(pfds)
    /\ pc' = "poll" /\ at' = 1
    /\ UNCHANGED <<running, ready, vectors, open>>

\* The end of the serve loop and the test of the outer loop.
EndIteration ==
    /\ pc = "serve" /\ at > Len(pfds)
    /\ IF running
       THEN /\ pc' = "poll" /\ at' = 1
            /\ UNCHANGED <<running, ready, vectors, open>>
       ELSE Stop

-------------------------------------------------------------------------------
Serve ==
    \/ DropBroken \/ DropIdle \/ SkipQuiet
    \/ AnswerTimeout \/ RecvFails \/ RecvPartial \/ RecvRejected \/ RecvComplete
    \/ SendBlock \/ SendFails \/ SendKills \/ CloseAnswered \/ ResetAnswered

Server ==
    \/ Poll \/ PollInterrupted
    \/ AcceptSkips \/ AcceptClient \/ AcceptLeaks
    \/ Serve \/ EndIteration

Next == Server \/ Tick \/ Interrupt

Spec == Init /\ [][Next]_vars

\* poll() returns after 30 seconds at the latest and no socket call blocks, so
\* the loop never rests; time does not rest either.  SIGINT need not come.
FairSpec == Spec /\ WF_vars(Server) /\ WF_vars(Tick)

-------------------------------------------------------------------------------
(* Properties                                                                  *)

\* The three vectors list the same descriptors in the same order, none twice,
\* and every client points to its own ClientSocket: DeleteClient() repairs the
\* pointers an erase() moves (main.cpp:74-82), whoever leaves and in any order.
VectorsAligned ==
    /\ Len(clients) = Len(pfds) /\ Len(sockets) = Len(pfds)
    /\ \A k \in DOMAIN pfds : sockets[k].fd = pfds[k].fd /\ clients[k].sock = k
    /\ \A j, k \in DOMAIN pfds : pfds[j].fd = pfds[k].fd => j = k

\* client_count is the number of clients, and it never exceeds what main() and
\* the SocketManager reserved: no push_back() moves the elements the raw
\* pointers lead to (main.cpp:146-155).
CapacityKept == client_count = Len(pfds) /\ Len(pfds) <= MaxClients

\* While the loop runs it polls no descriptor that is closed, which accept()
\* could hand to another connection (main.cpp:200-567).
PolledAreOpen == Alive => \A k \in DOMAIN pfds : pfds[k].fd \in open

\* Whatever the other connections do, a connection's buffers hold its own
\* request and the answer to it (SocketManager.cpp:205-247, main.cpp:243-521).
OwnBytes ==
    \A k \in DOMAIN sockets : sockets[k].req \cup sockets[k].resOf \subseteq {sockets[k].fd}

\* A client that is asked for input owes nothing: its response is sent to the
\* last byte and it may stay (main.cpp:523-563).
InputOnlyWhenIdle ==
    \A k \in DOMAIN pfds :
        pfds[k].events = "IN" => sockets[k].res = 0 /\ clients[k].keepAlive

\* A descriptor leaves the vectors closed, and no response of a connection that
\* stays is cut or overwritten: res_buf is filled when empty and then only
\* shrinks by what send() took.
Leaves(f) == \E k \in DOMAIN pfds : pfds[k].fd = f /\ \A j \in DOMAIN pfds' : pfds'[j].fd # f
ResponsesWhole ==
    [][\A f \in Fd :
        /\ Leaves(f) => f \notin open'
        /\ \A k \in DOMAIN sockets, j \in DOMAIN sockets' :
              sockets[k].fd = f /\ sockets'[j].fd = f /\ sockets'[j].res # sockets[k].res
                  => sockets[k].res \in {0, sockets'[j].res + 1}]_vars

\* A connection is marked late only while it is late.  Every visit of the serve
\* loop may set the mark, while an answer is sent too (main.cpp:205), and only the
\* reset behind the answer takes it back: a mark that outlived its request would
\* refuse the next one of the connection with 408, and a time started afresh under
\* the mark would do the same (SocketManager.cpp:327-371).
TimeoutsEarned == \A k \in DOMAIN sockets : sockets[k].timeout => sockets[k].age > Limit

\* A request begun is answered or its connection closed, even if its peer sends
\* one byte at a time for ever: first_recv_time is set once (main.cpp:268).
Reading(f) == Alive /\ \E k \in DOMAIN pfds :
                  pfds[k].fd = f /\ pfds[k].events = "IN" /\ sockets[k].first
SlowRequestEnds == \A f \in Watched : Reading(f) ~> ~Reading(f)

\* A response built is sent to its end or given up, even if its peer never
\* reads (main.cpp:228-241, 523-563).
Answering(f) == Alive /\ \E k \in DOMAIN pfds : pfds[k].fd = f /\ sockets[k].res > 0
AnswerEnds == \A f \in Watched : Answering(f) ~> ~Answering(f)

\* A client poll() never reports anything for does not keep its place.
Quiet(f) == Alive /\ \E k \in DOMAIN pfds : pfds[k].fd = f /\ pfds[k].revents = "NONE"
QuietRemoved == \A f \in Watched : []<>~Quiet(f)

\* After SIGINT the loop ends, wherever it was (main.cpp:84-88, 159-167).
InterruptStops == ~running ~> ~Alive
=============================================================================

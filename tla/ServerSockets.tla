----------------------------- MODULE ServerSockets -----------------------------
(***************************************************************************)
(* From the file to listening sockets: generate_server_cache() of class    *)
(* Configuration, SocketManager::set_servers(), which asks the system for  *)
(* one socket after the other and gives up at the first that it cannot     *)
(* have, and the destructor of the SocketManager.                          *)
(*                                                                         *)
(* Any call of the system may fail.  A name may have more than one         *)
(* address; they are tried in turn.                                        *)
(***************************************************************************)
EXTENDS Directives

CONSTANTS
    Config,        \* the blocks of the file
    Descriptors,   \* numbers the system gives to descriptors
    MaxInfos       \* bound on the addresses of a name

Hosts(s) == ToSet(Addresses(Config, s))

\* What the parser makes of a file: the servers of the http block are blocks, and each
\* has an address.  set_servers() and generate_server_cache() assert that there are some.
ASSUME ConfigAssumption ==
    /\ Parsed(Config)
    /\ HttpServers(Config) \in Seq(DOMAIN Config) /\ HttpServers(Config) # <<>>
    /\ \A s \in ToSet(HttpServers(Config)) :
          /\ Addresses(Config, s) \in Seq(Hosts(s)) /\ Addresses(Config, s) # <<>>
          /\ \A a \in Hosts(s) : a = Address(a.type, a.value, a.port)
ASSUME SystemAssumption == Descriptors \subseteq Nat /\ MaxInfos \in Nat

VARIABLES
    stage,         \* what set_servers() does next, "serving", "failed", "ended"
    server_cache,  \* server_cache_: addresses, their server blocks and descriptors
    servers,       \* servers_: the sockets that listen, and what they are bound to
    fd,            \* serv_sock, NoFd if it is not open
    candidates,    \* what is left of the list of getaddrinfo(), from ai_ptr on
    open,          \* the descriptors that are open
    infos          \* lists of getaddrinfo() that are not freed

sockets == <<stage, server_cache, servers, fd, candidates, open, infos>>

NoFd == -1

-------------------------------------------------------------------------------
(* The cache of the server blocks                                              *)

\* Mutant of Equal: only the port is compared.
EqualPort(a, b) == a.port = b.port

\* operator== of Authority: `serialized` is zero in every host of a file, so two hosts
\* of a type are equal.
Equal(a, b) == a.type = b.type /\ a.port = b.port

\* add_unique_server_cache().
AddUnique(known, a, s) ==
    LET same == {k \in DOMAIN known : Equal(known[k].address, a)}
    IN  IF same = {} THEN Append(known, [address |-> a, blocks |-> <<s>>, fd |-> NoFd])
        ELSE [known EXCEPT ![Min(same)].blocks = Append(@, s)]

\* generate_server_cache(): the addresses of each server.
AddServer(known, s) ==
    FoldLeft(LAMBDA k, a : AddUnique(k, a, s), known, Addresses(Config, s))
ServerCache == FoldLeft(AddServer, <<>>, HttpServers(Config))

\* register_server_socket().
Registered(a, n) ==
    LET same == {k \in DOMAIN server_cache : Equal(server_cache[k].address, a)}
    IN  [server_cache EXCEPT ![Min(same)].fd = n]

\* query_server_blocks() and query_server_block().
ServerAt(n, name) ==
    LET found == Min({k \in DOMAIN server_cache : server_cache[k].fd = n})
    IN  NamedBlock(Config, server_cache[found].blocks, name)

-------------------------------------------------------------------------------
(* set_servers()                                                               *)

\* The address that is set up.
This == server_cache[Len(servers) + 1].address

InitSockets ==
    /\ stage = "start" /\ server_cache = <<>> /\ servers = <<>>
    /\ fd = NoFd /\ candidates = 0 /\ open = {} /\ infos = 0

AllServerSockets ==
    /\ stage = "start"
    /\ server_cache' = ServerCache
    /\ stage' = "resolve"
    /\ UNCHANGED <<servers, fd, candidates, open, infos>>

\* getaddrinfo().
Resolve ==
    /\ stage = "resolve"
    /\ \E n \in 1 .. (IF This.type = "name" THEN MaxInfos ELSE 1) : candidates' = n
    /\ infos' = infos + 1
    /\ stage' = "socket"
    /\ UNCHANGED <<server_cache, servers, fd, open>>

ResolveFails ==
    /\ stage = "resolve"
    /\ stage' = "failed"
    /\ UNCHANGED <<server_cache, servers, fd, candidates, open, infos>>

\* socket(): the lowest number that is free.
OpenSocket ==
    /\ stage = "socket" /\ candidates > 0
    /\ \E n \in Descriptors \ open :
          /\ \A m \in Descriptors \ open : n <= m
          /\ fd' = n /\ open' = open \cup {n}
    /\ stage' = "options"
    /\ UNCHANGED <<server_cache, servers, candidates, infos>>

\* It fails, and the next address is tried.
OpenFails ==
    /\ stage = "socket" /\ candidates > 0
    /\ candidates' = candidates - 1
    /\ UNCHANGED <<stage, server_cache, servers, fd, open, infos>>

\* setsockopt() and fcntl().
SetOptions ==
    /\ stage = "options"
    /\ stage' = "bind"
    /\ UNCHANGED <<server_cache, servers, fd, candidates, open, infos>>

\* Mutant of BindFails: the socket is not closed.
BindFailsOpen ==
    /\ stage = "bind"
    /\ fd' = NoFd
    /\ candidates' = candidates - 1
    /\ stage' = "socket"
    /\ UNCHANGED <<server_cache, servers, open, infos>>

\* bind() fails: close(), and the next address is tried.
BindFails ==
    /\ stage = "bind"
    /\ open' = open \ {fd} /\ fd' = NoFd
    /\ candidates' = candidates - 1
    /\ stage' = "socket"
    /\ UNCHANGED <<server_cache, servers, infos>>

Bind ==
    /\ stage = "bind"
    /\ stage' = "listen"
    /\ UNCHANGED <<server_cache, servers, fd, candidates, open, infos>>

\* The list is at its end: freeaddrinfo().
NoneBound ==
    /\ stage = "socket" /\ candidates = 0
    /\ infos' = infos - 1
    /\ stage' = "failed"
    /\ UNCHANGED <<server_cache, servers, fd, candidates, open>>

\* setsockopt(), fcntl() or listen() fails: close(), freeaddrinfo().
SetUpFails ==
    /\ stage \in {"options", "listen"}
    /\ open' = open \ {fd} /\ fd' = NoFd
    /\ infos' = infos - 1
    /\ stage' = "failed"
    /\ UNCHANGED <<server_cache, servers, candidates>>

\* listen(), servers_.push_back() and register_server_socket().
ListenOn ==
    /\ stage = "listen"
    /\ servers' = Append(servers, [fd |-> fd, address |-> This])
    /\ server_cache' = Registered(This, fd)
    /\ fd' = NoFd
    /\ stage' = IF Len(servers') = Len(server_cache) THEN "serving" ELSE "resolve"
    /\ UNCHANGED <<candidates, open, infos>>

Listening == {servers[k].fd : k \in DOMAIN servers}

\* ~SocketManager(): main() returns at an error, or its loop has ended.
Destroy ==
    /\ stage \in {"failed", "serving"}
    /\ open' = open \ Listening
    /\ infos' = infos - Len(servers)
    /\ servers' = <<>>
    /\ stage' = "ended"
    /\ UNCHANGED <<server_cache, fd, candidates>>

NextSockets ==
    \/ AllServerSockets
    \/ Resolve \/ ResolveFails
    \/ OpenSocket \/ OpenFails \/ SetOptions \/ Bind \/ BindFails
    \/ NoneBound \/ SetUpFails \/ ListenOn
    \/ Destroy

SpecSockets == InitSockets /\ [][NextSockets]_sockets

-------------------------------------------------------------------------------
(* Properties                                                                  *)

\* Whatever fails, between two addresses nothing is open or allocated but what listens,
\* and the process gives all of it back (SocketManager.cpp:23-32, 36-186).
NothingLost ==
    /\ stage \in {"resolve", "serving", "failed"} =>
          open = Listening /\ infos = Len(servers)
    /\ stage = "ended" => open = {} /\ infos = 0

\* A server that serves can be reached by every address of every server block: a
\* socket of its own type and port leads to the block.  That socket has the very
\* address if no other host of the type has the port in the file: of those that have,
\* only the first is bound (Configuration.cpp:234-289, Authority.cpp:28-31).
ListensForAll ==
    stage = "serving" =>
        LET all == UNION {Sockets(Config, s) : s \in ToSet(HttpServers(Config))} IN
        \A s \in ToSet(HttpServers(Config)) : \A a \in Sockets(Config, s) :
            \E k, n \in DOMAIN servers :
                /\ server_cache[n].fd = servers[k].fd /\ s \in ToSet(server_cache[n].blocks)
                /\ servers[k].address.type = a.type /\ servers[k].address.port = a.port
                /\ (\A b \in all : b.type = a.type /\ b.port = a.port => b = a)
                   => Bound(servers[k].address) = a
=============================================================================

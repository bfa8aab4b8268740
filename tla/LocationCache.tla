----------------------------- MODULE LocationCache -----------------------------
(***************************************************************************)
(* Configuration::query() (src/src/Configuration.cpp:125-156) and the      *)
(* cache of LocationQuery objects it shares among all requests.            *)
(*                                                                         *)
(* CheckHeaderBeforeProcess() queries when the head of a request is read   *)
(* and keeps a pointer to an element of the cache, here its position,      *)
(* until ResetClient(); the body, and the requests of other clients, come  *)
(* in between.  An element is constructed in place when its position is    *)
(* given to another location.                                              *)
(*                                                                         *)
(* The sockets of ServerSockets come first: a request is taken by one that *)
(* listens, and finds its server blocks by the descriptor.                 *)
(***************************************************************************)
EXTENDS ServerSockets

CONSTANTS
    Requests,      \* [socket, name, path] a query may be made with
    Clients, DefaultRoot, DefaultIndex,
    Capacity       \* location_cache_.capacity()

\* The constructors of Configuration reserve the elements of the cache.
ASSUME CapacityAssumption == Capacity \in Nat \ {0}

VARIABLES
    cache,         \* location_cache_
    insertion,     \* location_insertion_index_
    asked,         \* the request of each client, from its head to its end
    held           \* and the position of the LocationQuery it has a pointer to

queries == <<cache, insertion, asked, held>>
vars == <<sockets, queries>>

\* What a client reads through its pointer.
Seen(c) ==
    IF held[c] = 0 THEN [server |-> NoBlock, root |-> NoValue, index |-> <<>>]
    ELSE [server |-> cache[held[c]].server, root |-> cache[held[c]].root,
          index |-> cache[held[c]].index]

Query == INSTANCE ConfigQuery WITH answer <- [c \in Clients |-> Seen(c)]

\* No request comes in by a socket that is not there.
ASSUME RequestsAssumption == Query!NoRequest \notin Requests

\* LocationQuery().
EmptyQuery == [server |-> NoBlock, match |-> <<>>, root |-> NoValue, index |-> <<>>]

Init ==
    /\ InitSockets
    /\ cache = <<>>
    /\ insertion = 0
    /\ asked = [c \in Clients |-> Query!NoRequest]
    /\ held = [c \in Clients |-> 0]

\* Mutant of Construct: the root is only looked for in the location itself.
ConstructOwn(e, s, l) ==
    LET own == IF l = NoBlock THEN <<>> ELSE Values(OfType(Config[l].items, "root"))
    IN  [server |-> s,
         match  |-> IF l = NoBlock THEN e.match ELSE Config[l].match,
         root   |-> IF own = <<>> THEN DefaultRoot ELSE Last(own),
         index  |-> e.index \o Query!IndexOf(s, l)]

\* construct(): an element that was another location's keeps its match_path when
\* there is no new one, and its lists only grow.
Construct(e, s, l) ==
    [server |-> s,
     match  |-> IF l = NoBlock THEN e.match ELSE Config[l].match,
     root   |-> Query!RootOf(s, l),
     index  |-> e.index \o Query!IndexOf(s, l)]

\* The search for the location in the cache.
Found(s, l) ==
    {p \in DOMAIN cache :
        l # NoBlock /\ cache[p].match = Config[l].match /\ cache[p].server = s}

Hit(c, s, l) ==
    /\ Found(s, l) # {}
    /\ held' = [held EXCEPT ![c] = Min(Found(s, l))]
    /\ UNCHANGED <<cache, insertion>>

\* Mutant of Insert: the index does not wrap.
InsertNoWrap(c, s, l) ==
    /\ Found(s, l) = {}
    /\ LET full == Len(cache) = Capacity
           base == IF full THEN cache ELSE Append(cache, EmptyQuery)
           slot == IF full THEN insertion + 1 ELSE Len(base)
       IN  /\ cache' = [base EXCEPT ![slot] = Construct(base[slot], s, l)]
           /\ insertion' = insertion + 1
           /\ held' = [held EXCEPT ![c] = slot]

\* A new element, or when the cache is full the next one to be used again.
Insert(c, s, l) ==
    /\ Found(s, l) = {}
    /\ LET full == Len(cache) = Capacity
           base == IF full THEN cache ELSE Append(cache, EmptyQuery)
           slot == IF full THEN insertion + 1 ELSE Len(base)
       IN  /\ cache' = [base EXCEPT ![slot] = Construct(base[slot], s, l)]
           /\ insertion' = (insertion + 1) % Len(base)
           /\ held' = [held EXCEPT ![c] = slot]

\* The head of a request: query().
HeadRead(c) ==
    /\ stage = "serving" /\ held[c] = 0
    /\ \E q \in Requests, k \in DOMAIN servers :
          LET s == ServerAt(servers[k].fd, q.name)
              l == LocationBlock(Config, s, q.path)
          IN  /\ Bound(servers[k].address) = q.socket
              /\ Hit(c, s, l) \/ Insert(c, s, l)
              /\ asked' = [asked EXCEPT ![c] = q]
    /\ UNCHANGED sockets

\* ResetClient(), or the client is deleted.
Reset(c) ==
    /\ stage = "serving" /\ held[c] # 0
    /\ held' = [held EXCEPT ![c] = 0]
    /\ asked' = [asked EXCEPT ![c] = Query!NoRequest]
    /\ UNCHANGED <<cache, insertion, sockets>>

Next ==
    \/ NextSockets /\ UNCHANGED queries
    \/ \E c \in Clients : HeadRead(c) \/ Reset(c)

Spec == Init /\ [][Next]_vars

-------------------------------------------------------------------------------
(* Properties                                                                  *)

\* The servers and locations that a query may find.
Served == {<<s, LocationBlock(Config, s, q.path)>> : s \in ToSet(HttpServers(Config)),
                                                     q \in Requests}

\* What the file has to be like: every path has a location ...
Located == \A x \in Served : x[2] \in DOMAIN Config

\* ... the cache has room for all of them, and tells the locations of a server apart by
\* what they match ...
RoomForAll ==
    /\ Located
    /\ IsFiniteSet(Served) /\ Cardinality(Served) <= Capacity
    /\ \A x, y \in Served :
          x[1] = y[1] /\ Config[x[2]].match = Config[y[2]].match => x = y

\* ... and no two hosts of a type have a port in common.
PortsOnce ==
    LET hosts == UNION {Hosts(s) : s \in ToSet(HttpServers(Config))}
    IN  \A a, b \in hosts : a.type = b.type /\ a.port = b.port => Bound(a) = Bound(b)

\* Where every path has a location, the index and the pointers of clients stay inside
\* the cache, and no location is in it twice: every request for one gets the same
\* element (Configuration.cpp:132-154).
TypeOK ==
    /\ Len(cache) <= Capacity
    /\ insertion \in 0 .. Capacity /\ (cache # <<>> => insertion < Len(cache))
    /\ \A c \in Clients : held[c] \in 0 .. Len(cache)
    /\ \A p, q \in DOMAIN cache :
          cache[p].server = cache[q].server /\ cache[p].match = cache[q].match => p = q

\* Where RoomForAll and PortsOnce hold, a client has the properties of its location from
\* the head of its request to its end, in a server block that listens on the address it
\* came in by, as if there were neither a cache nor descriptors
\* (Configuration.cpp:67-79, 125-234).
ImplementsQuery == Query!QuerySpec
=============================================================================

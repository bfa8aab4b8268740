------------------------------ MODULE ConfigQuery ------------------------------
(***************************************************************************)
(* What Configuration::query() promises: from the head of a request to its *)
(* end a client has the properties the file gives to the location of its   *)
(* request, in a server block that listens on the address it came in by,   *)
(* whatever other requests come meanwhile.                                 *)
(***************************************************************************)
EXTENDS Directives

CONSTANTS
    Config,        \* the blocks of the file
    Requests,      \* [socket, name, path] a query may be made with
    Clients,
    DefaultRoot, DefaultIndex

VARIABLES
    asked,         \* the request of each client, NoRequest between two
    answer         \* and what it has for it

\* Of the servers that listen on a socket the first with the name, or else the first.
ServerOf(q) ==
    LET all   == HttpServers(Config)
        there == {k \in DOMAIN all : q.socket \in Sockets(Config, all[k])}
        named == there \cap Named(Config, all, q.name)
    IN  all[Min(IF named = {} THEN there ELSE named)]

LocationOf(q) == LocationBlock(Config, ServerOf(q), q.path)

\* The properties of a location, or of a server where no location matches.  Root
\* stands for those that are overwritten, index for those that are appended.
RootOf(s, l) ==
    LET found == Closest(Config, IF l = NoBlock THEN s ELSE l, "root")
    IN  IF found = NoValue THEN DefaultRoot ELSE found
IndexOf(s, l) ==
    LET found == Collected(Config, IF l = NoBlock THEN s ELSE l, "index")
    IN  IF found = <<>> THEN <<DefaultIndex>> ELSE found

Properties(s, l) == [server |-> s, root |-> RootOf(s, l), index |-> IndexOf(s, l)]
NoAnswer         == [server |-> NoBlock, root |-> NoValue, index |-> <<>>]
NoRequest        == [socket |-> Address(NoValue, NoValue, NoValue),
                     name |-> NoValue, path |-> <<>>]

QueryInit ==
    /\ asked = [c \in Clients |-> NoRequest]
    /\ answer = [c \in Clients |-> NoAnswer]

Answer(c) ==
    /\ asked[c] = NoRequest
    /\ \E q \in Requests :
          /\ asked' = [asked EXCEPT ![c] = q]
          /\ answer' = [answer EXCEPT ![c] = Properties(ServerOf(q), LocationOf(q))]

Finish(c) ==
    /\ asked[c] # NoRequest
    /\ asked' = [asked EXCEPT ![c] = NoRequest]
    /\ answer' = [answer EXCEPT ![c] = NoAnswer]

QueryNext == \E c \in Clients : Answer(c) \/ Finish(c)

QuerySpec == QueryInit /\ [][QueryNext]_<<asked, answer>>
=============================================================================

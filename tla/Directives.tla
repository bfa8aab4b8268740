------------------------------- MODULE Directives ------------------------------
(***************************************************************************)
(* Looking things up in a configuration: the directives in force in a      *)
(* block (cache::LocationQuery), the location of a path                    *)
(* (directive::LocationBlock) and the server block of a request            *)
(* (class Configuration).                                                  *)
(*                                                                         *)
(* A configuration is a sequence of blocks, the http block first.  The     *)
(* directives of a block keep the order of the file; a block inside        *)
(* another is the directive [type |-> its kind, value |-> its number].     *)
(* `index` is the place of a block among the directives of its parent,     *)
(* counted from 0 as Directive::index().  A path is a sequence.            *)
(***************************************************************************)
EXTENDS Integers, Sequences, SequencesExt, FiniteSetsExt

NoValue == "none"      \* a directive, server or location that is not there
NoBlock == 0

\* An address, uri::Authority, and kDefaultAuthority.
Address(type, value, port) == [type |-> type, value |-> value, port |-> port]
DefaultSocket == Address("v4", "", "80")

OfType(items, type) ==
    FoldLeft(LAMBDA found, d : IF d.type = type THEN Append(found, d) ELSE found, <<>>, items)
Values(items)       == [k \in DOMAIN items |-> items[k].value]

\* What the parser makes of a file: a block comes behind the one it is in, and has a
\* place among the directives of that one.
Parsed(bs) ==
    /\ bs \in Seq(ToSet(bs))
    /\ \A b \in DOMAIN bs :
          /\ bs[b].items \in Seq(ToSet(bs[b].items))
          /\ bs[b].parent \in 0 .. (b - 1)
          /\ bs[b].parent # NoBlock => bs[b].index \in 0 .. Len(bs[bs[b].parent].items)

-------------------------------------------------------------------------------
(* Directives in force                                                         *)

\* The block, its parent, and so on to the http block.
Chain(bs, b) ==
    LET up[c \in DOMAIN bs] ==
            <<c>> \o (IF bs[c].parent = NoBlock THEN <<>> ELSE up[bs[c].parent])
    IN  up[b]

\* For each of them its directives of a type, in an outer block those in front of
\* the inner one: directive->index() < index.
Levels(bs, b, type) ==
    LET chain == Chain(bs, b)
        seen(k) == IF k = 1 THEN bs[chain[k]].items
                   ELSE SubSeq(bs[chain[k]].items, 1, bs[chain[k - 1]].index)
    IN  [k \in DOMAIN chain |-> OfType(seen(k), type)]

\* closest_directive(): the last one of the innermost block that has any.
Closest(bs, b, type) ==
    LET levels == Levels(bs, b, type)
        found  == {k \in DOMAIN levels : levels[k] # <<>>}
    IN  IF found = {} THEN NoValue ELSE Last(levels[Min(found)]).value

\* collect_directives(): from the innermost block outward, in each from the last
\* to the first, none twice.
Collected(bs, b, type) ==
    LET levels == Levels(bs, b, type)
        all    == FlattenSeq([k \in DOMAIN levels |-> Reverse(Values(levels[k]))])
    IN  FoldLeft(LAMBDA known, v : IF v \in ToSet(known) THEN known ELSE Append(known, v),
                 <<>>, all)

-------------------------------------------------------------------------------
(* The location of a path                                                      *)

Locations(bs, b) == Values(OfType(bs[b].items, "location"))

\* operator< of locations.
Shorter(bs, l, m) == Len(bs[l].match) < Len(bs[m].match)

\* Mutant of BestMatch: the first nested location that matches is taken.
BestMatchFirst(bs, uri) ==
    LET best[l \in DOMAIN bs] ==
            LET choose(r, m) == IF best[m] # NoBlock /\ r = l THEN m ELSE r
            IN  IF ~IsPrefix(bs[l].match, uri) THEN NoBlock
                ELSE FoldLeft(choose, l, Locations(bs, l))
    IN  best

\* best_match(): the block itself or the nested block that holds a longer match;
\* a longer match further down is compared, but not returned.
BestMatch(bs, uri) ==
    LET best[l \in DOMAIN bs] ==
            LET choose(r, m) ==
                    IF best[m] # NoBlock /\ Shorter(bs, r, best[m]) THEN m ELSE r
            IN  IF ~IsPrefix(bs[l].match, uri) THEN NoBlock
                ELSE FoldLeft(choose, l, Locations(bs, l))
    IN  best

\* query_location_block(): the longest of the server's.
LocationBlock(bs, server, uri) ==
    LET longer(r, l) ==
            LET m == BestMatch(bs, uri)[l]
            IN  IF m # NoBlock /\ (r = NoBlock \/ Shorter(bs, r, m)) THEN m ELSE r
    IN  FoldLeft(longer, NoBlock, Locations(bs, server))

-------------------------------------------------------------------------------
(* The server block of a request                                               *)

\* ParseListen(): an address that is written without a port has that of the one in
\* front of it in the directive, and the first has 80.
Listen(written) ==
    LET port(seen, a) == IF a.port # NoValue THEN a.port
                         ELSE IF seen = <<>> THEN "80" ELSE Last(seen).port
    IN  FoldLeft(LAMBDA seen, a : Append(seen, [a EXCEPT !.port = port(seen, a)]),
                 <<>>, written)

\* The addresses of a server block, in the order of the file.
Addresses(bs, s) ==
    LET listens == Values(OfType(bs[s].items, "listen"))
    IN  IF listens = <<>> THEN <<DefaultSocket>>
        ELSE FlattenSeq([k \in DOMAIN listens |-> Listen(listens[k])])

\* What is bound for an address: three ways to write it stand for every interface.
Bound(a)       == [a EXCEPT !.value = IF @ \in {"", "0.0.0.0", "::"} THEN "" ELSE @]
Sockets(bs, s) == {Bound(a) : a \in ToSet(Addresses(bs, s))}

HttpServers(bs) == Values(OfType(bs[1].items, "server"))

\* Those of some servers that have a name.
Named(bs, servers, name) ==
    {k \in DOMAIN servers :
        name \in ToSet(Values(OfType(bs[servers[k]].items, "server_name")))}

\* query_server_block(): the first with that name, or else the first.
NamedBlock(bs, servers, name) ==
    LET named == Named(bs, servers, name)
    IN  servers[IF named = {} THEN 1 ELSE Min(named)]
=============================================================================

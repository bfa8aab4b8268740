------------------------------- MODULE ConfigText ------------------------------
(***************************************************************************)
(* The configuration file, read from top to bottom as ParseHttpBlock(),    *)
(* ParseServerBlock() and ParseLocationBlock() do                          *)
(* (src/src/Configuration/Parser.cpp): a directive goes into the innermost *)
(* open block, and a block goes into its parent, by add_directive(), when  *)
(* its closing brace is read.                                              *)
(*                                                                         *)
(* `atOpening` is no part of the program: for each block the values in     *)
(* force around it where the file opens it.                                *)
(***************************************************************************)
EXTENDS Directives

CONSTANTS
    Matches,     \* the paths of location blocks
    Uris,        \* the paths of requests
    Given,       \* the values of root and index directives
    MaxItems,    \* bound: directives and blocks in the file
    MaxDepth     \* bound: blocks inside each other, the http block included

\* A path is a sequence.
ASSUME MatchAssumption == \A m \in Matches : m \in Seq(ToSet(m))

VARIABLES
    blocks,      \* the blocks in the order they are opened
    opened,      \* the blocks not closed yet, outermost first
    atOpening

text == <<blocks, opened, atOpening>>

NewBlock(kind, match) ==
    [kind |-> kind, match |-> match, parent |-> NoBlock, index |-> 0, items |-> <<>>]

InitText ==
    /\ blocks = <<NewBlock("http", <<>>)>>
    /\ opened = <<1>>
    /\ atOpening = <<[root |-> NoValue, index |-> <<>>]>>

Top  == Last(opened)
Size == FoldLeft(LAMBDA n, b : n + Len(b.items), 0, blocks) + Len(opened)

Onto(known, v) == IF v \in ToSet(known) THEN known ELSE Append(known, v)

\* What holds in a block at this place of the file: the last root in it, or else
\* the one around it; its index files from the last to the first, then those
\* around it.
InForce(b) ==
    LET roots   == Values(OfType(blocks[b].items, "root"))
        indexes == Values(OfType(blocks[b].items, "index"))
    IN  [root  |-> IF roots = <<>> THEN atOpening[b].root ELSE Last(roots),
         index |-> FoldLeft(Onto, <<>>, Reverse(indexes) \o atOpening[b].index)]

\* add_directive() of a simple directive.
Simple ==
    /\ Size < MaxItems
    /\ \E type \in {"root", "index"}, value \in Given :
          blocks' = [blocks EXCEPT ![Top].items = Append(@, [type |-> type, value |-> value])]
    /\ UNCHANGED <<opened, atOpening>>

Open(kind, match) ==
    /\ Size < MaxItems /\ Len(opened) < MaxDepth
    /\ blocks' = Append(blocks, NewBlock(kind, match))
    /\ opened' = Append(opened, Len(blocks'))
    /\ atOpening' = Append(atOpening, InForce(Top))

OpenServer   == blocks[Top].kind = "http" /\ Open("server", <<>>)
OpenLocation == blocks[Top].kind # "http" /\ \E m \in Matches : Open("location", m)

\* Mutant of AddBlock: the index counts the directives of the same type.
AddBlockByType(p, c) ==
    [blocks EXCEPT ![p].items = Append(@, [type |-> blocks[c].kind, value |-> c]),
                   ![c].parent = p,
                   ![c].index = Len(OfType(blocks[p].items, blocks[c].kind))]

\* add_directive() of a block: set_context(directives_.size()), set_parent().
AddBlock(p, c) ==
    [blocks EXCEPT ![p].items = Append(@, [type |-> blocks[c].kind, value |-> c]),
                   ![c].parent = p,
                   ![c].index = Len(blocks[p].items)]

\* The brace of a block that is not the http block.
Close ==
    /\ Len(opened) > 1
    /\ opened' = Front(opened)
    /\ blocks' = AddBlock(Last(opened'), Top)
    /\ UNCHANGED atOpening

NextText == Simple \/ OpenServer \/ OpenLocation \/ Close

SpecText == InitText /\ [][NextText]_text

-------------------------------------------------------------------------------
(* Properties                                                                  *)

\* A file that may be queried.
Complete == opened = <<1>>

\* planning.md:72-80: a directive holds from its place in the file on, in the blocks
\* opened behind it too, until another overwrites it (LocationQuery.cpp:164-190); of those
\* that are appended all that are in force hold, the nearest first, none twice
\* (LocationQuery.cpp:192-232).
DirectivesInForce ==
    Complete =>
        \A b \in DOMAIN blocks :
            /\ Closest(blocks, b, "root") = InForce(b).root
            /\ Collected(blocks, b, "index") = InForce(b).index

\* The locations of a server a path can reach: it matches them and every location
\* around them.
Reached(s, uri) ==
    {l \in DOMAIN blocks :
        /\ s \in ToSet(Chain(blocks, l))
        /\ blocks[l].kind = "location"
        /\ \A m \in ToSet(Chain(blocks, l)) :
              blocks[m].kind = "location" => IsPrefix(blocks[m].match, uri)}

\* The first of those with the longest match is the location of the path.
FirstLongest(s, uri) ==
    LET reached == Reached(s, uri)
        longest == {l \in reached : \A m \in reached : ~Shorter(blocks, l, m)}
    IN  LocationBlock(blocks, s, uri) = IF reached = {} THEN NoBlock ELSE Min(longest)

Servers == {s \in DOMAIN blocks : blocks[s].kind = "server"}

\* Where locations are nested once at most a path gets the longest match, and of equal ones
\* the first (Location.cpp:68-92, Configuration.cpp:158-182).
Shallow == \A b \in DOMAIN blocks : Len(Chain(blocks, b)) <= 4
ShallowLongestMatch ==
    Complete /\ Shallow => \A s \in Servers, uri \in Uris : FirstLongest(s, uri)
=============================================================================

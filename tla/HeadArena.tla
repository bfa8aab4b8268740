------------------------------- MODULE HeadArena -------------------------------
(***************************************************************************)
(* The arena of the parse nodes of a head (Arena.hpp, Arenas.cpp).         *)
(* temporary::arena is cleared in front of the request line and in front   *)
(* of the fields; what is allocated comes back by a rollback or a clear,   *)
(* and a vector that grows leaves its old elements where they are.         *)
(* allocate() only asserts that there is room, and the assertion is not in *)
(* the program that is built with NDEBUG.                                  *)
(*                                                                         *)
(* Sizes are those of the 64-bit build; allocate() aligns nothing.         *)
(***************************************************************************)
EXTENDS Integers

CONSTANTS
    ArenaSize,      \* 10240
    RequestSizes,   \* what the nodes of a request line may take
    NodeSizes,      \* what the nodes of one field's value may take, its list aside
    MaxLines,       \* bound on the field lines of a head
    MaxOptions      \* bound on the options of its Connection fields

VARIABLES
    parsing,        \* the function at work: "request", "fields", "line", "analysis", "field"
    fill,           \* fill_ - memory_
    lines,          \* fields.size() of ParseFields()
    capacity,       \* and its capacity()
    analysed,       \* fields AnalysisRequestHeaders() has looked at
    options,        \* options.size() of ParseFieldConnection()
    spare,          \* and its capacity()
    listed          \* options of all the fields so far

arena == <<parsing, fill, lines, capacity, analysed, options, spare, listed>>

PointerBytes == 8
TokenBytes   == 24
LineBytes    == 72      \* PTNodeToken, PTNodeFieldValue, PTNodeFieldLine
FieldsBytes  == 32      \* PTNodeFields
FieldBytes   == 112     \* what NodeSizes does not exceed: Host, its address, its port
OptionBytes  == 64      \* what one option may take: its token, its share of the vector

\* What is in the arena is short of its end, for a head of n fields and m options.
Fits(n, m) == 224 * n + OptionBytes * m + LineBytes < ArenaSize

ASSUME ArenaAssumption ==
    /\ ArenaSize \in Nat
    /\ MaxLines \in Nat /\ MaxOptions \in Nat
    /\ RequestSizes \subseteq 0 .. ArenaSize - 1
    /\ NodeSizes \subseteq 0 .. FieldBytes

\* vector::push_back(): the capacity with one more element, and the bytes it takes.
Grown(size, room)     == IF size < room THEN room ELSE IF room = 0 THEN 1 ELSE 2 * room
GrownBytes(size, room) == IF size < room THEN 0 ELSE PointerBytes * Grown(size, room)

InitArena ==
    /\ parsing = "request" /\ fill = 0
    /\ lines = 0 /\ capacity = 0 /\ analysed = 0
    /\ options = 0 /\ spare = 0 /\ listed = 0

\* ParseRequestLine(), AnalysisRequestLine(), and the clear() behind them.
TakeRequestLine ==
    /\ parsing = "request"
    /\ fill' \in RequestSizes
    /\ parsing' = "done"
    /\ UNCHANGED <<lines, capacity, analysed, options, spare, listed>>

\* Mutant of BeginFields: the nodes of the request line stay.
BeginFieldsBehind ==
    /\ parsing = "done"
    /\ parsing' = "fields"
    /\ UNCHANGED <<fill, lines, capacity, analysed, options, spare, listed>>

\* The clear() in front of ParseFields().
BeginFields ==
    /\ parsing = "done"
    /\ fill' = 0
    /\ parsing' = "fields"
    /\ UNCHANGED <<lines, capacity, analysed, options, spare, listed>>

\* ParseFieldLine() makes its nodes.
ParseLine ==
    /\ parsing = "fields" /\ lines < MaxLines
    /\ fill' = fill + LineBytes
    /\ parsing' = "line"
    /\ UNCHANGED <<lines, capacity, analysed, options, spare, listed>>

\* The line ends as a line does: fields.push_back().
KeepLine ==
    /\ parsing = "line"
    /\ lines' = lines + 1
    /\ capacity' = Grown(lines, capacity)
    /\ fill' = fill + GrownBytes(lines, capacity)
    /\ parsing' = "fields"
    /\ UNCHANGED <<analysed, options, spare, listed>>

\* PTNodeFields and the copy of the vector.
EndFields ==
    /\ parsing' = "analysis"
    /\ fill' = fill + FieldsBytes + PointerBytes * lines
    /\ UNCHANGED <<lines, capacity, analysed, options, spare, listed>>

\* It does not: rollback(), and the fields end in front of it.
DropLine ==
    /\ parsing = "line"
    /\ parsing' = "analysis"
    /\ fill' = fill - LineBytes + FieldsBytes + PointerBytes * lines
    /\ UNCHANGED <<lines, capacity, analysed, options, spare, listed>>

\* No field line follows: ParseFieldLine() rolls back what it took of it.
NoLine == parsing = "fields" /\ EndFields

\* A case of AnalysisRequestHeaders(): the nodes of the value.
BeginField ==
    /\ parsing = "analysis" /\ analysed < lines
    /\ analysed' = analysed + 1
    /\ fill' \in {fill + n : n \in NodeSizes}
    /\ options' = 0 /\ spare' = 0
    /\ parsing' = "field"
    /\ UNCHANGED <<lines, capacity, listed>>

\* An option of a Connection field that begins with a comma; there the list has no end.
ReadOption ==
    /\ parsing = "field" /\ listed < MaxOptions
    /\ options' = options + 1 /\ listed' = listed + 1
    /\ spare' = Grown(options, spare)
    /\ fill' = fill + TokenBytes + GrownBytes(options, spare)
    /\ UNCHANGED <<parsing, lines, capacity, analysed>>

\* PTNodeFieldConnection takes a copy of the options.
EndField ==
    /\ parsing = "field"
    /\ fill' = fill + PointerBytes * options
    /\ options' = 0 /\ spare' = 0
    /\ parsing' = "analysis"
    /\ UNCHANGED <<lines, capacity, analysed, listed>>

\* The clear() behind the fields, or where one of them is not valid; the next request
\* begins with one too.
Clear ==
    /\ parsing \in {"done", "analysis", "field"}
    /\ parsing' = "request" /\ fill' = 0
    /\ lines' = 0 /\ capacity' = 0 /\ analysed' = 0
    /\ options' = 0 /\ spare' = 0 /\ listed' = 0

NextArena ==
    \/ TakeRequestLine \/ BeginFields \/ ParseLine \/ KeepLine \/ DropLine \/ NoLine
    \/ BeginField \/ ReadOption \/ EndField \/ Clear

SpecArena == InitArena /\ [][NextArena]_arena

-------------------------------------------------------------------------------
(* Properties                                                                  *)

\* The nodes of a head stay inside the arena, although nothing checks that there
\* is room, as long as the fields and options are not more than Fits() says: 45
\* field lines, for the 10240 bytes of Arenas.cpp (Arena.hpp:42-48).
ArenaSuffices == Fits(lines, listed) => fill < ArenaSize
=============================================================================

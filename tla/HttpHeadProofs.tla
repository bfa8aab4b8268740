----------------------------- MODULE HttpHeadProofs ----------------------------
(***************************************************************************)
(* Proofs about HttpHead and the two modules whose actions are part of its *)
(* steps: a head of so many fields and options as Fits() allows stays      *)
(* inside the arena, and as long as the numbers of a message are in the    *)
(* range of an int its body is taken exactly if it is within the limit,    *)
(* for arenas, nodes, ints and limits of any size; and every step of the   *)
(* parser is one of these modules, or leaves what they are about alone.    *)
(*                                                                         *)
(* And of the parser itself, for heads of any number of fields: what it    *)
(* makes of a head without a slip is what the client meant.  A head is cut *)
(* into its lines where it was put together (IsTails), as no lexeme of a   *)
(* request line, a name or a value is a line end; so the fields that are   *)
(* found are the first of those that were written (Matched), and what the  *)
(* request holds behind some of them is what these mean (Finished), a      *)
(* length and the options of a list also in the middle of one (Current).   *)
(***************************************************************************)
EXTENDS HttpHead, DirectivesProofs, SequenceTheorems, TLAPS

-------------------------------------------------------------------------------
(* The arena                                                                   *)

\* What a vector has taken from the arena by the time it has this capacity: every
\* capacity it had, each twice the one before.
VectorBytes(room) == IF room = 0 THEN 0 ELSE 2 * PointerBytes * room - PointerBytes

\* The capacity is less than twice what was needed.
Vector(size, room) ==
    /\ size \in Nat /\ room \in Nat
    /\ size <= room /\ room <= 2 * size

LineCost   == LineBytes * lines + VectorBytes(capacity)
FieldsCost == LineCost + FieldsBytes + PointerBytes * lines
Analysis   == FieldsCost + FieldBytes * analysed

Idle ==
    /\ lines = 0 /\ capacity = 0 /\ analysed = 0
    /\ options = 0 /\ spare = 0 /\ listed = 0

ArenaInv ==
    /\ parsing \in {"request", "done", "fields", "line", "analysis", "field"}
    /\ fill \in Nat
    /\ Vector(lines, capacity) /\ Vector(options, spare)
    /\ analysed \in 0 .. lines /\ listed \in Nat /\ options <= listed
    /\ parsing = "request" => Idle /\ fill = 0
    /\ parsing = "done" => Idle /\ fill < ArenaSize
    /\ parsing \in {"fields", "line"} => analysed = 0 /\ options = 0 /\ listed = 0 /\ spare = 0
    /\ parsing = "fields" => fill = LineCost
    /\ parsing = "line" => fill = LineCost + LineBytes
    /\ parsing = "analysis" =>
          options = 0 /\ spare = 0 /\ fill <= Analysis + OptionBytes * listed
    /\ parsing = "field" =>
          fill <= Analysis + OptionBytes * (listed - options)
                    + TokenBytes * options + VectorBytes(spare)

-------------------------------------------------------------------------------
(* The arena of a head: a vector that grows                                    *)

\* push_back() leaves a vector a vector, and takes what its new capacity costs
\* more than the old one (HeadArena: Grown, GrownBytes).
LEMMA PushBack ==
    ASSUME NEW n \in Nat, NEW room \in Nat, Vector(n, room)
    PROVE  /\ Vector(n + 1, Grown(n, room))
           /\ VectorBytes(Grown(n, room)) = VectorBytes(room) + GrownBytes(n, room)
           /\ GrownBytes(n, room) \in Nat
  BY DEF Vector, Grown, GrownBytes, VectorBytes, PointerBytes

\* What it has taken is no more than four pointers for each of its elements.
LEMMA VectorBound ==
    ASSUME NEW n \in Nat, NEW room \in Nat, Vector(n, room)
    PROVE  VectorBytes(room) \in Nat /\ VectorBytes(room) <= 4 * PointerBytes * n
  BY DEF Vector, VectorBytes, PointerBytes

-------------------------------------------------------------------------------
(* The invariant                                                               *)

LEMMA InitArenaInv == InitArena => ArenaInv
  BY DEF InitArena, ArenaInv, Idle, Vector

LEMMA NextArenaInv == ArenaInv /\ [NextArena]_arena => ArenaInv'
<1>. SUFFICES ASSUME ArenaInv, [NextArena]_arena  PROVE ArenaInv'
  OBVIOUS
<1>. USE DEF PointerBytes, TokenBytes, LineBytes, FieldsBytes, FieldBytes, OptionBytes
<1>0. /\ VectorBytes(capacity) \in Nat /\ VectorBytes(spare) \in Nat
      /\ LineCost \in Nat /\ Analysis \in Nat
  <2>1. VectorBytes(capacity) \in Nat /\ VectorBytes(spare) \in Nat
    BY VectorBound DEF ArenaInv, Vector
  <2>2. LineCost \in Nat
    BY <2>1 DEF LineCost, ArenaInv, Vector
  <2>3. QED
    BY <2>1, <2>2 DEF Analysis, FieldsCost, ArenaInv, Vector
<1>1. CASE TakeRequestLine
  BY <1>1, ArenaAssumption DEF TakeRequestLine, ArenaInv, Idle, Vector
<1>2. CASE BeginFields
  BY <1>2 DEF BeginFields, ArenaInv, Idle, Vector, LineCost, VectorBytes
<1>3. CASE ParseLine
  BY <1>3 DEF ParseLine, ArenaInv, Vector, LineCost, VectorBytes
<1>4. CASE KeepLine
  <2>1. /\ Vector(lines + 1, capacity')
        /\ VectorBytes(capacity') = VectorBytes(capacity) + GrownBytes(lines, capacity)
        /\ GrownBytes(lines, capacity) \in Nat
    BY <1>4, PushBack DEF KeepLine, ArenaInv, Vector
  <2>2. LineCost' = LineBytes * (lines + 1) + VectorBytes(capacity')
    BY <1>4 DEF KeepLine, LineCost
  <2>3. fill' = LineCost'
    BY <1>0, <1>4, <2>1, <2>2 DEF KeepLine, ArenaInv, LineCost, Vector
  <2>4. QED
    BY <1>0, <1>4, <2>1, <2>2, <2>3 DEF KeepLine, ArenaInv, Vector
<1>5. CASE DropLine
  <2>1. LineCost' = LineCost /\ Analysis' = LineCost + FieldsBytes + PointerBytes * lines
    BY <1>0, <1>5 DEF DropLine, ArenaInv, Vector, Analysis, FieldsCost, LineCost
  <2>2. QED
    BY <1>0, <1>5, <2>1 DEF DropLine, ArenaInv, Vector
<1>6. CASE NoLine
  <2>1. LineCost' = LineCost /\ Analysis' = LineCost + FieldsBytes + PointerBytes * lines
    BY <1>0, <1>6 DEF NoLine, EndFields, ArenaInv, Vector, Analysis, FieldsCost, LineCost
  <2>2. QED
    BY <1>0, <1>6, <2>1 DEF NoLine, EndFields, ArenaInv, Vector
<1>7. CASE BeginField
  <2>1. PICK n \in NodeSizes : fill' = fill + n
    BY <1>7 DEF BeginField
  <2>2. n \in 0 .. 112
    BY <2>1, ArenaAssumption
  <2>3. Analysis' = Analysis + 112
    BY <1>0, <1>7 DEF BeginField, ArenaInv, Vector, Analysis, FieldsCost, LineCost
  <2>4. QED
    BY <1>0, <1>7, <2>1, <2>2, <2>3 DEF BeginField, ArenaInv, Vector, VectorBytes
<1>8. CASE ReadOption
  <2>1. /\ Vector(options + 1, spare')
        /\ VectorBytes(spare') = VectorBytes(spare) + GrownBytes(options, spare)
        /\ GrownBytes(options, spare) \in Nat
    BY <1>8, PushBack DEF ReadOption, ArenaInv, Vector
  <2>2. Analysis' = Analysis
    BY <1>8 DEF ReadOption, Analysis, FieldsCost, LineCost
  <2>3. QED
    BY <1>0, <1>8, <2>1, <2>2 DEF ReadOption, ArenaInv, Vector
<1>9. CASE EndField
  <2>1. Analysis' = Analysis
    BY <1>9 DEF EndField, Analysis, FieldsCost, LineCost
  <2>2. VectorBytes(spare) \in Nat /\ VectorBytes(spare) <= 32 * options
    BY VectorBound DEF ArenaInv, Vector
  <2>3. QED
    BY <1>0, <1>9, <2>1, <2>2 DEF EndField, ArenaInv, Vector
<1>10. CASE Clear
  BY <1>10 DEF Clear, ArenaInv, Idle, Vector
<1>11. CASE UNCHANGED arena
  BY <1>11 DEF arena, ArenaInv, Idle, Vector, Analysis, FieldsCost, LineCost
<1>12. QED
  BY <1>1, <1>2, <1>3, <1>4, <1>5, <1>6, <1>7, <1>8, <1>9, <1>10, <1>11 DEF NextArena

LEMMA ArenaInvSuffices == ArenaInv => ArenaSuffices
<1>. SUFFICES ASSUME ArenaInv, Fits(lines, listed)  PROVE fill < ArenaSize
  BY DEF ArenaSuffices
<1>. USE DEF PointerBytes, TokenBytes, LineBytes, FieldsBytes, FieldBytes, OptionBytes
<1>1. VectorBytes(capacity) \in Nat /\ VectorBytes(capacity) <= 32 * lines
  BY VectorBound DEF ArenaInv, Vector
<1>2. VectorBytes(spare) \in Nat /\ VectorBytes(spare) <= 32 * options
  BY VectorBound DEF ArenaInv, Vector
<1>3. LineCost \in Nat /\ LineCost <= 104 * lines
  BY <1>1 DEF LineCost, ArenaInv, Vector
<1>4. Analysis \in Nat /\ Analysis <= 224 * lines + 32
  BY <1>3 DEF Analysis, FieldsCost, ArenaInv, Vector
<1>5. 224 * lines + 64 * listed + 72 < ArenaSize
  BY DEF Fits, ArenaInv
<1>6. CASE parsing \in {"request", "done"}
  BY <1>5, <1>6, ArenaAssumption DEF ArenaInv, Idle
<1>7. CASE parsing \in {"fields", "line"}
  BY <1>3, <1>5, <1>7, ArenaAssumption DEF ArenaInv, Vector
<1>8. CASE parsing = "analysis"
  <2>1. fill <= Analysis + 64 * listed
    BY <1>8 DEF ArenaInv
  <2>2. QED
    BY <1>4, <1>5, <2>1, ArenaAssumption DEF ArenaInv, Vector
<1>9. CASE parsing = "field"
  <2>1. fill <= Analysis + 64 * (listed - options) + 24 * options + VectorBytes(spare)
    BY <1>9 DEF ArenaInv
  <2>2. fill <= Analysis + 64 * listed
    BY <1>2, <1>4, <2>1 DEF ArenaInv, Vector
  <2>3. QED
    BY <1>4, <1>5, <2>2, ArenaAssumption DEF ArenaInv, Vector
<1>10. QED
  BY <1>6, <1>7, <1>8, <1>9 DEF ArenaInv

-------------------------------------------------------------------------------
(* The arena suffices                                                          *)

\* By the arena's own steps.
LEMMA ArenaHolds == SpecArena => []ArenaSuffices
<1>1. ArenaInv /\ [NextArena]_arena => ArenaInv'
  BY NextArenaInv
<1>2. SpecArena => []ArenaInv
  BY InitArenaInv, <1>1, PTL DEF SpecArena
<1>3. QED
  BY <1>2, ArenaInvSuffices, PTL

-------------------------------------------------------------------------------
(* The size of a body                                                          *)

SizesTyped ==
    /\ limit \in Limits \cup {0}
    /\ framing \in {"none", "length", "chunked"}
    /\ written \in Nat /\ total \in Nat /\ body \in Nat /\ number \in Int
    /\ exceeded \in BOOLEAN /\ sound \in BOOLEAN
    /\ verdict \in {"open", "accepted", "refused", "lost"}

\* Numbers in range are what the message says, a body that is still taken is all there
\* was so far, and one that is not is too long already.
SizesInv ==
    /\ SizesTyped
    /\ framing = "none" => ~exceeded /\ body = 0 /\ total = 0 /\ verdict = "open"
    /\ verdict = "open" /\ sound => number = written /\ written <= IntMax
    /\ framing = "chunked" /\ sound =>
          /\ body <= limit
          /\ ~exceeded => body = total
          /\ exceeded => limit < total
    /\ LimitKept
    /\ verdict = "open" /\ framing = "length" => ~exceeded /\ body = 0 /\ total = 0

-------------------------------------------------------------------------------
(* Numbers                                                                     *)

\* A number in its range is itself in an int and in a size_t (BodyLimit: ToInt, ToSize).
LEMMA InRange ==
    ASSUME NEW n \in Int
    PROVE  /\ n \in -(IntMax + 1) .. IntMax => ToInt(n) = n
           /\ n \in 0 .. SizeMax => ToSize(n) = n
           /\ ToInt(n) \in Int
<1>1. n \in -(IntMax + 1) .. IntMax => ToInt(n) = n
  BY DEF ToInt
<1>2. n \in 0 .. SizeMax => ToSize(n) = n
  BY DEF ToSize
<1>3. CASE n \in -(IntMax + 1) .. IntMax
  BY <1>1, <1>2, <1>3
<1>4. CASE n \notin -(IntMax + 1) .. IntMax
  <2>. DEFINE width == 2 * (IntMax + 1)
  <2>1. width \in Nat /\ width > 0
    BY SizeAssumption
  <2>2. n + IntMax + 1 \in Int
    BY SizeAssumption
  <2>. HIDE DEF width
  <2>3. (n + IntMax + 1) % width \in Int
    BY <2>1, <2>2
  <2>4. ToInt(n) = ((n + IntMax + 1) % width) - (IntMax + 1)
    BY <1>4 DEF ToInt, width
  <2>5. QED
    BY <1>1, <1>2, <2>3, <2>4, SizeAssumption
<1>5. QED
  BY <1>3, <1>4

\* An int is no more than the largest one, whatever number was put into it.
LEMMA IntBound ==
    ASSUME NEW n \in Int
    PROVE  ToInt(n) <= IntMax
<1>1. CASE n \in -(IntMax + 1) .. IntMax
  BY <1>1 DEF ToInt
<1>2. CASE n \notin -(IntMax + 1) .. IntMax
  <2>. DEFINE width == 2 * (IntMax + 1)
  <2>1. width \in Nat /\ width > 0 /\ n + IntMax + 1 \in Int
    BY SizeAssumption
  <2>2. (n + IntMax + 1) % width \in 0 .. width - 1
    <3>. HIDE DEF width
    <3>1. QED
      BY <2>1
  <2>3. ToInt(n) = ((n + IntMax + 1) % width) - (IntMax + 1)
    BY <1>2 DEF ToInt
  <2>4. (n + IntMax + 1) % width <= 2 * (IntMax + 1) - 1
    BY <2>2
  <2>. HIDE DEF width
  <2>5. (n + IntMax + 1) % width \in Int
    BY <2>1
  <2>6. QED
    BY <2>3, <2>4, <2>5, SizeAssumption
<1>3. QED
  BY <1>1, <1>2

\* A body within the limit and a chunk in the range of an int do not wrap together.
LEMMA SumInRange ==
    ASSUME SizesTyped, body <= limit, NEW n \in Nat, n <= IntMax
    PROVE  ToSize(body + n) = body + n
<1>1. limit \in Nat /\ limit + IntMax <= SizeMax
  BY SizeAssumption DEF SizesTyped
<1>2. body + n \in 0 .. SizeMax
  BY <1>1, SizeAssumption DEF SizesTyped
<1>3. QED
  BY <1>2, InRange

-------------------------------------------------------------------------------
(* The invariant                                                               *)

LEMMA InitSizesInv == InitSize => SizesInv
<1>. SUFFICES ASSUME InitSize  PROVE SizesInv
  OBVIOUS
<1>1. SizesTyped
  <2>1. exceeded \in BOOLEAN /\ sound \in BOOLEAN
    BY Zenon DEF InitSize
  <2>2. written \in Nat /\ total \in Nat /\ body \in Nat /\ number \in Int
    BY DEF InitSize
  <2>3. QED
    BY <2>1, <2>2 DEF InitSize, SizesTyped
<1>2. LimitKept
  BY DEF InitSize, LimitKept
<1>3. framing = "none" /\ ~exceeded /\ body = 0 /\ total = 0 /\ verdict = "open"
  BY DEF InitSize
<1>4. number = written /\ written <= IntMax
  BY SizeAssumption DEF InitSize
<1>5. QED
  BY <1>1, <1>2, <1>3, <1>4 DEF SizesInv

LEMMA ReadDigitInv ==
    ASSUME SizesInv, NEW base \in {10, 16}, NEW d \in 0 .. 15, ReadDigit(base, d)
    PROVE  SizesInv'
<1>1. number * base + d \in Int /\ written * base + d \in Nat /\ written <= written * base + d
  BY DEF SizesInv, SizesTyped
<1>2. number' \in Int /\ written' \in Nat
  BY <1>1, InRange DEF ReadDigit
<1>3. sound' => number' = written' /\ written' <= IntMax
  <2>. SUFFICES ASSUME sound'  PROVE number' = written' /\ written' <= IntMax
    OBVIOUS
  <2>1. number' = written'
    BY DEF ReadDigit
  <2>2. number' <= IntMax
    BY <1>1, IntBound DEF ReadDigit
  <2>3. QED
    BY <2>1, <2>2
<1>4. sound' => sound
  BY DEF ReadDigit
<1>5. sound' \in BOOLEAN
  BY DEF ReadDigit, SizesInv, SizesTyped
<1>6. QED
  BY <1>2, <1>3, <1>4, <1>5 DEF ReadDigit, SizesInv, SizesTyped, LimitKept

LEMMA ReadExtensionInv ==
    ASSUME SizesInv, NEW d \in 0 .. 15, ReadExtension(d)
    PROVE  SizesInv'
<1>1. number' \in Int
  BY InRange DEF ReadExtension, SizesInv, SizesTyped
<1>2. sound' => sound /\ number' = written
  BY DEF ReadExtension
<1>3. sound' \in BOOLEAN
  BY DEF ReadExtension, SizesInv, SizesTyped
<1>4. QED
  BY <1>1, <1>2, <1>3 DEF ReadExtension, SizesInv, SizesTyped, LimitKept

LEMMA NextSizesInv == SizesInv /\ [NextSize]_sizes => SizesInv'
<1>. SUFFICES ASSUME SizesInv, [NextSize]_sizes  PROVE SizesInv'
  OBVIOUS
<1>0. limit \in Nat /\ limit + IntMax <= SizeMax /\ IntMax \in Nat
  BY SizeAssumption DEF SizesInv, SizesTyped
<1>1. CASE FrameLength
  BY <1>1 DEF FrameLength, SizesInv, SizesTyped, LimitKept
<1>2. CASE FrameChunked
  <2>1. limit' \in Limits /\ limit' \in Nat
    BY <1>2, SizeAssumption DEF FrameChunked
  <2>2. ~exceeded' /\ framing' = "chunked" /\ verdict' = "open"
    BY <1>2 DEF FrameChunked, SizesInv
  <2>3. body' = 0 /\ total' = 0 /\ number' = 0 /\ written' = 0
    BY <1>2 DEF FrameChunked, SizesInv
  <2>4. exceeded' \in BOOLEAN /\ sound' \in BOOLEAN
    BY <1>2 DEF FrameChunked, SizesInv, SizesTyped
  <2>5. QED
    BY <1>0, <2>1, <2>2, <2>3, <2>4 DEF SizesInv, SizesTyped, LimitKept
<1>3. ASSUME NEW d \in 0 .. 9, ReadDigit(10, d)  PROVE SizesInv'
  BY <1>3, ReadDigitInv
<1>4. ASSUME NEW d \in 0 .. 15, ReadDigit(16, d)  PROVE SizesInv'
  BY <1>4, ReadDigitInv
<1>11. ASSUME NEW d \in 0 .. 15, ReadExtension(d)  PROVE SizesInv'
  BY <1>11, ReadExtensionInv
<1>5. CASE JudgeLength
  <2>1. sound => number = written
    BY <1>5 DEF JudgeLength, SizesInv
  <2>2. limit <= IntMax => ToInt(limit) = limit
    BY <1>0, InRange
  <2>3. ToInt(limit) \in Int
    BY <1>0, InRange
  <2>4. body' \in Nat /\ exceeded' \in BOOLEAN /\ verdict' \in {"accepted", "refused", "lost"}
    BY <1>5, <2>3 DEF JudgeLength, SizesInv, SizesTyped
  <2>5. LimitKept'
    <3>. SUFFICES ASSUME sound, limit <= IntMax
                  PROVE  /\ verdict' = "accepted" => total' <= limit /\ body' = total'
                         /\ verdict' = "refused" => total' > limit
                         /\ verdict' # "lost"
      BY <1>5 DEF JudgeLength, LimitKept
    <3>1. /\ exceeded' = (written > limit) /\ total' = written
          /\ verdict' = IF exceeded' THEN "refused" ELSE IF written < 0 THEN "lost" ELSE "accepted"
          /\ body' = IF verdict' = "accepted" THEN written ELSE 0
      BY <1>5, <2>1, <2>2, Zenon DEF JudgeLength
    <3>2. CASE written > limit
      <4>1. exceeded'
        BY <3>1, <3>2
      <4>2. verdict' = "refused"
        BY <3>1, <4>1
      <4>3. QED
        BY <3>1, <3>2, <4>2
    <3>3. CASE ~(written > limit)
      <4>1. ~exceeded'
        BY <3>1, <3>3
      <4>2. ~(written < 0) /\ written <= limit
        BY <1>0, <3>3 DEF SizesInv, SizesTyped
      <4>3. verdict' = "accepted"
        BY <3>1, <4>1, <4>2
      <4>4. QED
        BY <3>1, <4>2, <4>3
    <3>4. QED
      BY <3>2, <3>3
  <2>6. QED
    BY <1>5, <2>4, <2>5 DEF JudgeLength, SizesInv, SizesTyped
<1>6. CASE TakeChunk
  <2>1. number \in Nat /\ written = number /\ total' = total + number
    BY <1>6 DEF TakeChunk, SizesInv, SizesTyped
  <2>2. sound => ToSize(body + number) = body + number
    <3>. SUFFICES ASSUME sound  PROVE ToSize(body + number) = body + number
      OBVIOUS
    <3>1. SizesTyped /\ body <= limit /\ number <= IntMax
      BY <1>6 DEF TakeChunk, SizesInv
    <3>2. QED
      BY <2>1, <3>1, SumInRange
  <2>3. body' \in Nat /\ total' \in Nat /\ exceeded' \in BOOLEAN
    BY <1>6, <2>1 DEF TakeChunk, SizesInv, SizesTyped
  <2>4. sound => /\ body' <= limit
                 /\ ~exceeded' => body' = total'
                 /\ exceeded' => limit < total'
    <3>. SUFFICES ASSUME sound
                  PROVE  /\ body' <= limit
                         /\ ~exceeded' => body' = total'
                         /\ exceeded' => limit < total'
      OBVIOUS
    <3>1. /\ exceeded' <=> exceeded \/ body + number > limit
          /\ body' = IF exceeded' THEN body ELSE body + number
      BY <1>6, <2>2 DEF TakeChunk
    <3>2. /\ body <= limit
          /\ ~exceeded => body = total
          /\ exceeded => limit < total
      BY <1>6 DEF TakeChunk, SizesInv
    <3>3. CASE exceeded'
      BY <1>0, <2>1, <3>1, <3>2, <3>3 DEF SizesInv, SizesTyped
    <3>4. CASE ~exceeded'
      BY <1>0, <2>1, <3>1, <3>2, <3>4 DEF SizesInv, SizesTyped
    <3>5. QED
      BY <3>3, <3>4
  <2>5. QED
    BY <1>0, <1>6, <2>1, <2>3, <2>4 DEF TakeChunk, SizesInv, SizesTyped, LimitKept
<1>7. CASE LastChunk
  <2>1. sound => total' = total
    BY <1>7 DEF LastChunk, SizesInv, SizesTyped
  <2>2. QED
    BY <1>0, <1>7, <2>1 DEF LastChunk, SizesInv, SizesTyped, LimitKept
<1>8. CASE LoseTrack
  <2>1. ~sound
    BY <1>8 DEF LoseTrack, SizesInv, SizesTyped
  <2>2. QED
    BY <1>8, <2>1 DEF LoseTrack, SizesInv, SizesTyped, LimitKept
<1>9. CASE UNCHANGED sizes
  BY <1>9 DEF sizes, SizesInv, SizesTyped, LimitKept
<1>10. QED
  BY <1>1, <1>2, <1>3, <1>4, <1>5, <1>6, <1>7, <1>8, <1>9, <1>11 DEF NextSize

-------------------------------------------------------------------------------
(* The limit                                                                   *)

\* By the sizes' own steps.
LEMMA SizesHold == SpecSize => []LimitKept
<1>1. SpecSize => []SizesInv
  BY InitSizesInv, NextSizesInv, PTL DEF SpecSize
<1>2. SizesInv => LimitKept
  BY DEF SizesInv
<1>3. QED
  BY <1>1, <1>2, PTL

-------------------------------------------------------------------------------
(* The parser follows both                                                     *)

\* The framing of a body is not known before the head has been read.
FramingInv == phase # "body" => framing = "none"

LEMMA ReadingSteps ==
    ASSUME Next, FramingInv
    PROVE  [NextArena]_arena /\ [NextSize]_sizes /\ FramingInv'
<1>. DEFINE Goal == [NextArena]_arena /\ [NextSize]_sizes /\ FramingInv'
<1>. USE DEF FramingInv
<1>1. CASE UNCHANGED <<arena, sizes>> /\ phase # "body" /\ phase' # "body"
  BY <1>1 DEF arena, sizes
<1>2. CASE NextArena /\ UNCHANGED sizes /\ phase # "body" /\ phase' # "body"
  BY <1>2 DEF sizes
<1>3. CASE WriteRequestLine \/ WriteField \/ EndHead \/ Slip
  <2>1. phase \in {"write", "sent"} /\ phase' \in {"write", "sent"} /\ UNCHANGED <<arena, sizes>>
    BY <1>3 DEF WriteRequestLine, WriteField, EndHead, Slip
  <2>. QED  BY <1>1, <2>1
<1>4. CASE ReadRequestLine \/ RefuseRequestLine
  <2>1. TakeRequestLine /\ UNCHANGED sizes /\ phase = "sent"
        /\ phase' \in {"fields", "headers", "refused"}
    BY <1>4 DEF ReadRequestLine, RefuseRequestLine
  <2>. QED  BY <1>2, <2>1 DEF NextArena
<1>5. CASE ClearForFields \/ TakeLine \/ KeepField
  <2>1. (BeginFields \/ ParseLine \/ KeepLine) /\ UNCHANGED sizes
        /\ phase = "fields" /\ phase' = "fields"
    BY <1>5 DEF ClearForFields, TakeLine, KeepField
  <2>. QED  BY <1>2, <2>1 DEF NextArena
<1>6. CASE DropField \/ EndOfFields
  <2>1. (DropLine \/ NoLine) /\ UNCHANGED sizes /\ phase = "fields" /\ phase' = "headers"
    BY <1>6 DEF DropField, EndOfFields
  <2>. QED  BY <1>2, <2>1 DEF NextArena
<1>7. CASE BeginAnalysis
  <2>1. BeginField /\ UNCHANGED sizes /\ phase = "headers" /\ phase' = "headers"
    BY <1>7 DEF BeginAnalysis
  <2>. QED  BY <1>2, <2>1 DEF NextArena
<1>8. CASE FieldHost \/ FieldContentType \/ FieldTransferEncoding \/ FieldConnection
           \/ FieldContentLength \/ OtherField
  <2>1. EndField /\ UNCHANGED sizes /\ phase = "headers" /\ phase' = "headers"
    BY <1>8 DEF FieldHost, FieldContentType, FieldTransferEncoding, FieldConnection,
                FieldContentLength, OtherField, Keep, Analysing
  <2>. QED  BY <1>2, <2>1 DEF NextArena
<1>9. CASE ListedOption
  <2>1. ReadOption /\ UNCHANGED sizes /\ phase = "headers" /\ phase' = "headers"
    BY <1>9 DEF ListedOption, Analysing
  <2>. QED  BY <1>2, <2>1 DEF NextArena
<1>10. CASE LengthDigit
  <2>. DEFINE d == NumberOf(First(input))
  <2>1. /\ ReadDigit(10, d) /\ First(input) \in {"0", "1", "5"}
        /\ phase = "headers" /\ phase' = "headers" /\ UNCHANGED arena
    BY <1>10 DEF LengthDigit, Analysing
  <2>2. d \in 0 .. 9
    BY <2>1 DEF NumberOf
  <2>3. framing = "none" /\ framing' = "none"
    BY <2>1 DEF ReadDigit
  <2>. QED  BY <2>1, <2>2, <2>3 DEF NextSize
<1>11. CASE Loop
  <2>1. UNCHANGED <<arena, sizes>> /\ phase = "headers" /\ phase' = "loops"
    BY <1>11 DEF Loop, Analysing
  <2>. QED  BY <1>1, <2>1
<1>12. CASE GiveUp \/ EndHeaders
  <2>1. Clear /\ UNCHANGED sizes /\ phase = "headers" /\ phase' = "read"
    BY <1>12 DEF GiveUp, EndHeaders, Finish, Analysing
  <2>. QED  BY <1>2, <2>1 DEF NextArena
<1>13. CASE BeginBody
  <2>1. (FrameChunked \/ FrameLength) /\ phase' = "body" /\ UNCHANGED arena
    BY <1>13 DEF BeginBody
  <2>. QED  BY <2>1 DEF NextSize
<1>14. CASE ReadBody
  <2>1. UNCHANGED arena /\ phase' = "body"
    BY <1>14 DEF ReadBody, arena
  <2>2. NextSize
    <3>1. ASSUME NEW d \in HexDigits  PROVE d \in 0 .. 15
      BY DigitsAssumption
    <3>. QED  BY <1>14, <3>1 DEF ReadBody, NextSize
  <2>. QED  BY <2>1, <2>2
<1>. QED  BY <1>3, <1>4, <1>5, <1>6, <1>7, <1>8, <1>9, <1>10, <1>11, <1>12, <1>13, <1>14 DEF Next

\* Every step of the parser is a step of the arena and a step of the sizes, or leaves them
\* alone (Parser.cpp, main.cpp:311-516, Arena.hpp:42-48).
LEMMA FollowsLimits == Spec => SpecArena /\ SpecSize
<1>1. Init => InitArena /\ InitSize /\ FramingInv
  BY DEF Init, InitSize, FramingInv
<1>2. FramingInv /\ [Next]_vars => [NextArena]_arena /\ [NextSize]_sizes /\ FramingInv'
  <2>1. CASE UNCHANGED vars
    BY <2>1 DEF vars, FramingInv, arena, sizes
  <2>. QED  BY <2>1, ReadingSteps
<1>. QED  BY <1>1, <1>2, PTL DEF Spec, SpecArena, SpecSize

\* The nodes of every head that Fits() allows stay inside the arena: 45 field lines
\* in the program that is built, each with whatever value (Arenas.cpp, Arena.hpp:42-48).
\* A head beyond Fits() is not spoken of: Arena::allocate() does not test for room.
THEOREM ArenaSufficesAlways == Spec => []ArenaSuffices
BY FollowsLimits, ArenaHolds, PTL

\* A body is taken exactly if it is not longer than client_max_body_size, for any
\* sequence of chunks whose sizes an int can hold (main.cpp:366-436, 486-516).
THEOREM LimitKeptAlways == Spec => []LimitKept
BY FollowsLimits, SizesHold, PTL

-------------------------------------------------------------------------------
(* Texts                                                                       *)

Lexemes == Visible \cup Whitespace \cup ToSet(Crlf)
Texts   == Seq(Lexemes)

\* Which lexeme is which.
LEMMA Tokens ==
    /\ Words \subseteq TokenText /\ TokenText \subseteq Visible /\ Visible \subseteq Lexemes
    /\ Whitespace \subseteq Lexemes
    /\ ":" \in Lexemes /\ " " \in Lexemes /\ "cr" \in Lexemes /\ "nl" \in Lexemes
    /\ ":" \notin TokenText /\ " " \in Whitespace /\ " " \in Visible
    /\ \A x \in {"cr", "nl"} : x \notin Visible /\ x \notin Whitespace /\ x \notin TokenText
    /\ End \notin TokenText /\ End \notin Digit /\ End # "close" /\ End # "chunked"
BY DEF Words, TokenText, Digit, Visible, Segments, PathChar, RegText, Unreserved, SubDelims,
       Version, Whitespace, Lexemes, Crlf, ToSet, End

LEMMA MinIs ==
    ASSUME NEW S, S \subseteq Int, NEW n \in S, \A m \in S : n <= m
    PROVE  Min(S) = n
<1>1. \E x \in S : \A y \in S : x <= y
  OBVIOUS
<1>2. Min(S) \in S /\ \A y \in S : Min(S) <= y
  BY <1>1, Zenon DEF Min
<1>3. Min(S) \in Int /\ n \in Int /\ Min(S) <= n /\ n <= Min(S)
  BY <1>2
<1>. QED  BY <1>3

LEMMA MaxIs ==
    ASSUME NEW S, S \subseteq Int, NEW n \in S, \A m \in S : m <= n
    PROVE  Max(S) = n
<1>1. \E x \in S : \A y \in S : x >= y
  OBVIOUS
<1>2. Max(S) \in S /\ \A y \in S : Max(S) >= y
  BY <1>1, Zenon DEF Max
<1>3. Max(S) \in Int /\ n \in Int /\ Max(S) <= n /\ n <= Max(S)
  BY <1>2
<1>. QED  BY <1>3

\* Two texts one behind the other.
LEMMA Joins ==
    \A a, b \in Texts :
        /\ a \o b \in Texts /\ Len(a) \in Nat /\ Len(a \o b) = Len(a) + Len(b)
        /\ \A i \in 1 .. Len(a) : (a \o b)[i] = a[i]
        /\ \A i \in 1 .. Len(b) : (a \o b)[Len(a) + i] = b[i]
BY ConcatProperties DEF Texts

LEMMA Join ==
    ASSUME NEW a \in Texts, NEW b \in Texts, NEW n, Len(a) = n
    PROVE  /\ a \o b \in Texts /\ n \in Nat /\ Len(b) \in Nat /\ Len(a \o b) = n + Len(b)
           /\ \A i \in 1 .. n : (a \o b)[i] = a[i]
           /\ \A i \in 1 .. Len(b) : (a \o b)[n + i] = b[i]
BY Joins

LEMMA Regroups ==
    /\ \A a, b, c \in Texts : (a \o b) \o c = a \o (b \o c)
    /\ \A a \in Texts : <<>> \o a = a /\ a \o <<>> = a
    /\ <<>> \in Texts /\ Crlf \in Texts /\ Len(Crlf) = 2 /\ Crlf[1] = "cr" /\ Crlf[2] = "nl"
<1>1. \A a, b, c \in Texts : (a \o b) \o c = a \o (b \o c)
  BY ConcatAssociative DEF Texts
<1>2. \A a \in Texts : <<>> \o a = a /\ a \o <<>> = a
  BY ConcatEmptySeq DEF Texts
<1>3. <<>> \in Texts /\ Crlf \in Texts
  <2>1. "cr" \in Lexemes /\ "nl" \in Lexemes
    BY Tokens
  <2>. QED  BY <2>1 DEF Texts, Crlf
<1>4. Len(Crlf) = 2 /\ Crlf[1] = "cr" /\ Crlf[2] = "nl"
  BY DEF Crlf
<1>. QED  BY <1>1, <1>2, <1>3, <1>4

\* A text without the first of its lexemes.
LEMMA RestOf ==
    ASSUME NEW a \in Texts, NEW k \in 0 .. Len(a)
    PROVE  /\ Rest(a, k) \in Texts /\ Len(Rest(a, k)) = Len(a) - k
           /\ \A i \in 1 .. Len(a) - k : Rest(a, k)[i] = a[k + i]
<1>1. \A i \in (k + 1) .. Len(a) : a[i] \in Lexemes
  BY DEF Texts
<1>2. k + 1 \in Int /\ Len(a) \in Int
  BY DEF Texts
<1>3. /\ SubSeq(a, k + 1, Len(a)) \in Texts
      /\ Len(SubSeq(a, k + 1, Len(a))) = IF k + 1 <= Len(a) THEN Len(a) - (k + 1) + 1 ELSE 0
      /\ \A i \in 1 .. Len(a) - (k + 1) + 1 : SubSeq(a, k + 1, Len(a))[i] = a[k + 1 + i - 1]
  BY <1>1, <1>2, SubSeqProperties DEF Texts
<1>. QED  BY <1>3 DEF Rest, Texts

LEMMA TakeOf ==
    ASSUME NEW a \in Texts, NEW k \in 0 .. Len(a)
    PROVE  /\ Take(a, k) \in Texts /\ Len(Take(a, k)) = k
           /\ \A i \in 1 .. k : Take(a, k)[i] = a[i]
<1>1. \A i \in 1 .. k : a[i] \in Lexemes
  BY DEF Texts
<1>2. 1 \in Int /\ k \in Int
  BY DEF Texts
<1>3. /\ SubSeq(a, 1, k) \in Texts
      /\ Len(SubSeq(a, 1, k)) = IF 1 <= k THEN k - 1 + 1 ELSE 0
      /\ \A i \in 1 .. k - 1 + 1 : SubSeq(a, 1, k)[i] = a[1 + i - 1]
  BY <1>1, <1>2, SubSeqProperties DEF Texts
<1>. QED  BY <1>3 DEF Take, Texts

LEMMA SameText ==
    ASSUME NEW a \in Texts, NEW b \in Texts, Len(a) = Len(b),
           \A i \in 1 .. Len(a) : a[i] = b[i]
    PROVE  a = b
BY SeqEqual DEF Texts

LEMMA RestOfJoined ==
    ASSUME NEW a \in Texts, NEW b \in Texts
    PROVE  Rest(a \o b, Len(a)) = b /\ Take(a \o b, Len(a)) = a
<1>. DEFINE c == a \o b
            x == Rest(c, Len(a))
            y == Take(c, Len(a))
<1>1. /\ c \in Texts /\ Len(a) \in Nat /\ Len(b) \in Nat /\ Len(c) = Len(a) + Len(b)
      /\ \A i \in 1 .. Len(a) : c[i] = a[i]
      /\ \A i \in 1 .. Len(b) : c[Len(a) + i] = b[i]
  BY Joins
<1>. HIDE DEF c
<1>2. Len(a) \in 0 .. Len(c) /\ Len(c) - Len(a) = Len(b)
  BY <1>1
<1>3. x \in Texts /\ Len(x) = Len(b) /\ \A i \in 1 .. Len(b) : x[i] = c[Len(a) + i]
  BY <1>1, <1>2, RestOf
<1>4. y \in Texts /\ Len(y) = Len(a) /\ \A i \in 1 .. Len(a) : y[i] = c[i]
  BY <1>1, <1>2, TakeOf
<1>. HIDE DEF x, y
<1>5. x = b
  BY <1>1, <1>3, SameText
<1>6. y = a
  BY <1>1, <1>4, SameText
<1>. QED  BY <1>5, <1>6 DEF x, y, c

\* What is left of what is left.
LEMMA RestOfRest ==
    ASSUME NEW a \in Texts, NEW k \in 0 .. Len(a), NEW n \in 0 .. Len(a) - k
    PROVE  Rest(Rest(a, k), n) = Rest(a, k + n)
<1>. DEFINE b == Rest(a, k)
            x == Rest(b, n)
            y == Rest(a, k + n)
<1>1. b \in Texts /\ Len(b) = Len(a) - k /\ \A i \in 1 .. Len(a) - k : b[i] = a[k + i]
  BY RestOf
<1>. HIDE DEF b
<1>2. /\ Len(a) \in Nat /\ n \in 0 .. Len(b) /\ k + n \in 0 .. Len(a)
      /\ Len(b) - n = Len(a) - (k + n)
  BY <1>1, Joins
<1>3. x \in Texts /\ Len(x) = Len(b) - n /\ \A i \in 1 .. Len(b) - n : x[i] = b[n + i]
  BY <1>1, <1>2, RestOf
<1>4. y \in Texts /\ Len(y) = Len(a) - (k + n)
      /\ \A i \in 1 .. Len(a) - (k + n) : y[i] = a[(k + n) + i]
  BY <1>2, RestOf
<1>. HIDE DEF x, y
<1>5. \A i \in 1 .. Len(x) : x[i] = y[i]
  BY <1>1, <1>2, <1>3, <1>4
<1>. QED  BY <1>2, <1>3, <1>4, <1>5, SameText DEF x, y, b

LEMMA RestNone ==
    ASSUME NEW a \in Texts
    PROVE  Rest(a, 0) = a
<1>1. 0 \in 0 .. Len(a)
  BY Joins
<1>2. Rest(a, 0) \in Texts /\ Len(Rest(a, 0)) = Len(a) - 0
      /\ \A i \in 1 .. Len(a) - 0 : Rest(a, 0)[i] = a[0 + i]
  BY <1>1, RestOf
<1>3. Len(a) \in Nat
  BY Joins
<1>4. Len(Rest(a, 0)) = Len(a) /\ \A i \in 1 .. Len(a) : Rest(a, 0)[i] = a[i]
  BY <1>2, <1>3
<1>. QED  BY <1>2, <1>4, SameText

LEMMA FirstOfRest ==
    ASSUME NEW a \in Texts, NEW k \in 0 .. Len(a)
    PROVE  First(Rest(a, k)) = IF k = Len(a) THEN End ELSE a[k + 1]
<1>1. /\ Rest(a, k) \in Texts /\ Len(Rest(a, k)) = Len(a) - k
      /\ \A i \in 1 .. Len(a) - k : Rest(a, k)[i] = a[k + i]
  BY RestOf
<1>2. Len(a) \in Nat
  BY Joins
<1>3. CASE k = Len(a)
  <2>1. Rest(a, k) = <<>>
    BY <1>1, <1>2, <1>3 DEF Texts
  <2>. QED  BY <1>3, <2>1 DEF First
<1>4. CASE k < Len(a)
  <2>1. Rest(a, k) # <<>> /\ 1 \in 1 .. Len(a) - k
    BY <1>1, <1>2, <1>4
  <2>. QED  BY <1>1, <1>4, <2>1 DEF First
<1>. QED  BY <1>2, <1>3, <1>4

\* A run of lexemes ends in front of the first that is another.
LEMMA RunIs ==
    ASSUME NEW a \in Texts, NEW S, NEW n \in 0 .. Len(a), \A i \in 1 .. n : a[i] \in S,
           n < Len(a) => a[n + 1] \notin S
    PROVE  Run(a, S) = n
<1>. DEFINE T == {i \in 0 .. Len(a) - 1 : a[i + 1] \notin S} \cup {Len(a)}
<1>1. Len(a) \in Nat
  BY Joins
<1>2. T \subseteq Int /\ n \in T
  BY <1>1
<1>3. ASSUME NEW m \in T  PROVE n <= m
  <2>1. CASE m < n
    <3>1. m \in 0 .. Len(a) - 1 /\ m + 1 \in 1 .. n /\ a[m + 1] \notin S
      BY <1>1, <2>1
    <3>. QED  BY <3>1
  <2>. QED  BY <1>1, <1>2, <2>1
<1>4. Min(T) = n
  <2>. HIDE DEF T
  <2>. QED  BY <1>2, <1>3, MinIs
<1>. QED  BY <1>4 DEF Run

LEMMA RunUpTo ==
    ASSUME NEW a \in Texts, NEW S, NEW n \in 0 .. Len(a), \A i \in 1 .. n : a[i] \in S,
           NEW m, m = n + 1, a[m] \notin S
    PROVE  Run(a, S) = n
BY RunIs

LEMMA RunBounds ==
    ASSUME NEW a \in Texts, NEW S
    PROVE  /\ Run(a, S) \in 0 .. Len(a)
           /\ \A i \in 1 .. Run(a, S) : a[i] \in S
           /\ Run(a, S) < Len(a) => a[Run(a, S) + 1] \notin S
<1>. DEFINE T == {i \in 0 .. Len(a) - 1 : a[i + 1] \notin S} \cup {Len(a)}
            n == Run(a, S)
<1>1. Len(a) \in Nat
  BY Joins
<1>2. T \subseteq Nat /\ T # {}
  BY <1>1
<1>3. n \in T /\ \A m \in T : n <= m
  <2>1. n = Min(T)
    BY DEF Run
  <2>. HIDE DEF T, n
  <2>. QED  BY <1>2, <2>1, MinOf
<1>4. n \in 0 .. Len(a)
  BY <1>1, <1>3
<1>. HIDE DEF n
<1>5. ASSUME NEW i \in 1 .. n  PROVE a[i] \in S
  <2>1. i - 1 \in 0 .. Len(a) - 1 /\ i - 1 + 1 = i /\ ~(n <= i - 1)
    BY <1>1, <1>4
  <2>. QED  BY <1>3, <2>1
<1>6. ASSUME n < Len(a)  PROVE a[n + 1] \notin S
  BY <1>1, <1>3, <1>6
<1>. QED  BY <1>4, <1>5, <1>6 DEF n

-------------------------------------------------------------------------------
(* The line of a field                                                         *)

\* As a client writes it.
LineOf(f) == <<f.name, ":", " ">> \o f.value \o Crlf

LEMMA FieldFacts ==
    ASSUME NEW f \in FieldLines
    PROVE  /\ f.name \in Words /\ f.name \in TokenText /\ f.name \in Lexemes
           /\ f.value \in Texts /\ Len(f.value) \in Nat
           /\ \A i \in 1 .. Len(f.value) : f.value[i] \in Visible
           /\ f.value # <<>> => /\ Len(f.value) > 0 /\ f.value[1] \notin Whitespace
                                /\ f.value[Len(f.value)] \notin Whitespace
<1>1. f.name \in Words /\ f.value \in Seq(Visible)
  BY FieldsAssumption
<1>2. f.value # <<>> => f.value[1] \notin Whitespace /\ Last(f.value) \notin Whitespace
  BY FieldsAssumption
<1>3. f.value \in Texts /\ Len(f.value) \in Nat
  <2>1. Visible \subseteq Lexemes
    BY Tokens
  <2>. DEFINE v == f.value
  <2>2. v \in Seq(Visible)
    BY <1>1
  <2>. HIDE DEF v
  <2>3. v \in Seq(Lexemes)
    BY <2>1, <2>2, SeqMonotonic
  <2>. QED  BY <2>3 DEF Texts, v
<1>4. \A i \in 1 .. Len(f.value) : f.value[i] \in Visible
  BY <1>1, ElementOfSeq
<1>5. f.value # <<>> => Len(f.value) > 0
  BY <1>1, EmptySeq
<1>. QED  BY <1>1, <1>2, <1>3, <1>4, <1>5, Tokens DEF Last

LEMMA Three ==
    ASSUME NEW S, NEW a \in S, NEW b \in S, NEW c \in S
    PROVE  /\ <<a, b, c>> \in Seq(S) /\ Len(<<a, b, c>>) = 3
           /\ <<a, b, c>>[1] = a /\ <<a, b, c>>[2] = b /\ <<a, b, c>>[3] = c
OBVIOUS

\* What is where in it, and in a text behind it.
LEMMA LineFacts ==
    ASSUME NEW f \in FieldLines, NEW t \in Texts
    PROVE  LET s == LineOf(f) \o t
               n == Len(f.value)
           IN  /\ LineOf(f) \in Texts /\ Len(LineOf(f)) = n + 5
               /\ s \in Texts /\ Len(s) = n + 5 + Len(t) /\ Len(t) \in Nat
               /\ s[1] = f.name /\ s[2] = ":" /\ s[3] = " "
               /\ \A i \in 1 .. n : s[i + 3] = f.value[i]
               /\ s[n + 4] = "cr" /\ s[n + 5] = "nl"
<1>. DEFINE h == <<f.name, ":", " ">>
            v == f.value
            n == Len(v)
            l == LineOf(f)
            s == l \o t
<1>1. h \in Texts /\ Len(h) = 3 /\ h[1] = f.name /\ h[2] = ":" /\ h[3] = " "
  <2>1. f.name \in Lexemes /\ ":" \in Lexemes /\ " " \in Lexemes
    BY FieldFacts, Tokens
  <2>. QED  BY <2>1, Three DEF Texts
<1>. HIDE DEF h
<1>2. v \in Texts /\ n \in Nat
  BY FieldFacts
<1>. HIDE DEF v
<1>3. /\ h \o v \in Texts /\ Len(h \o v) = 3 + n
      /\ \A i \in 1 .. 3 : (h \o v)[i] = h[i]
      /\ \A i \in 1 .. n : (h \o v)[3 + i] = v[i]
  <2>1. Len(h) = 3 /\ Len(v) = n
    BY <1>1
  <2>. HIDE DEF n
  <2>2. /\ h \o v \in Texts /\ Len(h \o v) = Len(h) + Len(v)
        /\ \A i \in 1 .. Len(h) : (h \o v)[i] = h[i]
        /\ \A i \in 1 .. Len(v) : (h \o v)[Len(h) + i] = v[i]
    BY <1>1, <1>2, Joins
  <2>. DEFINE hv == h \o v
              lh == Len(h)
              lv == Len(v)
  <2>3. /\ hv \in Texts /\ Len(hv) = lh + lv
        /\ \A i \in 1 .. lh : hv[i] = h[i]
        /\ \A i \in 1 .. lv : hv[lh + i] = v[i]
    BY <2>2
  <2>4. lh = 3 /\ lv = n
    BY <2>1
  <2>. HIDE DEF hv, lh, lv
  <2>5. /\ hv \in Texts /\ Len(hv) = 3 + n
        /\ \A i \in 1 .. 3 : hv[i] = h[i]
        /\ \A i \in 1 .. n : hv[3 + i] = v[i]
    BY <2>3, <2>4
  <2>. QED  BY <2>5 DEF hv
<1>4. /\ l \in Texts /\ Len(l) = 5 + n
      /\ \A i \in 1 .. 3 + n : l[i] = (h \o v)[i]
      /\ \A i \in 1 .. 2 : l[3 + n + i] = Crlf[i]
  <2>1. l = (h \o v) \o Crlf
    BY DEF LineOf, h, v
  <2>. HIDE DEF l, n
  <2>2. Crlf \in Texts /\ Len(Crlf) = 2
    BY Regroups
  <2>3. /\ (h \o v) \o Crlf \in Texts /\ Len((h \o v) \o Crlf) = Len(h \o v) + Len(Crlf)
        /\ \A i \in 1 .. Len(h \o v) : ((h \o v) \o Crlf)[i] = (h \o v)[i]
        /\ \A i \in 1 .. Len(Crlf) : ((h \o v) \o Crlf)[Len(h \o v) + i] = Crlf[i]
    BY <1>3, <2>2, Joins
  <2>. QED  BY <1>2, <1>3, <2>1, <2>2, <2>3
<1>. HIDE DEF l, n
<1>5. /\ s \in Texts /\ Len(s) = 5 + n + Len(t) /\ Len(t) \in Nat
      /\ \A i \in 1 .. 5 + n : s[i] = l[i]
  <2>1. Len(l) = 5 + n
    BY <1>4
  <2>. QED  BY <1>4, <2>1, Join
<1>. HIDE DEF s
<1>6. s[1] = h[1] /\ s[2] = h[2] /\ s[3] = h[3]
  <2>1. \A i \in 1 .. 3 : i \in 1 .. 3 + n /\ i \in 1 .. 5 + n
    BY <1>2
  <2>2. \A i \in 1 .. 3 : s[i] = h[i]
    BY <1>3, <1>4, <1>5, <2>1
  <2>. QED  BY <2>2
<1>7. \A i \in 1 .. n : s[i + 3] = v[i]
  <2>1. ASSUME NEW i \in 1 .. n
        PROVE  s[i + 3] = v[i]
    <3>1. 3 + i \in 1 .. 3 + n /\ 3 + i \in 1 .. 5 + n /\ 3 + i = i + 3
      BY <1>2
    <3>2. s[3 + i] = l[3 + i] /\ l[3 + i] = (h \o v)[3 + i] /\ (h \o v)[3 + i] = v[i]
      BY <1>3, <1>4, <1>5, <3>1
    <3>. QED  BY <3>1, <3>2
  <2>. QED  BY <2>1
<1>8. s[n + 4] = "cr" /\ s[n + 5] = "nl"
  <2>1. /\ n + 4 \in 1 .. 5 + n /\ n + 5 \in 1 .. 5 + n
        /\ n + 4 = 3 + n + 1 /\ n + 5 = 3 + n + 2
    BY <1>2
  <2>2. l[3 + n + 1] = "cr" /\ l[3 + n + 2] = "nl"
    BY <1>4, Regroups
  <2>. QED  BY <1>5, <2>1, <2>2
<1>9. Len(l) = n + 5 /\ Len(s) = n + 5 + Len(t)
  BY <1>2, <1>4, <1>5
<1>. QED  BY <1>1, <1>4, <1>5, <1>6, <1>7, <1>8, <1>9 DEF l, n, s, v

-------------------------------------------------------------------------------
(* A head as it is sent                                                        *)

\* tail[i] is what is sent from the i-th of the fields on; the last of them ends the text
\* in front of what is behind the fields.
IsTails(g, tail, end) ==
    /\ tail \in [1 .. Len(g) + 1 -> Texts] /\ end \in Texts
    /\ tail[Len(g) + 1] = end
    /\ \A i \in 1 .. Len(g) : tail[i] = LineOf(g[i]) \o tail[i + 1]
    /\ g # <<>> => \E u \in Texts : tail[1] = (u \o Crlf) \o end

LEMMA Regroup ==
    ASSUME NEW a \in Texts, NEW b \in Texts, NEW c \in Texts
    PROVE  /\ (a \o b) \o c = a \o (b \o c)
           /\ a \o b \in Texts /\ b \o c \in Texts /\ a \o (b \o c) \in Texts
<1>1. (a \o b) \o c = a \o (b \o c)
  BY Regroups
<1>2. a \o b \in Texts /\ b \o c \in Texts
  BY Joins
<1>. DEFINE d == b \o c
<1>3. a \o d \in Texts
  <2>1. d \in Texts
    BY <1>2
  <2>. HIDE DEF d
  <2>. QED  BY <2>1, Joins
<1>. QED  BY <1>1, <1>2, <1>3

LEMMA LineText ==
    ASSUME NEW f \in FieldLines
    PROVE  LineOf(f) \in Texts /\ \E u \in Texts : LineOf(f) = u \o Crlf
<1>. DEFINE h == <<f.name, ":", " ">>
            v == f.value
<1>1. h \in Texts
  <2>1. f.name \in Lexemes /\ ":" \in Lexemes /\ " " \in Lexemes
    BY FieldFacts, Tokens
  <2>. QED  BY <2>1, Three DEF Texts
<1>2. v \in Texts
  BY FieldFacts
<1>3. LineOf(f) = (h \o v) \o Crlf
  BY DEF LineOf
<1>. HIDE DEF h, v
<1>4. h \o v \in Texts /\ (h \o v) \o Crlf \in Texts
  BY <1>1, <1>2, Joins, Regroups
<1>. QED  BY <1>3, <1>4

\* More text behind all of them.
LEMMA TailsLonger ==
    ASSUME NEW g \in Seq(FieldLines), NEW tail, NEW end, IsTails(g, tail, end), NEW x \in Texts
    PROVE  IsTails(g, [i \in 1 .. Len(g) + 1 |-> tail[i] \o x], end \o x)
<1>. DEFINE n == Len(g)
            longer == [i \in 1 .. n + 1 |-> tail[i] \o x]
<1>1. n \in Nat /\ end \in Texts /\ tail[n + 1] = end /\ \A i \in 1 .. n + 1 : tail[i] \in Texts
  BY DEF IsTails
<1>2. \A i \in 1 .. n : tail[i] = LineOf(g[i]) \o tail[i + 1] /\ LineOf(g[i]) \in Texts
  <2>1. \A i \in 1 .. n : g[i] \in FieldLines
    BY ElementOfSeq
  <2>. QED  BY <2>1, LineText DEF IsTails
<1>. HIDE DEF n
<1>3. \A i \in 1 .. n + 1 : longer[i] = tail[i] \o x /\ longer[i] \in Texts
  BY <1>1, Joins
<1>4. longer \in [1 .. n + 1 -> Texts] /\ end \o x \in Texts /\ longer[n + 1] = end \o x
  <2>1. n + 1 \in 1 .. n + 1
    BY <1>1
  <2>. QED  BY <1>1, <1>3, <2>1, Joins
<1>5. ASSUME NEW i \in 1 .. n  PROVE longer[i] = LineOf(g[i]) \o longer[i + 1]
  <2>1. i \in 1 .. n + 1 /\ i + 1 \in 1 .. n + 1
    BY <1>1
  <2>2. longer[i] = (LineOf(g[i]) \o tail[i + 1]) \o x
    BY <1>2, <1>3, <2>1
  <2>3. LineOf(g[i]) \in Texts /\ tail[i + 1] \in Texts
    BY <1>1, <1>2, <2>1
  <2>4. (LineOf(g[i]) \o tail[i + 1]) \o x = LineOf(g[i]) \o (tail[i + 1] \o x)
    BY <2>3, Regroup
  <2>5. longer[i + 1] = tail[i + 1] \o x
    BY <1>3, <2>1
  <2>. QED  BY <2>2, <2>4, <2>5, Zenon
<1>6. ASSUME g # <<>>  PROVE \E u \in Texts : longer[1] = (u \o Crlf) \o (end \o x)
  <2>1. PICK u \in Texts : tail[1] = (u \o Crlf) \o end
    BY <1>6 DEF IsTails
  <2>2. u \o Crlf \in Texts
    BY Joins, Regroups
  <2>3. 1 \in 1 .. n + 1
    BY <1>1
  <2>4. longer[1] = ((u \o Crlf) \o end) \o x
    BY <1>3, <2>1, <2>3
  <2>5. ((u \o Crlf) \o end) \o x = (u \o Crlf) \o (end \o x)
    <3>. DEFINE uc == u \o Crlf
    <3>1. uc \in Texts /\ end \in Texts
      BY <1>1, <2>2
    <3>. HIDE DEF uc
    <3>2. \A a, b, c \in Texts : (a \o b) \o c = a \o (b \o c)
      BY Regroups
    <3>3. (uc \o end) \o x = uc \o (end \o x)
      BY <3>1, <3>2, Zenon
    <3>. QED  BY <3>3 DEF uc
  <2>. QED  BY <2>4, <2>5, Zenon
<1>. HIDE DEF longer
<1>7. IsTails(g, longer, end \o x)
  BY <1>4, <1>5, <1>6 DEF IsTails, n
<1>. QED  BY <1>7 DEF longer, n

\* The line behind all of them is that of one field more.
LEMMA TailsOfOneMore ==
    ASSUME NEW g \in Seq(FieldLines), NEW f \in FieldLines, NEW tail,
           IsTails(g, tail, LineOf(f))
    PROVE  \E more : IsTails(Append(g, f), more, <<>>) /\ more[1] = tail[1]
<1>. DEFINE n == Len(g)
            h == Append(g, f)
            more == [i \in 1 .. n + 2 |-> IF i = n + 2 THEN <<>> ELSE tail[i]]
<1>1. /\ n \in Nat /\ tail[n + 1] = LineOf(f)
      /\ \A i \in 1 .. n + 1 : tail[i] \in Texts
      /\ \A i \in 1 .. n : tail[i] = LineOf(g[i]) \o tail[i + 1]
  <2>1. n \in Nat
    OBVIOUS
  <2>. HIDE DEF n
  <2>. QED  BY <2>1 DEF IsTails, n
<1>2. Len(h) = n + 1 /\ (\A i \in 1 .. n : h[i] = g[i]) /\ h[n + 1] = f /\ h # <<>>
  BY AppendProperties
<1>. HIDE DEF n, h
<1>3. /\ more[n + 2] = <<>>
      /\ \A i \in 1 .. n + 1 : more[i] = tail[i]
  BY <1>1
<1>4. more \in [1 .. n + 2 -> Texts]
  BY <1>1, Regroups
<1>. HIDE DEF more
<1>5. ASSUME NEW i \in 1 .. n + 1  PROVE more[i] = LineOf(h[i]) \o more[i + 1]
  <2>1. CASE i = n + 1
    <3>1. i + 1 = n + 2
      BY <1>1, <2>1
    <3>2. more[i] = LineOf(f) /\ more[i + 1] = <<>> /\ h[i] = f
      BY <1>1, <1>2, <1>3, <2>1, <3>1
    <3>. QED  BY <3>2, LineText, Regroups
  <2>2. CASE i # n + 1
    <3>1. i \in 1 .. n /\ i + 1 \in 1 .. n + 1
      BY <1>1, <2>2
    <3>. QED  BY <1>1, <1>2, <1>3, <3>1
  <2>. QED  BY <2>1, <2>2
<1>6. more[1] = tail[1]
  <2>1. 1 \in 1 .. n + 1
    BY <1>1
  <2>. QED  BY <1>3, <2>1
<1>7. \E u \in Texts : tail[1] = u \o Crlf
  <2>1. PICK v \in Texts : LineOf(f) = v \o Crlf
    BY LineText
  <2>2. CASE g = <<>>
    <3>1. n = 0
      BY <2>2 DEF n
    <3>. QED  BY <1>1, <2>1, <3>1
  <2>3. CASE g # <<>>
    <3>1. PICK u \in Texts : tail[1] = (u \o Crlf) \o LineOf(f)
      BY <2>3 DEF IsTails
    <3>2. u \o Crlf \in Texts /\ Crlf \in Texts
      BY Joins, Regroups
    <3>. DEFINE y == u \o Crlf
    <3>3. tail[1] = y \o (v \o Crlf) /\ y \in Texts
      BY <2>1, <3>1, <3>2
    <3>. HIDE DEF y
    <3>4. (y \o v) \o Crlf = y \o (v \o Crlf) /\ y \o v \in Texts
      BY <3>2, <3>3, Regroup
    <3>. QED  BY <3>3, <3>4
  <2>. QED  BY <2>2, <2>3
<1>8. \E u \in Texts : more[1] = (u \o Crlf) \o <<>>
  <2>1. PICK u \in Texts : tail[1] = u \o Crlf
    BY <1>7
  <2>2. u \o Crlf \in Texts
    BY Joins, Regroups
  <2>3. (u \o Crlf) \o <<>> = u \o Crlf
    BY <2>2, Regroups
  <2>. QED  BY <1>6, <2>1, <2>3
<1>9. IsTails(h, more, <<>>)
  <2>1. Len(h) + 1 = n + 2
    BY <1>1, <1>2
  <2>2. <<>> \in Texts
    BY Regroups
  <2>3. more \in [1 .. Len(h) + 1 -> Texts] /\ more[Len(h) + 1] = <<>>
    BY <1>3, <1>4, <2>1
  <2>4. \A i \in 1 .. Len(h) : more[i] = LineOf(h[i]) \o more[i + 1]
    BY <1>2, <1>5
  <2>. QED  BY <1>8, <2>2, <2>3, <2>4 DEF IsTails
<1>. QED  BY <1>6, <1>9 DEF h

LEMMA NoTails ==
    /\ IsTails(<<>>, [i \in 1 .. 1 |-> <<>>], <<>>)
    /\ [i \in 1 .. 1 |-> <<>>][1] = <<>>
BY Regroups DEF IsTails

-------------------------------------------------------------------------------
(* Line ends                                                                   *)

LEMMA BreakAt ==
    ASSUME NEW s \in Texts, NEW i \in 1 .. Len(s) - 1
    PROVE  i \in Breaks(s) <=> s[i] = "cr" /\ s[i + 1] = "nl"
<1>. DEFINE m == i + 1
            y == SubSeq(s, i, m)
<1>1. Len(s) \in Nat /\ \A j \in 1 .. Len(s) : s[j] \in Lexemes
  BY ElementOfSeq DEF Texts
<1>2. \A j \in i .. m : s[j] \in Lexemes
  BY <1>1
<1>3. i \in Int /\ m \in Int /\ m = i + 1
  BY <1>1
<1>. HIDE DEF m
<1>4. /\ y \in Seq(Lexemes) /\ Len(y) = IF i <= m THEN m - i + 1 ELSE 0
      /\ \A j \in 1 .. m - i + 1 : y[j] = s[i + j - 1]
  BY <1>2, <1>3, SubSeqProperties
<1>. HIDE DEF y
<1>5. Len(y) = 2 /\ m - i + 1 = 2 /\ i + 1 - 1 = i /\ i + 2 - 1 = i + 1
  BY <1>3, <1>4
<1>6. 1 \in 1 .. m - i + 1 /\ 2 \in 1 .. m - i + 1
  BY <1>3
<1>7. y[1] = s[i] /\ y[2] = s[i + 1]
  BY <1>4, <1>5, <1>6
<1>8. y = Crlf <=> y[1] = "cr" /\ y[2] = "nl"
  <2>1. Crlf \in Texts /\ Len(Crlf) = 2 /\ Crlf[1] = "cr" /\ Crlf[2] = "nl"
    BY Regroups
  <2>2. ASSUME y[1] = "cr" /\ y[2] = "nl"  PROVE y = Crlf
    <3>1. y \in Texts /\ Len(y) = Len(Crlf)
      BY <1>4, <1>5, <2>1 DEF Texts
    <3>2. \A j \in 1 .. 2 : j = 1 \/ j = 2
      OBVIOUS
    <3>3. \A j \in 1 .. Len(y) : y[j] = Crlf[j]
      BY <1>5, <2>1, <2>2, <3>2
    <3>. QED  BY <2>1, <3>1, <3>3, SameText
  <2>. QED  BY <2>1, <2>2
<1>9. i \in Breaks(s) <=> y = Crlf
  BY DEF Breaks, y, m
<1>. QED  BY <1>7, <1>8, <1>9

LEMMA Ended ==
    ASSUME NEW a \in Texts, NEW n, Len(a) = n
    PROVE  /\ a \o Crlf \in Texts /\ n \in Nat /\ Len(a \o Crlf) = n + 2
           /\ \A i \in 1 .. n : (a \o Crlf)[i] = a[i]
           /\ (a \o Crlf)[n + 1] = "cr" /\ (a \o Crlf)[n + 2] = "nl"
<1>. DEFINE e == Crlf
            s == a \o e
<1>1. e \in Texts /\ Len(e) = 2 /\ e[1] = "cr" /\ e[2] = "nl"
  BY Regroups
<1>. HIDE DEF e
<1>2. e \in Texts
  BY <1>1
<1>3. /\ s \in Texts /\ n \in Nat /\ Len(s) = n + Len(e)
      /\ \A i \in 1 .. n : s[i] = a[i]
      /\ \A i \in 1 .. Len(e) : s[n + i] = e[i]
  BY <1>2, Join
<1>. HIDE DEF s
<1>4. 1 \in 1 .. Len(e) /\ 2 \in 1 .. Len(e)
  BY <1>1
<1>5. s[n + 1] = "cr" /\ s[n + 2] = "nl"
  BY <1>1, <1>3, <1>4
<1>6. Len(s) = n + 2
  BY <1>1, <1>3
<1>. QED  BY <1>3, <1>5, <1>6 DEF s, e

\* The first line of a text, which has none of a line end in it.
LEMMA FirstLine ==
    ASSUME NEW l \in Seq(Visible \cup Whitespace), l # <<>>, NEW t \in Texts
    PROVE  LET s == (l \o Crlf) \o t
               n == Min(Breaks(s))
           IN  /\ l \in Texts /\ l \o Crlf \in Texts /\ s \in Texts
               /\ n = Len(l) + 1
               /\ Take(s, n + 1) = l \o Crlf
               /\ Rest(s, Len(l) + 2) = t /\ s[1] = l[1]
<1>. DEFINE a == l \o Crlf
            s == a \o t
            n == Len(l)
<1>1. l \in Texts /\ n \in Nat /\ n > 0 /\ \A i \in 1 .. n : l[i] \in Visible \cup Whitespace
  <2>1. Visible \cup Whitespace \subseteq Lexemes
    BY Tokens
  <2>. DEFINE S == Visible \cup Whitespace
  <2>2. l \in Seq(S) /\ S \subseteq Lexemes
    BY <2>1
  <2>. HIDE DEF S
  <2>3. l \in Seq(Lexemes) /\ n \in Nat /\ n > 0 /\ \A i \in 1 .. n : l[i] \in S
    BY <2>2, SeqMonotonic, ElementOfSeq, EmptySeq
  <2>. QED  BY <2>3 DEF Texts, S
<1>2. \A i \in 1 .. n : l[i] # "cr"
  BY <1>1, Tokens
<1>3. /\ a \in Texts /\ Len(a) = n + 2
      /\ \A i \in 1 .. n : a[i] = l[i]
      /\ a[n + 1] = "cr" /\ a[n + 2] = "nl"
  <2>1. l \in Texts
    BY <1>1
  <2>. QED  BY <2>1, Ended
<1>. HIDE DEF a
<1>4. Rest(s, n + 2) = t /\ Take(s, n + 2) = a
  BY <1>3, RestOfJoined
<1>5. /\ s \in Texts /\ Len(s) = n + 2 + Len(t) /\ Len(t) \in Nat
      /\ \A i \in 1 .. n + 2 : s[i] = a[i]
  BY <1>3, Join
<1>. HIDE DEF s, n
<1>6. Len(s) = n + 2 + Len(t) /\ Len(t) \in Nat /\ n \in Nat /\ n > 0
  BY <1>1, <1>5
<1>7. s[n + 1] = "cr" /\ s[n + 2] = "nl" /\ s[1] = l[1]
  <2>1. n + 1 \in 1 .. n + 2 /\ n + 2 \in 1 .. n + 2 /\ 1 \in 1 .. n + 2 /\ 1 \in 1 .. n
    BY <1>6
  <2>. QED  BY <1>3, <1>5, <2>1
<1>8. n + 1 \in Breaks(s)
  <2>1. n + 1 \in 1 .. Len(s) - 1 /\ n + 1 + 1 = n + 2
    BY <1>6
  <2>2. s \in Texts
    BY <1>5
  <2>. QED  BY <1>7, <2>1, <2>2, BreakAt
<1>9. ASSUME NEW i \in Breaks(s)  PROVE i \in Int /\ n + 1 <= i
  <2>1. i \in 1 .. Len(s) - 1
    BY DEF Breaks
  <2>2. s[i] = "cr"
    BY <1>5, <2>1, BreakAt
  <2>3. ~(i \in 1 .. n)
    <3>1. ASSUME i \in 1 .. n  PROVE FALSE
      <4>1. i \in 1 .. n + 2
        BY <1>6, <3>1
      <4>. QED  BY <1>2, <1>3, <1>5, <2>2, <3>1, <4>1
    <3>. QED  BY <3>1
  <2>. QED  BY <1>6, <2>1, <2>3
<1>10. Min(Breaks(s)) = n + 1
  <2>. DEFINE B == Breaks(s)
  <2>1. B \subseteq Int /\ n + 1 \in B /\ \A i \in B : n + 1 <= i
    BY <1>8, <1>9
  <2>. HIDE DEF B
  <2>2. Min(B) = n + 1
    BY <2>1, MinIs
  <2>. QED  BY <2>2 DEF B
<1>11. n + 1 + 1 = n + 2
  BY <1>6
<1>12. Take(s, Min(Breaks(s)) + 1) = a
  BY <1>4, <1>10, <1>11
<1>. QED  BY <1>1, <1>3, <1>4, <1>5, <1>7, <1>10, <1>12 DEF n, a, s

\* Behind a line, an empty line ends the fields; without one there is no such end.
LEMMA EndOfTails ==
    /\ \A u \in Texts : HasEnd((u \o Crlf) \o Crlf)
    /\ ~HasEnd(Crlf)
<1>1. ASSUME NEW u \in Texts  PROVE HasEnd((u \o Crlf) \o Crlf)
  <2>. DEFINE a == u \o Crlf
              s == a \o Crlf
              n == Len(u)
              m == n + 2
  <2>m. m = n + 2 /\ Len(u) = n
    OBVIOUS
  <2>. HIDE DEF n, m
  <2>1. a \in Texts /\ n \in Nat /\ Len(a) = m /\ a[n + 1] = "cr" /\ a[n + 2] = "nl"
    BY <2>m, Ended
  <2>. HIDE DEF a
  <2>2. /\ s \in Texts /\ Len(s) = m + 2
        /\ \A i \in 1 .. m : s[i] = a[i]
        /\ s[m + 1] = "cr" /\ s[m + 2] = "nl"
    BY <2>1, Ended
  <2>. HIDE DEF s
  <2>n. n \in Nat /\ Len(s) = m + 2
    BY <2>1, <2>2
  <2>4. /\ n + 1 \in 1 .. Len(s) - 1 /\ n + 3 \in 1 .. Len(s) - 1
        /\ n + 1 \in 1 .. m /\ n + 2 \in 1 .. m /\ n + 1 + 1 = n + 2
        /\ n + 3 = m + 1 /\ n + 3 + 1 = m + 2 /\ n + 1 + 2 = n + 3
    BY <2>n, <2>m
  <2>5. s[n + 1] = "cr" /\ s[n + 2] = "nl" /\ s[m + 1] = "cr" /\ s[m + 2] = "nl"
    BY <2>1, <2>2, <2>4
  <2>6. n + 1 \in Breaks(s) /\ n + 3 \in Breaks(s)
    <3>1. s \in Texts
      BY <2>2
    <3>. QED  BY <2>4, <2>5, <3>1, BreakAt
  <2>7. HasEnd(s)
    BY <2>4, <2>6, Zenon DEF HasEnd
  <2>. QED  BY <2>7 DEF s, a
<1>2. ~HasEnd(Crlf)
  <2>1. Len(Crlf) = 2
    BY Regroups
  <2>2. \A i \in Breaks(Crlf) : i \in 1 .. 2 - 1
    BY <2>1 DEF Breaks
  <2>3. \A i \in 1 .. 2 - 1 : i + 2 \notin 1 .. 2 - 1
    OBVIOUS
  <2>. QED  BY <2>2, <2>3 DEF HasEnd
<1>. QED  BY <1>1, <1>2

\* The empty line is no field.
LEMMA NoField == ParseFieldLine(Crlf).taken = Refused
<1>1. Crlf \in Texts /\ Len(Crlf) = 2 /\ Crlf[1] = "cr"
  BY Regroups
<1>2. 0 \in 0 .. Len(Crlf) /\ 1 = 0 + 1 /\ \A i \in 1 .. 0 : Crlf[i] \in TokenText
  BY <1>1
<1>3. Crlf[1] \notin TokenText
  BY <1>1, Tokens
<1>4. Run(Crlf, TokenText) = 0
  BY <1>1, <1>2, <1>3, RunUpTo
<1>5. ScanToken(Crlf) = Refused
  BY <1>4 DEF ScanToken, NonEmpty
<1>. QED  BY <1>5, Zenon DEF ParseFieldLine

-------------------------------------------------------------------------------
(* What has been read of the fields                                            *)

Kept == {"Host", "Content-Type", "Content-Length"}

AllPlain(g)   == \A i \in DOMAIN g : g[i].plain
IsFirst(g, i) == \A j \in 1 .. i - 1 : g[j].name # g[i].name

\* The first m fields are valid, and reading them ends.
Valid(g, m) ==
    \A i \in 1 .. m : ~g[i].bad /\ ~g[i].endless /\ (g[i].name = "Host" => IsFirst(g, i))

\* Of their names, those that are kept, and what is kept of one; and what is asked by one.
FoundIs(g, m, found) == found = {g[i].name : i \in 1 .. m} \cap Kept
KeptIs(g, m, name, found, value, none) ==
    /\ name \notin found => value = none
    /\ \A i \in 1 .. m : g[i].name = name /\ IsFirst(g, i) => value = g[i].is
AnyOf(g, m, name) == \E i \in 1 .. m : g[i].name = name /\ g[i].is

\* The request behind the first m fields, and what of it depends on lists and numbers,
\* which are read in more than one step.
Finished(g, m, r) ==
    /\ Valid(g, m) /\ FoundIs(g, m, r.found)
    /\ AllPlain(g) =>
          /\ KeptIs(g, m, "Host", r.found, r.header, <<>>)
          /\ KeptIs(g, m, "Content-Type", r.found, r.type, <<>>)
          /\ r.chunked <=> AnyOf(g, m, "Transfer-Encoding")
CloseIs(g, m, r)     == AllPlain(g) => (r.close <=> AnyOf(g, m, "Connection"))
LengthIs(g, m, r, n) == AllPlain(g) => KeptIs(g, m, "Content-Length", r.found, n, 0)

LEMMA NoFieldsYet ==
    ASSUME NEW g, NEW r, r.found = {}, r.header = <<>>, r.type = <<>>, ~r.chunked, ~r.close
    PROVE  Finished(g, 0, r) /\ CloseIs(g, 0, r) /\ LengthIs(g, 0, r, 0)
<1>1. \A i \in 1 .. 0 : FALSE
  OBVIOUS
<1>2. FoundIs(g, 0, r.found)
  BY <1>1 DEF FoundIs
<1>3. Valid(g, 0)
  BY <1>1 DEF Valid
<1>4. ~AnyOf(g, 0, "Transfer-Encoding") /\ ~AnyOf(g, 0, "Connection")
  BY <1>1 DEF AnyOf
<1>5. /\ KeptIs(g, 0, "Host", r.found, r.header, <<>>)
      /\ KeptIs(g, 0, "Content-Type", r.found, r.type, <<>>)
      /\ KeptIs(g, 0, "Content-Length", r.found, 0, 0)
  BY <1>1 DEF KeptIs
<1>. QED  BY <1>2, <1>3, <1>4, <1>5 DEF Finished, CloseIs, LengthIs

LEMMA UpToNext ==
    ASSUME NEW m \in Nat
    PROVE  /\ \A i \in 1 .. m + 1 : i \in 1 .. m \/ i = m + 1
           /\ \A i \in 1 .. m : i \in 1 .. m + 1
           /\ m + 1 \in 1 .. m + 1 /\ m + 1 - 1 = m
OBVIOUS

\* With one field more.
LEMMA FoundNext ==
    ASSUME NEW g, NEW m \in Nat, NEW found, FoundIs(g, m, found)
    PROVE  FoundIs(g, m + 1, found \cup ({g[m + 1].name} \cap Kept))
<1>1. {g[i].name : i \in 1 .. m + 1} = {g[i].name : i \in 1 .. m} \cup {g[m + 1].name}
  BY UpToNext
<1>. QED  BY <1>1 DEF FoundIs

LEMMA AnyNext ==
    ASSUME NEW g, NEW m \in Nat, NEW name
    PROVE  AnyOf(g, m + 1, name) <=>
              AnyOf(g, m, name) \/ (g[m + 1].name = name /\ g[m + 1].is)
BY UpToNext DEF AnyOf

\* Whether it is the first of its name shows in what was found.
LEMMA FirstShows ==
    ASSUME NEW g, NEW m \in Nat, NEW found, FoundIs(g, m, found), g[m + 1].name \in Kept
    PROVE  IsFirst(g, m + 1) <=> g[m + 1].name \notin found
BY UpToNext DEF FoundIs, IsFirst

LEMMA KeptNext ==
    ASSUME NEW g, NEW m \in Nat, NEW found, FoundIs(g, m, found), NEW name \in Kept,
           NEW value, NEW none, KeptIs(g, m, name, found, value, none), NEW next,
           next = IF g[m + 1].name = name /\ name \notin found THEN g[m + 1].is ELSE value
    PROVE  KeptIs(g, m + 1, name, found \cup ({g[m + 1].name} \cap Kept), next, none)
<1>. DEFINE more == found \cup ({g[m + 1].name} \cap Kept)
<1>1. ASSUME name \notin more  PROVE next = none
  <2>1. name \notin found /\ g[m + 1].name # name
    BY <1>1
  <2>. QED  BY <2>1 DEF KeptIs
<1>2. ASSUME NEW i \in 1 .. m + 1, g[i].name = name, IsFirst(g, i)  PROVE next = g[i].is
  <2>1. CASE i = m + 1
    BY <1>2, <2>1, FirstShows
  <2>2. CASE i \in 1 .. m
    <3>1. value = g[i].is
      BY <1>2, <2>2 DEF KeptIs
    <3>2. name \in found
      BY <1>2, <2>2 DEF FoundIs
    <3>. QED  BY <3>1, <3>2
  <2>. QED  BY <2>1, <2>2, UpToNext
<1>. HIDE DEF more
<1>3. KeptIs(g, m + 1, name, more, next, none)
  BY <1>1, <1>2 DEF KeptIs
<1>. QED  BY <1>3 DEF more

LEMMA FinishedNext ==
    ASSUME NEW g, NEW m \in Nat, NEW r, NEW s, Finished(g, m, r),
           ~g[m + 1].bad, ~g[m + 1].endless, g[m + 1].name = "Host" => "Host" \notin r.found,
           s.found = r.found \cup ({g[m + 1].name} \cap Kept),
           AllPlain(g) =>
              /\ s.header = IF g[m + 1].name = "Host" /\ "Host" \notin r.found
                            THEN g[m + 1].is ELSE r.header
              /\ s.type = IF g[m + 1].name = "Content-Type" /\ "Content-Type" \notin r.found
                          THEN g[m + 1].is ELSE r.type
              /\ s.chunked <=> r.chunked \/ (g[m + 1].name = "Transfer-Encoding" /\ g[m + 1].is)
    PROVE  Finished(g, m + 1, s)
<1>1. FoundIs(g, m, r.found) /\ Valid(g, m)
  BY DEF Finished
<1>2. FoundIs(g, m + 1, s.found)
  BY <1>1, FoundNext
<1>3. g[m + 1].name = "Host" => IsFirst(g, m + 1)
  <2>1. "Host" \in Kept
    BY DEF Kept
  <2>. QED  BY <1>1, <2>1, FirstShows
<1>4. Valid(g, m + 1)
  BY <1>1, <1>3, UpToNext DEF Valid
<1>5. ASSUME AllPlain(g)
      PROVE  /\ KeptIs(g, m + 1, "Host", s.found, s.header, <<>>)
             /\ KeptIs(g, m + 1, "Content-Type", s.found, s.type, <<>>)
             /\ s.chunked <=> AnyOf(g, m + 1, "Transfer-Encoding")
  <2>1. "Host" \in Kept /\ "Content-Type" \in Kept
    BY DEF Kept
  <2>2. /\ KeptIs(g, m, "Host", r.found, r.header, <<>>)
        /\ KeptIs(g, m, "Content-Type", r.found, r.type, <<>>)
        /\ r.chunked <=> AnyOf(g, m, "Transfer-Encoding")
    BY <1>5 DEF Finished
  <2>. DEFINE more == r.found \cup ({g[m + 1].name} \cap Kept)
  <2>3. KeptIs(g, m + 1, "Host", more, s.header, <<>>)
    <3>1. s.header = IF g[m + 1].name = "Host" /\ "Host" \notin r.found
                     THEN g[m + 1].is ELSE r.header
      BY <1>5
    <3>. QED  BY <1>1, <2>1, <2>2, <3>1, KeptNext
  <2>4. KeptIs(g, m + 1, "Content-Type", more, s.type, <<>>)
    <3>1. s.type = IF g[m + 1].name = "Content-Type" /\ "Content-Type" \notin r.found
                   THEN g[m + 1].is ELSE r.type
      BY <1>5
    <3>. QED  BY <1>1, <2>1, <2>2, <3>1, KeptNext
  <2>6. s.found = more
    OBVIOUS
  <2>5. s.chunked <=> AnyOf(g, m + 1, "Transfer-Encoding")
    BY <1>5, <2>2, AnyNext
  <2>. QED  BY <2>3, <2>4, <2>5, <2>6
<1>. QED  BY <1>2, <1>4, <1>5 DEF Finished

LEMMA CloseNext ==
    ASSUME NEW g, NEW m \in Nat, NEW r, NEW s,
           AllPlain(g) =>
              (s.close <=> \/ AnyOf(g, m, "Connection")
                           \/ g[m + 1].name = "Connection" /\ g[m + 1].is)
    PROVE  CloseIs(g, m + 1, s)
BY AnyNext DEF CloseIs

LEMMA LengthNext ==
    ASSUME NEW g, NEW m \in Nat, NEW r, NEW s, NEW n, NEW next, FoundIs(g, m, r.found),
           LengthIs(g, m, r, n),
           s.found = r.found \cup ({g[m + 1].name} \cap Kept),
           AllPlain(g) =>
              next = IF g[m + 1].name = "Content-Length" /\ "Content-Length" \notin r.found
                     THEN g[m + 1].is ELSE n
    PROVE  LengthIs(g, m + 1, s, next)
<1>1. "Content-Length" \in Kept
  BY DEF Kept
<1>2. SUFFICES ASSUME AllPlain(g)
               PROVE  KeptIs(g, m + 1, "Content-Length", s.found, next, 0)
  BY DEF LengthIs
<1>3. KeptIs(g, m, "Content-Length", r.found, n, 0)
  BY <1>2 DEF LengthIs
<1>. QED  BY <1>1, <1>2, <1>3, KeptNext

-------------------------------------------------------------------------------
(* Values that are read in more than one step                                  *)

LEMMA FieldMeans ==
    ASSUME NEW f \in FieldLines
    PROVE  /\ f.bad <=> \/ f.name = "Content-Type" /\ ScanContentType(f.value) = Refused
                        \/ f.name = "Content-Length" /\ First(f.value) \notin Digit
           /\ f.endless <=> \/ f.name = "Transfer-Encoding" /\ ListsCodings(f.value)
                            \/ /\ f.name = "Content-Type" /\ ~f.bad
                               /\ QuotesBehindToken(Rest(f.value, ScanContentType(f.value)))
           /\ f.plain /\ ~f.bad /\ ~f.endless => MeansWhatIsRead(f)
BY FieldsAssumption, Zenon

LengthDigits == {"0", "1", "5"}
Written(n, f, k) ==
    LET digits == Run(f.value, LengthDigits) IN
    \E upto \in [0 .. digits -> 0 .. f.is] :
        Numbers(upto, f.value) /\ upto[digits] = f.is /\ n = upto[k]

\* n is the number of the digits in front of what is left of the value.
ReadingDigits(g, f, left, n) ==
    \E k \in 0 .. Run(f.value, LengthDigits) :
        /\ left = Rest(f.value, k)
        /\ AllPlain(g) => (k = 0 => n = 0) /\ (~f.bad => Written(n, f, k))

\* The options behind and in front of what is left ask to close what they should.
ReadingOptions(g, m, f, left, close) ==
    \E k \in 0 .. Len(f.value) :
        /\ left = Rest(f.value, k)
        /\ AllPlain(g) =>
              \E closes \in [0 .. Len(f.value) -> BOOLEAN] :
                  /\ Options(closes, f.value) /\ closes[0] = f.is
                  /\ close \/ closes[k] <=> AnyOf(g, m, "Connection") \/ f.is

LEMMA DigitsBegin ==
    ASSUME NEW g, NEW f \in FieldLines, f.name = "Content-Length", NEW n,
           AllPlain(g) => f.plain /\ n = 0
    PROVE  ReadingDigits(g, f, f.value, n)
<1>1. f.value \in Texts
  BY FieldFacts
<1>2. f.value = Rest(f.value, 0) /\ 0 \in 0 .. Run(f.value, LengthDigits)
  <2>. DEFINE v == f.value
  <2>1. v \in Texts
    BY <1>1
  <2>. HIDE DEF v
  <2>2. v = Rest(v, 0) /\ Run(v, LengthDigits) \in 0 .. Len(v) /\ Len(v) \in Nat
    BY <2>1, RestNone, RunBounds, Joins
  <2>. QED  BY <2>2 DEF v
<1>3. ASSUME AllPlain(g), ~f.bad  PROVE Written(n, f, 0)
  <2>1. ~f.endless
    BY FieldMeans
  <2>2. MeansWhatIsRead(f)
    BY <1>3, <2>1, FieldMeans
  <2>. DEFINE digits == Run(f.value, LengthDigits)
  <2>3. \E upto \in [0 .. digits -> 0 .. f.is] :
            Numbers(upto, f.value) /\ upto[digits] = f.is
    BY <2>2 DEF MeansWhatIsRead, LengthDigits
  <2>4. n = 0
    BY <1>3
  <2>. HIDE DEF digits
  <2>5. \E upto \in [0 .. digits -> 0 .. f.is] :
            Numbers(upto, f.value) /\ upto[digits] = f.is /\ n = upto[0]
    BY <2>3, <2>4 DEF Numbers
  <2>. QED  BY <2>5 DEF Written, digits
<1>. QED  BY <1>2, <1>3 DEF ReadingDigits

LEMMA NoDigits ==
    ASSUME NEW f \in FieldLines, First(f.value) \notin Digit
    PROVE  Run(f.value, LengthDigits) = 0
<1>. DEFINE v == f.value
            n == Run(v, LengthDigits)
<1>1. v \in Texts
  BY FieldFacts
<1>. HIDE DEF v
<1>2. n \in 0 .. Len(v) /\ Len(v) \in Nat /\ \A i \in 1 .. n : v[i] \in LengthDigits
  BY <1>1, RunBounds, Joins
<1>3. First(v) \notin Digit
  BY DEF v
<1>. HIDE DEF n
<1>4. ASSUME n # 0  PROVE FALSE
  <2>1. 1 \in 1 .. n /\ v # <<>>
    BY <1>1, <1>2, <1>4
  <2>2. v[1] \in Digit
    BY <1>2, <2>1 DEF LengthDigits, Digit
  <2>. QED  BY <1>3, <2>1, <2>2 DEF First
<1>. QED  BY <1>4 DEF n, v

\* What is left behind a digit, or behind the last of them.
LEMMA DigitBehind ==
    ASSUME NEW v \in Texts, NEW k \in 0 .. Run(v, LengthDigits)
    PROVE  /\ First(Rest(v, k)) \in LengthDigits =>
                 /\ k + 1 \in 0 .. Run(v, LengthDigits) /\ First(Rest(v, k)) = v[k + 1]
                 /\ Rest(Rest(v, k), 1) = Rest(v, k + 1)
           /\ First(Rest(v, k)) \notin LengthDigits => k = Run(v, LengthDigits)
<1>. DEFINE n == Run(v, LengthDigits)
<1>1. /\ n \in 0 .. Len(v) /\ Len(v) \in Nat
      /\ \A i \in 1 .. n : v[i] \in LengthDigits
      /\ n < Len(v) => v[n + 1] \notin LengthDigits
  BY RunBounds, Joins
<1>. HIDE DEF n
<1>2. k \in 0 .. n /\ k \in 0 .. Len(v)
  BY <1>1 DEF n
<1>3. First(Rest(v, k)) = IF k = Len(v) THEN End ELSE v[k + 1]
  BY <1>2, FirstOfRest
<1>4. End \notin LengthDigits
  BY DEF End, LengthDigits
<1>5. ASSUME First(Rest(v, k)) \in LengthDigits
      PROVE  /\ k + 1 \in 0 .. n /\ First(Rest(v, k)) = v[k + 1]
             /\ Rest(Rest(v, k), 1) = Rest(v, k + 1)
  <2>1. k # Len(v) /\ First(Rest(v, k)) = v[k + 1]
    BY <1>3, <1>4, <1>5
  <2>2. k # n
    <3>1. ASSUME k = n  PROVE FALSE
      <4>1. n < Len(v)
        BY <1>1, <2>1, <3>1
      <4>. QED  BY <1>1, <1>5, <2>1, <3>1, <4>1
    <3>. QED  BY <3>1
  <2>3. k + 1 \in 0 .. n /\ 1 \in 0 .. Len(v) - k
    BY <1>1, <1>2, <2>1, <2>2
  <2>4. Rest(Rest(v, k), 1) = Rest(v, k + 1)
    BY <1>2, <2>3, RestOfRest
  <2>. QED  BY <2>1, <2>3, <2>4
<1>6. ASSUME First(Rest(v, k)) \notin LengthDigits  PROVE k = n
  <2>1. ASSUME k # n  PROVE FALSE
    <3>1. k + 1 \in 1 .. n /\ k # Len(v)
      BY <1>1, <1>2, <2>1
    <3>. QED  BY <1>1, <1>3, <1>6, <3>1
  <2>. QED  BY <2>1
<1>. QED  BY <1>5, <1>6 DEF n

LEMMA DigitsNext ==
    ASSUME NEW g, NEW f \in FieldLines, NEW left, NEW n, ReadingDigits(g, f, left, n),
           First(left) \in LengthDigits
    PROVE  ReadingDigits(g, f, Rest(left, 1), n * 10 + NumberOf(First(left)))
<1>. DEFINE v == f.value
            d == Run(v, LengthDigits)
            next == n * 10 + NumberOf(First(left))
<1>1. PICK k \in 0 .. d :
          /\ left = Rest(v, k)
          /\ AllPlain(g) => (k = 0 => n = 0) /\ (~f.bad => Written(n, f, k))
  BY Zenon DEF ReadingDigits
<1>2. v \in Texts
  BY FieldFacts
<1>. HIDE DEF v
<1>3. /\ k + 1 \in 0 .. d /\ First(left) = v[k + 1]
      /\ Rest(left, 1) = Rest(v, k + 1)
  BY <1>1, <1>2, DigitBehind
<1>. HIDE DEF d
<1>4. ASSUME AllPlain(g), ~f.bad  PROVE Written(next, f, k + 1)
  <2>1. PICK upto \in [0 .. d -> 0 .. f.is] :
            Numbers(upto, v) /\ upto[d] = f.is /\ n = upto[k]
    <3>1. Written(n, f, k)
      BY <1>1, <1>4
    <3>. QED  BY <3>1 DEF Written, v, d
  <2>. DEFINE j == k + 1
  <2>2. j \in DOMAIN upto \ {0} /\ j - 1 = k
    BY <1>3
  <2>. HIDE DEF j
  <2>3. upto[j] = 10 * upto[j - 1] + NumberOf(v[j])
    <3>1. Numbers(upto, v)
      BY <2>1
    <3>. QED  BY <2>2, <3>1 DEF Numbers
  <2>4. upto[k + 1] = 10 * n + NumberOf(v[k + 1])
    BY <2>1, <2>2, <2>3 DEF j
  <2>5. n \in Int /\ 10 * n = n * 10
    BY <2>1
  <2>6. next = upto[k + 1]
    BY <1>3, <2>4, <2>5
  <2>. HIDE DEF next
  <2>7. \E x \in [0 .. d -> 0 .. f.is] :
            Numbers(x, v) /\ x[d] = f.is /\ next = x[k + 1]
    BY <2>1, <2>6
  <2>. QED  BY <2>7 DEF Written, v, d
<1>5. k + 1 # 0
  BY <1>1
<1>. HIDE DEF next
<1>6. ReadingDigits(g, f, Rest(left, 1), next)
  BY <1>3, <1>4, <1>5 DEF ReadingDigits, d, v
<1>. QED  BY <1>6 DEF next

LEMMA DigitsEnd ==
    ASSUME NEW g, NEW f \in FieldLines, NEW left, NEW n, ReadingDigits(g, f, left, n),
           AllPlain(g)
    PROVE  /\ First(left) \notin LengthDigits /\ ~f.bad => n = f.is
           /\ First(f.value) \notin Digit => n = 0
<1>. DEFINE v == f.value
            d == Run(v, LengthDigits)
<1>1. PICK k \in 0 .. d :
          left = Rest(v, k) /\ (k = 0 => n = 0) /\ (~f.bad => Written(n, f, k))
  BY Zenon DEF ReadingDigits
<1>2. v \in Texts
  BY FieldFacts
<1>3. ASSUME First(left) \notin LengthDigits, ~f.bad  PROVE n = f.is
  <2>1. k = d
    <3>. HIDE DEF v
    <3>. QED  BY <1>1, <1>2, <1>3, DigitBehind
  <2>2. Written(n, f, d)
    BY <1>1, <1>3, <2>1
  <2>. QED  BY <2>2 DEF Written
<1>4. ASSUME First(f.value) \notin Digit  PROVE n = 0
  <2>1. d = 0
    BY <1>4, NoDigits
  <2>. HIDE DEF d
  <2>. QED  BY <1>1, <2>1
<1>. QED  BY <1>3, <1>4

LEMMA OptionsBegin ==
    ASSUME NEW g, NEW m, NEW f \in FieldLines, f.name = "Connection", NEW close,
           AllPlain(g) => f.plain /\ (close <=> AnyOf(g, m, "Connection"))
    PROVE  ReadingOptions(g, m, f, f.value, close)
<1>1. f.value \in Texts /\ Len(f.value) \in Nat
  BY FieldFacts
<1>2. f.value = Rest(f.value, 0) /\ 0 \in 0 .. Len(f.value)
  BY <1>1, RestNone
<1>3. ASSUME AllPlain(g)
      PROVE  \E closes \in [0 .. Len(f.value) -> BOOLEAN] :
                 /\ Options(closes, f.value) /\ closes[0] = f.is
                 /\ close \/ closes[0] <=> AnyOf(g, m, "Connection") \/ f.is
  <2>1. ~f.endless /\ ~f.bad
    BY FieldMeans
  <2>2. MeansWhatIsRead(f)
    BY <1>3, <2>1, FieldMeans
  <2>3. PICK closes \in [0 .. Len(f.value) -> BOOLEAN] :
            Options(closes, f.value) /\ closes[0] = f.is
    BY <2>2 DEF MeansWhatIsRead
  <2>4. close \/ closes[0] <=> AnyOf(g, m, "Connection") \/ f.is
    BY <1>3, <2>3
  <2>. QED  BY <2>3, <2>4, Zenon
<1>. QED  BY <1>2, <1>3, Zenon DEF ReadingOptions

LEMMA CommaBounds ==
    ASSUME NEW s \in Texts, ScanComma(s) # Refused
    PROVE  ScanComma(s) \in 0 .. Len(s)
<1>. DEFINE n == Run(s, Whitespace)
            r == Rest(s, n + 1)
            m == Run(r, Whitespace)
<1>1. n \in 0 .. Len(s) /\ Len(s) \in Nat
  BY RunBounds, Joins
<1>2. ScanComma(s) = IF At(s, n + 1) = "," THEN n + 1 + m ELSE Refused
  BY DEF ScanComma
<1>. HIDE DEF n
<1>3. At(s, n + 1) = ","
  BY <1>2
<1>4. n + 1 \in DOMAIN s
  BY <1>3 DEF At, End
<1>5. n + 1 \in 0 .. Len(s)
  BY <1>1, <1>4 DEF Texts
<1>6. r \in Texts /\ Len(r) = Len(s) - (n + 1)
  BY <1>5, RestOf
<1>. HIDE DEF r
<1>7. m \in 0 .. Len(r)
  BY <1>6, RunBounds
<1>. HIDE DEF m
<1>8. n + 1 + m \in 0 .. Len(s)
  BY <1>1, <1>5, <1>6, <1>7
<1>. QED  BY <1>2, <1>3, <1>8

\* Behind the next of the options.
LEMMA OptionBehind ==
    ASSUME NEW v \in Texts, NEW k \in 0 .. Len(v), HasOption(Rest(v, k))
    PROVE  LET s == Rest(v, k)
               t == Rest(s, ScanComma(s))
               j == k + ScanComma(s) + ScanToken(t)
           IN  j \in 0 .. Len(v) /\ Rest(t, ScanToken(t)) = Rest(v, j)
<1>. DEFINE s == Rest(v, k)
            c == ScanComma(s)
            t == Rest(s, c)
            n == ScanToken(t)
<1>1. s \in Texts /\ Len(s) = Len(v) - k /\ Len(v) \in Nat
  BY RestOf, Joins
<1>2. c # Refused /\ First(t) \in TokenText
  BY DEF HasOption
<1>. HIDE DEF s
<1>3. c \in 0 .. Len(s)
  BY <1>1, <1>2, CommaBounds
<1>. HIDE DEF c
<1>4. t \in Texts /\ Len(t) = Len(s) - c
  BY <1>1, <1>3, RestOf
<1>. HIDE DEF t
<1>5. /\ Run(t, TokenText) \in 0 .. Len(t) /\ Len(t) \in Nat
      /\ Run(t, TokenText) < Len(t) => t[Run(t, TokenText) + 1] \notin TokenText
  BY <1>4, RunBounds, Joins
<1>6. n \in 0 .. Len(t)
  <2>1. t # <<>> /\ First(t) = t[1]
    BY <1>2, Tokens DEF First
  <2>2. Run(t, TokenText) # 0
    <3>1. Len(t) > 0
      BY <1>4, <1>5, <2>1 DEF Texts
    <3>2. ASSUME Run(t, TokenText) = 0  PROVE FALSE
      <4>1. t[0 + 1] \notin TokenText
        BY <1>5, <3>1, <3>2
      <4>. QED  BY <1>2, <2>1, <4>1
    <3>. QED  BY <3>2
  <2>3. n = Run(t, TokenText)
    BY <1>5, <2>2 DEF ScanToken, NonEmpty
  <2>. QED  BY <1>5, <2>3
<1>. HIDE DEF n
<1>7. n \in 0 .. Len(s) - c
  BY <1>4, <1>6
<1>8. Rest(t, n) = Rest(s, c + n)
  BY <1>1, <1>3, <1>7, RestOfRest DEF t
<1>9. c + n \in 0 .. Len(v) - k /\ k + (c + n) = k + c + n /\ k + c + n \in 0 .. Len(v)
  BY <1>1, <1>3, <1>4, <1>6
<1>10. Rest(s, c + n) = Rest(v, k + (c + n))
  <2>. DEFINE b == c + n
  <2>1. b \in 0 .. Len(v) - k
    BY <1>9
  <2>. HIDE DEF b
  <2>2. Rest(Rest(v, k), b) = Rest(v, k + b)
    BY <2>1, RestOfRest
  <2>. QED  BY <2>2 DEF b, s
<1>. QED  BY <1>8, <1>9, <1>10 DEF n, t, c, s

LEMMA OptionsNext ==
    ASSUME NEW g, NEW m, NEW f \in FieldLines, NEW left, NEW close,
           ReadingOptions(g, m, f, left, close), HasOption(left)
    PROVE  LET t == Rest(left, ScanComma(left))
           IN  ReadingOptions(g, m, f, Rest(t, ScanToken(t)), close \/ First(t) = "close")
<1>. DEFINE v == f.value
            t == Rest(left, ScanComma(left))
<1>1. PICK k \in 0 .. Len(v) :
          /\ left = Rest(v, k)
          /\ AllPlain(g) =>
                \E closes \in [0 .. Len(v) -> BOOLEAN] :
                    /\ Options(closes, v) /\ closes[0] = f.is
                    /\ close \/ closes[k] <=> AnyOf(g, m, "Connection") \/ f.is
  BY Zenon DEF ReadingOptions
<1>. DEFINE j == k + ScanComma(left) + ScanToken(t)
<1>2. v \in Texts
  BY FieldFacts
<1>3. j \in 0 .. Len(v) /\ Rest(t, ScanToken(t)) = Rest(v, j)
  <2>. HIDE DEF v
  <2>. QED  BY <1>1, <1>2, OptionBehind
<1>4. ASSUME AllPlain(g)
      PROVE  \E closes \in [0 .. Len(v) -> BOOLEAN] :
                 /\ Options(closes, v) /\ closes[0] = f.is
                 /\ (close \/ First(t) = "close") \/ closes[j]
                       <=> AnyOf(g, m, "Connection") \/ f.is
  <2>1. PICK closes \in [0 .. Len(v) -> BOOLEAN] :
            /\ Options(closes, v) /\ closes[0] = f.is
            /\ close \/ closes[k] <=> AnyOf(g, m, "Connection") \/ f.is
    BY <1>1, <1>4
  <2>2. DOMAIN closes = 0 .. Len(v)
    BY <2>1
  <2>3. closes[k] <=> First(t) = "close" \/ closes[j]
    BY <1>1, <2>1, <2>2, Zenon DEF Options
  <2>. HIDE DEF j, t
  <2>4. (close \/ First(t) = "close") \/ closes[j] <=> AnyOf(g, m, "Connection") \/ f.is
    BY <2>1, <2>3, Zenon
  <2>. QED  BY <2>1, <2>4, Zenon
<1>. HIDE DEF j
<1>5. ReadingOptions(g, m, f, Rest(t, ScanToken(t)), close \/ First(t) = "close")
  BY <1>3, <1>4, Zenon DEF ReadingOptions
<1>. QED  BY <1>5

LEMMA OptionsEnd ==
    ASSUME NEW g, NEW m, NEW f \in FieldLines, NEW left, NEW close,
           ReadingOptions(g, m, f, left, close), ~HasOption(left), AllPlain(g)
    PROVE  close \/ First(left) = "close" <=> AnyOf(g, m, "Connection") \/ f.is
<1>. DEFINE v == f.value
<1>1. PICK k \in 0 .. Len(v), closes \in [0 .. Len(v) -> BOOLEAN] :
          /\ left = Rest(v, k) /\ Options(closes, v) /\ closes[0] = f.is
          /\ close \/ closes[k] <=> AnyOf(g, m, "Connection") \/ f.is
  BY Zenon DEF ReadingOptions
<1>2. k \in DOMAIN closes
  OBVIOUS
<1>3. closes[k] <=> First(left) = "close"
  BY <1>1, <1>2, Zenon DEF Options
<1>. QED  BY <1>1, <1>3, Zenon
\* A line end is recognised by its two lexemes.
LEMMA LineEnd ==
    ASSUME NEW a \in Texts, Len(a) >= 2, a[1] = "cr", a[2] = "nl"
    PROVE  IsPrefix(Crlf, a)
<1>1. Len(a) \in Nat /\ Crlf \in Texts /\ Len(Crlf) = 2 /\ Crlf[1] = "cr" /\ Crlf[2] = "nl"
  BY Joins, Regroups
<1>2. 2 \in 0 .. Len(a) /\ 2 \in 0 .. Len(Crlf)
  BY <1>1
<1>3. /\ Take(a, 2) \in Texts /\ Len(Take(a, 2)) = 2 /\ \A i \in 1 .. 2 : Take(a, 2)[i] = a[i]
  BY <1>2, TakeOf
<1>4. /\ Take(Crlf, 2) \in Texts /\ Len(Take(Crlf, 2)) = 2
      /\ \A i \in 1 .. 2 : Take(Crlf, 2)[i] = Crlf[i]
  BY <1>1, <1>2, TakeOf
<1>5. Take(a, 2) = Take(Crlf, 2)
  <2>1. Take(a, 2)[1] = Take(Crlf, 2)[1] /\ Take(a, 2)[2] = Take(Crlf, 2)[2]
    BY <1>1, <1>3, <1>4
  <2>. DEFINE x == Take(a, 2)
              y == Take(Crlf, 2)
  <2>2. x \in Texts /\ y \in Texts /\ Len(x) = 2 /\ Len(y) = 2 /\ x[1] = y[1] /\ x[2] = y[2]
    BY <1>3, <1>4, <2>1
  <2>. HIDE DEF x, y
  <2>3. \A i \in 1 .. 2 : i = 1 \/ i = 2
    OBVIOUS
  <2>4. \A i \in 1 .. Len(x) : x[i] = y[i]
    BY <2>2, <2>3
  <2>5. x = y
    BY <2>2, <2>4, SameText
  <2>. QED  BY <2>5 DEF x, y
<1>6. SubSeq(Crlf, 1, Len(Crlf)) = SubSeq(a, 1, Len(Crlf))
  BY <1>1, <1>5 DEF Take
<1>. QED  BY <1>1, <1>6 DEF IsPrefix

\* ParseFieldLine() takes the whole line but its end, whatever is behind it, and finds
\* the name and the value in it (HttpHead: ParseFieldLine).
LEMMA LineTaken ==
    ASSUME NEW f \in FieldLines, NEW t \in Texts
    PROVE  LET s == LineOf(f) \o t
               n == Len(f.value)
           IN  /\ s \in Texts /\ n \in Nat
               /\ ParseFieldLine(s) = [taken |-> n + 3, name |-> f.name, value |-> f.value]
               /\ IsPrefix(Crlf, Rest(s, n + 3))
               /\ Rest(s, n + 5) = t
<1>. DEFINE s == LineOf(f) \o t
            u == f.value
            n == Len(u)
            v == Rest(s, 2)
            r == Rest(v, 1)
            q == Rest(v, n + 1)
            x == Max({0} \cup {i \in 1 + 1 .. n + 1 : v[i] \notin Whitespace})
<1>1. /\ LineOf(f) \in Texts /\ Len(LineOf(f)) = n + 5
      /\ s \in Texts /\ Len(s) = n + 5 + Len(t) /\ Len(t) \in Nat
      /\ s[1] = f.name /\ s[2] = ":" /\ s[3] = " "
      /\ \A i \in 1 .. n : s[i + 3] = u[i]
      /\ s[n + 4] = "cr" /\ s[n + 5] = "nl"
  BY LineFacts
<1>2. /\ f.name \in TokenText /\ u \in Texts /\ n \in Nat
      /\ \A i \in 1 .. n : u[i] \in Visible
      /\ u # <<>> => n > 0 /\ u[1] \notin Whitespace /\ u[n] \notin Whitespace
  BY FieldFacts
<1>3. u = <<>> <=> n = 0
  BY <1>2 DEF Texts
<1>4. Rest(s, n + 5) = t
  <2>1. Rest(s, Len(LineOf(f))) = t
    BY <1>1, RestOfJoined
  <2>. QED  BY <1>1, <2>1
<1>. HIDE DEF s, n, u
<1>n. n \in Nat /\ Len(t) \in Nat /\ Len(s) = n + 5 + Len(t)
  BY <1>1, <1>2
<1>s. s[1] = f.name /\ s[2] = ":"
  BY <1>1
<1>5. Run(s, TokenText) = 1
  <2>1. 1 \in 0 .. Len(s) /\ \A i \in 1 .. 1 : i = 1
    BY <1>n
  <2>2. s[1] \in TokenText /\ s[2] \notin TokenText
    BY <1>s, <1>2, Tokens
  <2>3. 2 = 1 + 1 /\ \A i \in 1 .. 1 : s[i] \in TokenText
    BY <2>1, <2>2
  <2>4. s \in Texts
    BY <1>1
  <2>. QED  BY <2>1, <2>2, <2>3, <2>4, RunUpTo
<1>6. ScanToken(s) = 1
  BY <1>5 DEF ScanToken, NonEmpty
<1>7. At(s, 1 + 1) = ":"
  <2>0. s \in Texts
    BY <1>1
  <2>1. 2 \in 1 .. Len(s)
    BY <1>n
  <2>2. 2 \in DOMAIN s
    BY <2>0, <2>1 DEF Texts
  <2>3. At(s, 2) = ":"
    BY <1>s, <2>2 DEF At
  <2>. QED  BY <2>3
<1>8. /\ v \in Texts /\ Len(v) = n + 3 + Len(t)
      /\ v[1] = " " /\ v[n + 2] = "cr"
      /\ \A i \in 1 .. n : v[i + 1] = u[i]
  <2>1. 2 \in 0 .. Len(s) /\ Len(s) - 2 = n + 3 + Len(t)
    BY <1>n
  <2>2. /\ v \in Texts /\ Len(v) = n + 3 + Len(t)
        /\ \A i \in 1 .. n + 3 + Len(t) : v[i] = s[2 + i]
    BY <1>1, <2>1, RestOf
  <2>. HIDE DEF v
  <2>3. v[1] = s[3] /\ v[n + 2] = s[n + 4]
    <3>1. 1 \in 1 .. n + 3 + Len(t) /\ n + 2 \in 1 .. n + 3 + Len(t) /\ 2 + (n + 2) = n + 4
      BY <1>n
    <3>. QED  BY <2>2, <3>1
  <2>4. ASSUME NEW i \in 1 .. n  PROVE v[i + 1] = u[i]
    <3>1. i + 1 \in 1 .. n + 3 + Len(t) /\ 2 + (i + 1) = i + 3
      BY <1>n
    <3>. QED  BY <1>1, <2>2, <3>1
  <2>. QED  BY <1>1, <2>2, <2>3, <2>4
<1>. HIDE DEF v
<1>v. Len(v) = n + 3 + Len(t)
  BY <1>8
<1>9. Run(v, Whitespace) = 1
  <2>1. 1 \in 0 .. Len(v) /\ 2 = 1 + 1 /\ \A i \in 1 .. 1 : i = 1
    BY <1>n, <1>v
  <2>2. \A i \in 1 .. 1 : v[i] \in Whitespace
    BY <1>8, <2>1, Tokens
  <2>3. v[2] \notin Whitespace
    <3>1. CASE n = 0
      <4>1. n + 2 = 2
        BY <3>1
      <4>2. v[n + 2] = "cr"
        BY <1>8
      <4>. QED  BY <4>1, <4>2, Tokens
    <3>2. CASE n > 0
      <4>1. 1 \in 1 .. n /\ u # <<>>
        BY <1>2, <1>3, <3>2
      <4>2. \A i \in 1 .. n : v[i + 1] = u[i]
        BY <1>8
      <4>3. 1 + 1 = 2
        OBVIOUS
      <4>4. v[1 + 1] = u[1]
        BY <4>1, <4>2
      <4>. QED  BY <1>2, <4>1, <4>3, <4>4
    <3>. QED  BY <1>2, <3>1, <3>2
  <2>4. v \in Texts
    BY <1>8
  <2>. QED  BY <2>1, <2>2, <2>3, <2>4, RunUpTo
<1>10. /\ r \in Texts /\ Len(r) = n + 2 + Len(t) /\ \A i \in 1 .. n : r[i] = u[i]
       /\ r[n + 1] = "cr"
  <2>1. 1 \in 0 .. Len(v) /\ Len(v) - 1 = n + 2 + Len(t)
    BY <1>n, <1>v
  <2>2. /\ r \in Texts /\ Len(r) = n + 2 + Len(t)
        /\ \A i \in 1 .. n + 2 + Len(t) : r[i] = v[1 + i]
    BY <1>8, <2>1, RestOf
  <2>. HIDE DEF r
  <2>3. ASSUME NEW i \in 1 .. n  PROVE r[i] = u[i]
    <3>1. i \in 1 .. n + 2 + Len(t) /\ 1 + i = i + 1
      BY <1>n
    <3>. QED  BY <1>8, <2>2, <3>1
  <2>4. n + 1 \in 1 .. n + 2 + Len(t) /\ 1 + (n + 1) = n + 2
    BY <1>n
  <2>. QED  BY <1>8, <2>2, <2>3, <2>4
<1>. HIDE DEF r
<1>r. Len(r) = n + 2 + Len(t)
  BY <1>10
<1>11. Run(r, Visible) = n
  <2>1. n \in 0 .. Len(r)
    BY <1>n, <1>r
  <2>2. (\A i \in 1 .. n : r[i] \in Visible) /\ r[n + 1] \notin Visible
    BY <1>2, <1>10, Tokens
  <2>3. r \in Texts
    BY <1>10
  <2>. QED  BY <2>1, <2>2, <2>3, RunIs
<1>12. ScanFieldValue(v) = n + 1
  <2>1. ScanFieldValue(v) = 1 + n
    BY <1>9, <1>11 DEF ScanFieldValue, r
  <2>. QED  BY <1>2, <2>1
<1>13. x = IF n = 0 THEN 0 ELSE n + 1
  <2>. DEFINE X == {0} \cup {i \in 1 + 1 .. n + 1 : v[i] \notin Whitespace}
              m == IF n = 0 THEN 0 ELSE n + 1
  <2>1. X \subseteq Int /\ \A i \in X : i <= m
    BY <1>2
  <2>2. m \in X
    <3>1. CASE n = 0
      BY <3>1
    <3>2. CASE n > 0
      <4>1. n \in 1 .. n /\ u # <<>> /\ n + 1 \in 1 + 1 .. n + 1
        BY <1>2, <1>3, <3>2
      <4>2. v[n + 1] \notin Whitespace
        BY <1>2, <1>8, <4>1
      <4>. QED  BY <3>2, <4>1, <4>2
    <3>. QED  BY <1>2, <3>1, <3>2
  <2>. HIDE DEF X, m
  <2>3. Max(X) = m
    BY <2>1, <2>2, MaxIs
  <2>. QED  BY <2>3 DEF X, m
<1>. HIDE DEF x
<1>14. SubSeq(v, 2, x) = u
  <2>1. CASE n = 0
    <3>1. SubSeq(v, 2, 0) = <<>>
      BY SubSeqEmpty
    <3>. QED  BY <1>3, <1>13, <2>1, <3>1
  <2>2. CASE n > 0
    <3>. DEFINE m == n + 1
                y == SubSeq(v, 2, m)
    <3>1. \A i \in 2 .. n + 1 : v[i] \in Lexemes
      <4>1. \A i \in 2 .. n + 1 : i \in 1 .. Len(v)
        BY <1>n, <1>v
      <4>. QED  BY <1>8, <4>1, ElementOfSeq DEF Texts
    <3>2. 2 \in Int /\ m \in Int /\ (\A i \in 2 .. m : v[i] \in Lexemes)
      BY <1>n, <3>1
    <3>m. m = n + 1
      OBVIOUS
    <3>. HIDE DEF m
    <3>3. /\ y \in Seq(Lexemes) /\ Len(y) = IF 2 <= m THEN m - 2 + 1 ELSE 0
          /\ \A i \in 1 .. m - 2 + 1 : y[i] = v[2 + i - 1]
      BY <3>2, SubSeqProperties
    <3>. HIDE DEF y
    <3>4. y \in Texts /\ Len(y) = n
      BY <1>n, <2>2, <3>3, <3>m DEF Texts
    <3>5. ASSUME NEW i \in 1 .. n  PROVE y[i] = u[i]
      <4>1. i \in 1 .. m - 2 + 1 /\ 2 + i - 1 = i + 1
        BY <1>n, <3>m
      <4>. QED  BY <1>8, <3>3, <4>1
    <3>6. n = Len(u)
      BY DEF n
    <3>7. y = u
      BY <1>2, <3>4, <3>5, <3>6, SameText
    <3>8. x = m
      BY <1>13, <1>n, <2>2, <3>m
    <3>. QED  BY <3>7, <3>8 DEF y
  <2>. QED  BY <1>2, <2>1, <2>2
<1>15. Run(q, Whitespace) = 0
  <2>1. n + 1 \in 0 .. Len(v) /\ Len(v) - (n + 1) = 2 + Len(t)
    BY <1>n, <1>v
  <2>2. q \in Texts /\ Len(q) = 2 + Len(t) /\ \A i \in 1 .. 2 + Len(t) : q[i] = v[n + 1 + i]
    BY <1>8, <2>1, RestOf
  <2>. HIDE DEF q
  <2>3. q[1] = v[n + 1 + 1]
    <3>1. 1 \in 1 .. 2 + Len(t)
      BY <1>n
    <3>. QED  BY <2>2, <3>1
  <2>4. n + 1 + 1 = n + 2
    BY <1>n
  <2>5. q[1] \notin Whitespace
    <3>1. v[n + 2] = "cr"
      BY <1>8
    <3>. QED  BY <2>3, <2>4, <3>1, Tokens
  <2>q. q \in Texts /\ Len(q) = 2 + Len(t)
    BY <2>2
  <2>6. 0 \in 0 .. Len(q) /\ 1 = 0 + 1 /\ \A i \in 1 .. 0 : q[i] \in Whitespace
    BY <1>n, <2>q
  <2>. QED  BY <2>q, <2>5, <2>6, RunUpTo
<1>16. ParseFieldLine(s) = [taken |-> n + 3, name |-> f.name, value |-> u]
  <2>1. ParseFieldLine(s) = [taken |-> 1 + 1 + (n + 1) + Run(Rest(v, n + 1), Whitespace),
                             name |-> s[1], value |-> SubSeq(v, 2, x)]
    <3>. DEFINE m == ScanFieldValue(v)
                w == Run(v, Whitespace)
                l == [taken |-> 1 + 1 + m + Run(Rest(v, m), Whitespace), name |-> s[1],
                      value |-> SubSeq(v, w + 1,
                                       Max({0} \cup {i \in w + 1 .. m : v[i] \notin Whitespace}))]
    <3>1. 1 # -1 /\ 1 + 1 = 2
      OBVIOUS
    <3>2. ParseFieldLine(s) = l
      BY <1>6, <1>7, <3>1, Zenon DEF ParseFieldLine, Refused, v
    <3>3. m = n + 1 /\ w = 1
      BY <1>9, <1>12
    <3>. HIDE DEF m, w
    <3>. QED  BY <3>1, <3>2, <3>3, Zenon DEF x
  <2>2. 1 + 1 + (n + 1) + Run(Rest(v, n + 1), Whitespace) = n + 3
    BY <1>2, <1>15 DEF q
  <2>. QED  BY <1>1, <1>14, <2>1, <2>2
<1>17. IsPrefix(Crlf, Rest(s, n + 3))
  <2>. DEFINE y == Rest(s, n + 3)
  <2>1. n + 3 \in 0 .. Len(s) /\ Len(s) - (n + 3) = 2 + Len(t)
    BY <1>n
  <2>2. y \in Texts /\ Len(y) = 2 + Len(t) /\ \A i \in 1 .. 2 + Len(t) : y[i] = s[n + 3 + i]
    BY <1>1, <2>1, RestOf
  <2>. HIDE DEF y
  <2>3. y[1] = "cr" /\ y[2] = "nl"
    <3>1. /\ 1 \in 1 .. 2 + Len(t) /\ n + 3 + 1 = n + 4
          /\ 2 \in 1 .. 2 + Len(t) /\ n + 3 + 2 = n + 5
      BY <1>n
    <3>. QED  BY <1>1, <2>2, <3>1
  <2>4. Len(y) >= 2
    <3>1. Len(y) = 2 + Len(t)
      BY <2>2
    <3>. QED  BY <1>n, <3>1
  <2>5. IsPrefix(Crlf, y)
    BY <2>2, <2>3, <2>4, LineEnd
  <2>. QED  BY <2>5 DEF y
<1>. QED  BY <1>1, <1>2, <1>4, <1>16, <1>17 DEF s, n, u

-------------------------------------------------------------------------------
(* A head without a slip                                                       *)

\* What the client means and what it has sent of it, up to what is behind the fields.
Given     == gave \in Seq(FieldLines) /\ asked \in RequestLines
Sent(end) ==
    /\ Given
    /\ \E tail : IsTails(gave, tail, end) /\ sent = (asked.text \o Crlf) \o tail[1]
Fresh ==
    /\ fields = <<>> /\ req = NoRequest /\ written = 0
    /\ parsing = "request" /\ lines = 0 /\ analysed = 0

Writing ==
    /\ Fresh
    /\ sent = <<>> => gave = <<>>
    /\ sent # <<>> => Sent(<<>>)
Sending == Fresh /\ Sent(Crlf)

\* The request line has been read, and so many fields are those that were written.
RequestParts == {"host", "path", "query", "found", "header", "close", "chunked", "type"}
IsRequest(r) == DOMAIN r = RequestParts /\ r.close \in BOOLEAN /\ r.chunked \in BOOLEAN
LineRead ==
    asked.plain =>
       IF asked.reasons # {} THEN error \in asked.reasons
       ELSE /\ error = 0 /\ req.host = asked.host
            /\ req.path = asked.path /\ req.query = asked.query
Matched ==
    /\ Len(fields) \in 0 .. Len(gave) /\ lines = Len(fields)
    /\ \A i \in 1 .. Len(fields) :
          fields[i] = [name |-> gave[i].name, value |-> gave[i].value]
LineKnown == Given /\ LineRead /\ Matched /\ IsRequest(req)

\* The first m fields have been analysed; and that behind them is being so.
Analysed(m) ==
    Finished(gave, m, req) /\ CloseIs(gave, m, req) /\ LengthIs(gave, m, req, written)
Current(m, f) ==
    /\ Finished(gave, m, req)
    /\ f.name # "Connection" => CloseIs(gave, m, req)
    /\ ~(f.name = "Content-Length" /\ f.name \notin req.found) =>
          LengthIs(gave, m, req, written)
    /\ f.name \notin {"Connection", "Content-Length"} => input = f.value
    /\ f.name = "Connection" => ReadingOptions(gave, m, f, input, req.close)
    /\ f.name = "Content-Length" /\ f.name \notin req.found =>
          ReadingDigits(gave, f, input, written)

ReadingLines ==
    /\ LineKnown /\ analysed = 0 /\ Analysed(0)
    /\ parsing = "line" => Len(fields) < Len(gave)
    /\ \E tail : IsTails(gave, tail, Crlf) /\ buf = tail[Len(fields) + 1]

ReadingFields ==
    /\ LineKnown /\ Len(fields) = Len(gave) /\ analysed \in 0 .. Len(gave)
    /\ parsing = "done" => gave = <<>>
    /\ parsing # "field" => Analysed(analysed)
    /\ parsing = "field" => analysed > 0 /\ Current(analysed - 1, gave[analysed])

\* Along with what is stated of a head that has been read, this is inductive.
HeadInv ==
    ~slipped =>
       /\ phase = "write" => Writing
       /\ phase = "sent" => Sending
       /\ phase = "fields" => ReadingLines
       /\ phase = "headers" => ReadingFields

-------------------------------------------------------------------------------
(* Writing it                                                                  *)

LEMMA InitHead == Init => HeadInv
BY DEF Init, InitArena, InitSize, HeadInv, Writing, Fresh

LEMMA RequestText ==
    ASSUME NEW l \in RequestLines
    PROVE  /\ l.text \in Seq(Visible \cup Whitespace) /\ l.text # <<>>
           /\ l.text \in Texts /\ l.text \o Crlf \in Texts
<1>1. l.text \in Seq(Visible \cup Whitespace) /\ l.text # <<>>
  BY LinesAssumption
<1>2. <<>> \in Texts
  BY Regroups
<1>3. l.text \in Texts /\ l.text \o Crlf \in Texts
  <2>. DEFINE a == l.text
  <2>1. a \in Seq(Visible \cup Whitespace) /\ a # <<>>
    BY <1>1
  <2>. HIDE DEF a
  <2>2. a \in Texts /\ a \o Crlf \in Texts
    BY <1>2, <2>1, FirstLine
  <2>. QED  BY <2>2 DEF a
<1>. QED  BY <1>1, <1>3

LEMMA WriteRequestLineHead ==
    ASSUME HeadInv, WriteRequestLine
    PROVE  HeadInv'
<1>. SUFFICES ASSUME ~slipped  PROVE Writing'
  BY DEF WriteRequestLine, HeadInv
<1>1. Fresh /\ gave = <<>>
  BY DEF WriteRequestLine, HeadInv, Writing
<1>2. Fresh' /\ gave' = <<>>
  BY <1>1 DEF WriteRequestLine, Fresh, server, arena, sizes
<1>3. PICK l \in RequestLines : sent' = l.text \o Crlf /\ asked' = l
  BY DEF WriteRequestLine
<1>. DEFINE tail == [i \in 1 .. 1 |-> <<>>]
<1>4. IsTails(gave', tail, <<>>) /\ tail[1] = <<>>
  BY <1>2, NoTails
<1>5. sent' = (asked'.text \o Crlf) \o tail[1]
  <2>. DEFINE a == l.text \o Crlf
  <2>1. a \in Texts
    BY RequestText
  <2>. HIDE DEF a
  <2>2. a \o <<>> = a
    BY <2>1, Regroups
  <2>. QED  BY <1>3, <1>4, <2>2 DEF a
<1>6. gave' \in Seq(FieldLines) /\ asked' \in RequestLines
  BY <1>2, <1>3
<1>. HIDE DEF tail
<1>7. Sent(<<>>)'
  BY <1>4, <1>5, <1>6, Zenon DEF Sent, Given
<1>. QED  BY <1>2, <1>7 DEF Writing

LEMMA WriteFieldHead ==
    ASSUME HeadInv, WriteField
    PROVE  HeadInv'
<1>. SUFFICES ASSUME ~slipped  PROVE Writing'
  BY DEF WriteField, HeadInv
<1>1. Fresh /\ Sent(<<>>)
  BY DEF WriteField, HeadInv, Writing
<1>2. Fresh'
  BY <1>1 DEF WriteField, Fresh, server, arena, sizes
<1>3. PICK f \in FieldLines :
          /\ sent' = sent \o <<f.name, ":", " ">> \o f.value \o Crlf
          /\ gave' = Append(gave, f)
  BY DEF WriteField
<1>4. PICK tail : IsTails(gave, tail, <<>>) /\ sent = (asked.text \o Crlf) \o tail[1]
  BY <1>1 DEF Sent
<1>5. gave \in Seq(FieldLines) /\ asked \in RequestLines /\ asked' = asked
  BY <1>1 DEF Sent, Given, WriteField
<1>6. gave' = Append(gave, f) /\ gave' \in Seq(FieldLines)
  <2>1. gave' = Append(gave, f) /\ gave \in Seq(FieldLines)
    BY <1>3, <1>5
  <2>2. Append(gave, f) \in Seq(FieldLines)
    BY <2>1, AppendProperties
  <2>. QED  BY <2>1, <2>2
<1>. DEFINE h == <<f.name, ":", " ">>
            v == f.value
            l == LineOf(f)
            a == asked.text \o Crlf
            longer == [i \in 1 .. Len(gave) + 1 |-> tail[i] \o l]
<1>7. l \in Texts /\ a \in Texts /\ v \in Texts /\ h \in Texts
  <2>1. f.name \in Lexemes /\ ":" \in Lexemes /\ " " \in Lexemes
    BY FieldFacts, Tokens
  <2>2. h \in Texts
    BY <2>1, Three DEF Texts
  <2>. QED  BY <1>5, <2>2, LineText, FieldFacts, RequestText
<1>8. tail[1] \in Texts
  <2>1. Len(gave) \in Nat
    BY <1>5
  <2>2. 1 \in 1 .. Len(gave) + 1
    BY <2>1
  <2>. QED  BY <1>4, <2>2 DEF IsTails
<1>9. sent' = sent \o l
  <2>1. sent \in Texts
    <3>. HIDE DEF a
    <3>1. sent = a \o tail[1]
      BY <1>4 DEF a
    <3>. QED  BY <1>7, <1>8, <3>1, Regroup
  <2>2. l = (h \o v) \o Crlf /\ sent' = ((sent \o h) \o v) \o Crlf
    BY <1>3 DEF LineOf
  <2>3. Crlf \in Texts
    BY Regroups
  <2>. HIDE DEF h, v, l
  <2>4. (sent \o h) \o v = sent \o (h \o v) /\ h \o v \in Texts
    BY <1>7, <2>1, Regroup
  <2>. DEFINE hv == h \o v
  <2>5. (sent \o hv) \o Crlf = sent \o (hv \o Crlf)
    <3>1. hv \in Texts
      BY <2>4
    <3>. HIDE DEF hv
    <3>. QED  BY <2>1, <2>3, <3>1, Regroup
  <2>. QED  BY <2>2, <2>4, <2>5
<1>. HIDE DEF a, l, h, v
<1>10. IsTails(gave, longer, <<>> \o l) /\ longer[1] = tail[1] \o l
  <2>1. IsTails(gave, longer, <<>> \o l)
    BY <1>4, <1>5, <1>7, TailsLonger
  <2>2. Len(gave) \in Nat
    BY <1>5
  <2>3. 1 \in 1 .. Len(gave) + 1
    BY <2>2
  <2>. QED  BY <2>1, <2>3
<1>11. <<>> \o l = l
  BY <1>7, Regroups
<1>. HIDE DEF longer
<1>12. PICK more : IsTails(gave', more, <<>>) /\ more[1] = longer[1]
  <2>1. IsTails(gave, longer, LineOf(f))
    BY <1>10, <1>11 DEF l
  <2>2. gave \in Seq(FieldLines)
    BY <1>5
  <2>3. \E more : IsTails(Append(gave, f), more, <<>>) /\ more[1] = longer[1]
    BY <2>1, <2>2, TailsOfOneMore
  <2>. QED  BY <1>6, <2>3, Zenon
<1>13. sent' = a \o more[1]
  <2>1. sent' = (a \o tail[1]) \o l
    BY <1>4, <1>9 DEF a
  <2>. DEFINE t == tail[1]
  <2>2. (a \o t) \o l = a \o (t \o l)
    <3>1. t \in Texts
      BY <1>8
    <3>2. a \in Texts
      BY <1>7
    <3>3. l \in Texts
      BY <1>7
    <3>. HIDE DEF t
    <3>4. ASSUME NEW x \in Texts, NEW y \in Texts, NEW z \in Texts
          PROVE  (x \o y) \o z = x \o (y \o z)
      BY Regroup
    <3>. QED  BY <3>1, <3>2, <3>3, <3>4
  <2>. QED  BY <1>10, <1>12, <2>1, <2>2
<1>14. Sent(<<>>)'
  <2>1. sent' = (asked'.text \o Crlf) \o more[1]
    BY <1>5, <1>13 DEF a
  <2>2. asked' \in RequestLines
    BY <1>5
  <2>. QED  BY <1>6, <1>12, <2>1, <2>2, Zenon DEF Sent, Given
<1>15. sent' # <<>>
  <2>1. l # <<>>
    <3>1. PICK u \in Texts : l = u \o Crlf
      BY LineText DEF l
    <3>2. Len(l) = Len(u) + 2 /\ Len(u) \in Nat
      <4>1. Crlf \in Texts /\ Len(Crlf) = 2
        BY Regroups
      <4>2. Len(u \o Crlf) = Len(u) + Len(Crlf) /\ Len(u) \in Nat
        BY <4>1, Joins
      <4>. QED  BY <3>1, <4>1, <4>2
    <3>. QED  BY <3>2
  <2>2. sent \in Texts
    <3>1. sent = a \o tail[1]
      BY <1>4 DEF a
    <3>. QED  BY <1>7, <1>8, <3>1, Regroup
  <2>3. sent' \in Texts /\ Len(sent') = Len(sent) + Len(l)
    BY <1>7, <1>9, <2>2, Joins
  <2>4. Len(sent) \in Nat /\ Len(l) \in Nat /\ Len(l) # 0
    BY <1>7, <2>1, <2>2, EmptySeq DEF Texts
  <2>5. Len(sent') # 0
    BY <2>3, <2>4
  <2>. QED  BY <2>5
<1>. QED  BY <1>2, <1>14, <1>15 DEF Writing

LEMMA EndHeadHead ==
    ASSUME HeadInv, EndHead
    PROVE  HeadInv'
<1>. SUFFICES ASSUME ~slipped  PROVE Sending'
  BY DEF EndHead, HeadInv
<1>1. Fresh /\ Sent(<<>>)
  BY DEF EndHead, HeadInv, Writing
<1>2. Fresh'
  BY <1>1 DEF EndHead, Fresh, server, arena, sizes
<1>3. PICK tail : IsTails(gave, tail, <<>>) /\ sent = (asked.text \o Crlf) \o tail[1]
  BY <1>1 DEF Sent
<1>4. /\ gave \in Seq(FieldLines) /\ asked \in RequestLines
      /\ asked' = asked /\ gave' = gave /\ sent' = sent \o Crlf
  BY <1>1 DEF Sent, Given, EndHead
<1>. DEFINE a == asked.text \o Crlf
            longer == [i \in 1 .. Len(gave) + 1 |-> tail[i] \o Crlf]
<1>5. Crlf \in Texts /\ a \in Texts /\ <<>> \o Crlf = Crlf
  BY <1>4, Regroups, RequestText
<1>6. 1 \in 1 .. Len(gave) + 1
  <2>1. Len(gave) \in Nat
    BY <1>4
  <2>. QED  BY <2>1
<1>7. tail[1] \in Texts
  BY <1>3, <1>6 DEF IsTails
<1>8. IsTails(gave, longer, <<>> \o Crlf) /\ longer[1] = tail[1] \o Crlf
  BY <1>3, <1>4, <1>5, <1>6, TailsLonger
<1>. HIDE DEF a, longer
<1>9. sent' = a \o longer[1]
  <2>1. sent' = (a \o tail[1]) \o Crlf
    BY <1>3, <1>4 DEF a
  <2>2. (a \o tail[1]) \o Crlf = a \o (tail[1] \o Crlf)
    BY <1>5, <1>7, Regroup
  <2>. QED  BY <1>8, <2>1, <2>2
<1>10. Sent(Crlf)'
  <2>1. IsTails(gave', longer, Crlf)
    BY <1>4, <1>5, <1>8
  <2>2. sent' = (asked'.text \o Crlf) \o longer[1]
    BY <1>4, <1>9 DEF a
  <2>3. gave' \in Seq(FieldLines) /\ asked' \in RequestLines
    BY <1>4
  <2>. QED  BY <2>1, <2>2, <2>3, Zenon DEF Sent, Given
<1>. QED  BY <1>2, <1>10 DEF Sending

-------------------------------------------------------------------------------
(* Reading its lines                                                           *)

LEMMA NothingRead ==
    /\ IsRequest(NoRequest)
    /\ NoRequest.found = {} /\ NoRequest.header = <<>> /\ NoRequest.type = <<>>
    /\ ~NoRequest.chunked /\ ~NoRequest.close
BY DEF IsRequest, NoRequest, RequestParts

\* What a field changes of a request, and what it leaves alone.
OfTheLine(s, r) == s.host = r.host /\ s.path = r.path /\ s.query = r.query

LEMMA ReadRequestLineHead ==
    ASSUME HeadInv, ReadRequestLine
    PROVE  HeadInv'
<1>. SUFFICES ASSUME ~slipped
              PROVE  /\ phase' = "fields" => ReadingLines'
                     /\ phase' = "headers" => ReadingFields'
                     /\ phase' \notin {"write", "sent"}
  BY DEF ReadRequestLine, HeadInv, message
<1>1. Fresh /\ Sent(Crlf)
  BY DEF ReadRequestLine, HeadInv, Sending
<1>2. PICK tail : IsTails(gave, tail, Crlf) /\ sent = (asked.text \o Crlf) \o tail[1]
  BY <1>1 DEF Sent
<1>3. /\ gave \in Seq(FieldLines) /\ asked \in RequestLines
      /\ asked' = asked /\ gave' = gave /\ slipped' = slipped
      /\ fields' = fields /\ sizes' = sizes
  BY <1>1 DEF Sent, Given, ReadRequestLine, message
<1>. DEFINE t == tail[1]
            a == asked.text
            n == Min(Breaks(sent))
            p == ParseRequestLine(a \o Crlf)
            host == IF p.target.host.type = "future" THEN <<>> ELSE p.target.host.value
            e == LineError(a[1], p.target, p.version)
<1>4. t \in Texts /\ Len(gave) \in Nat
  <2>1. 1 \in 1 .. Len(gave) + 1 /\ Len(gave) \in Nat
    BY <1>3
  <2>. QED  BY <1>2, <2>1 DEF IsTails
<1>5. /\ Take(sent, n + 1) = a \o Crlf
      /\ Rest(sent, Len(a) + 2) = t /\ sent[1] = a[1]
  <2>1. a \in Seq(Visible \cup Whitespace) /\ a # <<>>
    BY <1>3, RequestText
  <2>2. sent = (a \o Crlf) \o t
    BY <1>2
  <2>. HIDE DEF a, t
  <2>. QED  BY <1>4, <2>1, <2>2, FirstLine
<1>6. /\ p.taken # Refused
      /\ buf' = Rest(sent, p.taken + 2)
      /\ error' = LineError(sent[1], p.target, p.version)
      /\ req' = [req EXCEPT !.host = host, !.path = p.target.path, !.query = p.target.query]
      /\ phase' = IF HasEnd(Rest(sent, p.taken + 2)) THEN "fields" ELSE "headers"
  <2>. HIDE DEF a, n, t
  <2>. QED  BY <1>5, Zenon DEF ReadRequestLine, n
<1>7. p.taken = Len(a)
  BY <1>3, <1>6, LinesAssumption
<1>8. /\ buf' = t /\ error' = e
      /\ phase' = IF HasEnd(t) THEN "fields" ELSE "headers"
  <2>. HIDE DEF a, n, t, p
  <2>. QED  BY <1>5, <1>6, <1>7
<1>9. /\ lines' = 0 /\ analysed' = 0 /\ parsing' = "done"
      /\ fields' = <<>> /\ written' = 0 /\ req = NoRequest
  BY <1>1, <1>3 DEF Fresh, ReadRequestLine, TakeRequestLine, sizes
<1>10. /\ IsRequest(req') /\ req'.host = host
       /\ req'.path = p.target.path /\ req'.query = p.target.query
       /\ req'.found = {} /\ req'.header = <<>> /\ req'.type = <<>>
       /\ ~req'.chunked /\ ~req'.close
  <2>. HIDE DEF p, host
  <2>1. /\ IsRequest(req') /\ req'.host = host
        /\ req'.path = p.target.path /\ req'.query = p.target.query
        /\ req'.found = NoRequest.found /\ req'.header = NoRequest.header
        /\ req'.type = NoRequest.type
        /\ req'.chunked = NoRequest.chunked /\ req'.close = NoRequest.close
    <3>. DEFINE s == req'
                y == p.target.path
                z == p.target.query
                r == NoRequest
    <3>1. s = [req EXCEPT !.host = host, !.path = y, !.query = z]
      BY <1>6
    <3>2. req = r /\ IsRequest(r)
      BY <1>9, NothingRead
    <3>. HIDE DEF s, y, z, r
    <3>3. s = [r EXCEPT !.host = host, !.path = y, !.query = z]
      BY <3>1, <3>2
    <3>4. /\ IsRequest(s) /\ s.host = host /\ s.path = y /\ s.query = z
          /\ s.found = r.found /\ s.header = r.header /\ s.type = r.type
          /\ s.chunked = r.chunked /\ s.close = r.close
      BY <3>2, <3>3 DEF IsRequest, RequestParts
    <3>. QED  BY <3>4 DEF s, y, z, r
  <2>. QED  BY <2>1, NothingRead, Zenon
<1>11. ASSUME asked.plain
       PROVE  IF asked.reasons # {} THEN e \in asked.reasons
              ELSE /\ e = 0 /\ req'.host = asked.host
                   /\ req'.path = asked.path /\ req'.query = asked.query
  <2>1. IF asked.reasons # {} THEN e \in asked.reasons
        ELSE /\ e = 0 /\ p.target.host.value = asked.host
             /\ p.target.path = asked.path /\ p.target.query = asked.query
    BY <1>3, <1>6, <1>11, LinesAssumption
  <2>2. e = 0 => p.target.host.type # "future"
    BY DEF LineError
  <2>. HIDE DEF e, p
  <2>. QED  BY <1>10, <2>1, <2>2
<1>12. LineRead'
  <2>. HIDE DEF e, p, host, a
  <2>. QED  BY <1>3, <1>8, <1>11 DEF LineRead
<1>13. Matched'
  <2>1. Len(fields') = 0 /\ \A i \in 1 .. 0 : FALSE
    BY <1>9
  <2>2. Len(gave') \in Nat /\ lines' = 0
    BY <1>3, <1>4, <1>9
  <2>. QED  BY <2>1, <2>2 DEF Matched
<1>14. LineKnown'
  BY <1>3, <1>10, <1>12, <1>13 DEF LineKnown, Given
<1>15. Analysed(0)'
  <2>. DEFINE r == req'
  <2>1. r.found = {} /\ r.header = <<>> /\ r.type = <<>> /\ ~r.chunked /\ ~r.close
    BY <1>10
  <2>. HIDE DEF r
  <2>2. Finished(gave', 0, r) /\ CloseIs(gave', 0, r) /\ LengthIs(gave', 0, r, 0)
    BY <2>1, NoFieldsYet
  <2>. QED  BY <1>9, <2>2 DEF Analysed, r
<1>16. ASSUME phase' = "fields"  PROVE ReadingLines'
  <2>1. parsing' # "line" /\ analysed' = 0
    BY <1>9
  <2>2. Len(fields') + 1 = 1
    BY <1>9
  <2>3. \E x : IsTails(gave', x, Crlf) /\ buf' = x[Len(fields') + 1]
    BY <1>2, <1>3, <1>8, <2>2
  <2>. QED  BY <1>14, <1>15, <2>1, <2>3 DEF ReadingLines
<1>17. ASSUME phase' = "headers"  PROVE ReadingFields'
  <2>1. ~HasEnd(t)
    <3>. HIDE DEF t
    <3>. QED  BY <1>8, <1>17
  <2>2. gave = <<>>
    <3>1. ASSUME gave # <<>>  PROVE FALSE
      <4>1. PICK u \in Texts : t = (u \o Crlf) \o Crlf
        BY <1>2, <3>1 DEF IsTails
      <4>. QED  BY <2>1, <4>1, EndOfTails
    <3>. QED  BY <3>1
  <2>3. gave' = <<>> /\ Len(gave') = 0 /\ Len(fields') = 0
    BY <1>3, <1>9, <2>2
  <2>4. analysed' = 0 /\ analysed' \in 0 .. Len(gave') /\ parsing' # "field"
    BY <1>9, <2>3
  <2>5. Analysed(analysed)'
    BY <1>15, <2>4 DEF Analysed
  <2>. QED  BY <1>14, <2>3, <2>4, <2>5 DEF ReadingFields
<1>18. phase' \notin {"write", "sent"}
  BY <1>8
<1>. QED  BY <1>16, <1>17, <1>18

LEMMA RefuseRequestLineHead ==
    ASSUME HeadInv, RefuseRequestLine
    PROVE  HeadInv'
BY DEF RefuseRequestLine, HeadInv

LEMMA ClearForFieldsHead ==
    ASSUME HeadInv, ClearForFields
    PROVE  HeadInv'
<1>. SUFFICES ASSUME ~slipped  PROVE ReadingLines'
  BY DEF ClearForFields, HeadInv, message
<1>1. ReadingLines
  BY DEF ClearForFields, HeadInv
<1>2. /\ gave' = gave /\ asked' = asked /\ fields' = fields /\ req' = req /\ error' = error
      /\ buf' = buf /\ written' = written
      /\ lines' = lines /\ analysed' = analysed /\ parsing' = "fields"
  BY DEF ClearForFields, BeginFields, message, server, sizes
<1>3. LineKnown' /\ Analysed(0)'
  BY <1>1, <1>2 DEF ReadingLines, LineKnown, Given, LineRead, Matched, Analysed
<1>. QED  BY <1>1, <1>2, <1>3 DEF ReadingLines

\* The next line that is read, or the end.
LEMMA NextLine ==
    ASSUME ReadingLines
    PROVE  /\ Len(fields) = Len(gave) => buf = Crlf
           /\ Len(fields) < Len(gave) =>
                 \E tail, t, f :
                    /\ IsTails(gave, tail, Crlf) /\ t = tail[Len(fields) + 2] /\ t \in Texts
                    /\ f = gave[Len(fields) + 1] /\ f \in FieldLines
                    /\ buf = LineOf(f) \o t
<1>1. PICK tail : IsTails(gave, tail, Crlf) /\ buf = tail[Len(fields) + 1]
  BY DEF ReadingLines
<1>2. gave \in Seq(FieldLines) /\ Len(gave) \in Nat /\ Len(fields) \in 0 .. Len(gave)
  BY DEF ReadingLines, LineKnown, Given, Matched
<1>3. ASSUME Len(fields) = Len(gave)  PROVE buf = Crlf
  BY <1>1, <1>3 DEF IsTails
<1>4. ASSUME Len(fields) < Len(gave)
      PROVE  \E t, f :
                    /\ t = tail[Len(fields) + 2] /\ t \in Texts
                    /\ f = gave[Len(fields) + 1] /\ f \in FieldLines
                    /\ buf = LineOf(f) \o t
  <2>. DEFINE j == Len(fields) + 1
              t == tail[j + 1]
              f == gave[j]
  <2>1. j \in 1 .. Len(gave) /\ j + 1 \in 1 .. Len(gave) + 1 /\ j + 1 = Len(fields) + 2
    BY <1>2, <1>4
  <2>. HIDE DEF j
  <2>2. f \in FieldLines /\ t \in Texts
    BY <1>1, <1>2, <2>1, ElementOfSeq DEF IsTails
  <2>3. tail[j] = LineOf(f) \o t
    BY <1>1, <2>1 DEF IsTails
  <2>4. buf = LineOf(f) \o t
    BY <1>1, <2>3 DEF j
  <2>5. t = tail[Len(fields) + 2] /\ f = gave[Len(fields) + 1]
    BY <2>1 DEF j
  <2>. HIDE DEF t, f
  <2>. QED  BY <2>2, <2>4, <2>5
<1>. QED  BY <1>1, <1>3, <1>4

LEMMA TakeLineHead ==
    ASSUME HeadInv, TakeLine
    PROVE  HeadInv'
<1>. SUFFICES ASSUME ~slipped  PROVE ReadingLines'
  BY DEF TakeLine, HeadInv, message
<1>1. ReadingLines
  BY DEF TakeLine, HeadInv
<1>2. /\ gave' = gave /\ asked' = asked /\ fields' = fields /\ req' = req /\ error' = error
      /\ buf' = buf /\ written' = written
      /\ lines' = lines /\ analysed' = analysed /\ ParseFieldLine(buf).taken # Refused
  BY DEF TakeLine, ParseLine, message, server, sizes
<1>3. LineKnown' /\ Analysed(0)'
  BY <1>1, <1>2 DEF ReadingLines, LineKnown, Given, LineRead, Matched, Analysed
<1>4. Len(fields) < Len(gave)
  <2>1. Len(fields) # Len(gave)
    BY <1>1, <1>2, NextLine, NoField
  <2>2. Len(fields) \in 0 .. Len(gave) /\ Len(gave) \in Nat
    BY <1>1 DEF ReadingLines, LineKnown, Given, Matched
  <2>. QED  BY <2>1, <2>2
<1>. QED  BY <1>1, <1>2, <1>3, <1>4 DEF ReadingLines

LEMMA KeepFieldHead ==
    ASSUME HeadInv, KeepField
    PROVE  HeadInv'
<1>. SUFFICES ASSUME ~slipped  PROVE ReadingLines'
  BY DEF KeepField, HeadInv, message
<1>1. ReadingLines /\ Len(fields) < Len(gave)
  BY DEF KeepField, HeadInv, ReadingLines
<1>2. /\ gave' = gave /\ asked' = asked /\ req' = req /\ error' = error
      /\ written' = written
      /\ lines' = lines + 1 /\ analysed' = analysed /\ parsing' = "fields"
  BY DEF KeepField, KeepLine, message, sizes
<1>. DEFINE l == ParseFieldLine(buf)
<1>3. /\ fields' = Append(fields, [name |-> l.name, value |-> l.value])
      /\ buf' = Rest(buf, l.taken + 2)
  BY DEF KeepField
<1>4. PICK tail, t, f :
          /\ IsTails(gave, tail, Crlf) /\ t = tail[Len(fields) + 2] /\ t \in Texts
          /\ f = gave[Len(fields) + 1] /\ f \in FieldLines
          /\ buf = LineOf(f) \o t
  BY <1>1, NextLine, Zenon
<1>. DEFINE n == Len(f.value)
            m == Len(fields)
            x == [name |-> f.name, value |-> f.value]
<1>5. l = [taken |-> n + 3, name |-> f.name, value |-> f.value] /\ Rest(buf, n + 5) = t
      /\ n \in Nat
  BY <1>4, LineTaken
<1>6. l.name = f.name /\ l.value = f.value /\ l.taken + 2 = n + 5
  <2>. HIDE DEF l, n
  <2>1. l.taken = n + 3 /\ l.name = f.name /\ l.value = f.value /\ n \in Nat
    BY <1>5
  <2>2. l.taken + 2 = n + 5
    BY <2>1
  <2>. QED  BY <2>1, <2>2
<1>. HIDE DEF l, n
<1>7. fields' = Append(fields, x) /\ buf' = t
  BY <1>3, <1>5, <1>6
<1>8. m \in Nat /\ m < Len(gave) /\ Len(gave) \in Nat /\ lines = m
      /\ \A i \in 1 .. m : fields[i] = [name |-> gave[i].name, value |-> gave[i].value]
  BY <1>1 DEF ReadingLines, LineKnown, Given, Matched
<1>9. Len(fields') = m + 1 /\ (\A i \in 1 .. m : fields'[i] = fields[i]) /\ fields'[m + 1] = x
  BY <1>7, <1>8
<1>. HIDE DEF m, x
<1>10. Matched'
  <2>1. \A i \in 1 .. m + 1 : i \in 1 .. m \/ i = m + 1
    BY <1>8
  <2>2. x = [name |-> gave[m + 1].name, value |-> gave[m + 1].value]
    BY <1>4 DEF m, x
  <2>3. \A i \in 1 .. m + 1 : fields'[i] = [name |-> gave[i].name, value |-> gave[i].value]
    BY <1>8, <1>9, <2>1, <2>2
  <2>4. m + 1 \in 0 .. Len(gave) /\ lines' = m + 1
    BY <1>2, <1>8
  <2>. QED  BY <1>2, <1>9, <2>3, <2>4 DEF Matched
<1>11. LineKnown' /\ Analysed(0)'
  BY <1>1, <1>2, <1>10 DEF ReadingLines, LineKnown, Given, LineRead, Analysed
<1>12. Len(fields') + 1 = Len(fields) + 2
  BY <1>8, <1>9 DEF m
<1>13. \E y : IsTails(gave', y, Crlf) /\ buf' = y[Len(fields') + 1]
  BY <1>2, <1>4, <1>7, <1>12
<1>14. analysed' = 0 /\ parsing' # "line"
  BY <1>1, <1>2 DEF ReadingLines
<1>. QED  BY <1>11, <1>13, <1>14 DEF ReadingLines

\* No line of it is given up.
LEMMA DropFieldHead ==
    ASSUME HeadInv, DropField
    PROVE  HeadInv'
<1>. SUFFICES ASSUME ~slipped  PROVE FALSE
  BY DEF DropField, HeadInv, message
<1>1. ReadingLines /\ Len(fields) < Len(gave)
  BY DEF DropField, HeadInv, ReadingLines
<1>2. PICK f \in FieldLines, t \in Texts : buf = LineOf(f) \o t
  BY <1>1, NextLine, Zenon
<1>3. IsPrefix(Crlf, Rest(buf, Len(f.value) + 3))
  BY <1>2, LineTaken
<1>4. ParseFieldLine(buf) = [taken |-> Len(f.value) + 3, name |-> f.name, value |-> f.value]
  BY <1>2, LineTaken
<1>5. ParseFieldLine(buf).taken = Len(f.value) + 3
  BY <1>4
<1>6. ~IsPrefix(Crlf, Rest(buf, ParseFieldLine(buf).taken))
  BY DEF DropField
<1>. QED  BY <1>3, <1>5, <1>6

LEMMA EndOfFieldsHead ==
    ASSUME HeadInv, EndOfFields
    PROVE  HeadInv'
<1>. SUFFICES ASSUME ~slipped  PROVE ReadingFields'
  BY DEF EndOfFields, HeadInv, message
<1>1. ReadingLines
  BY DEF EndOfFields, HeadInv
<1>2. /\ gave' = gave /\ asked' = asked /\ fields' = fields /\ req' = req /\ error' = error
      /\ written' = written
      /\ lines' = lines /\ analysed' = analysed /\ parsing' = "analysis"
      /\ ParseFieldLine(buf).taken = Refused
  BY DEF EndOfFields, NoLine, EndFields, message, sizes
<1>3. LineKnown' /\ Analysed(0)'
  BY <1>1, <1>2 DEF ReadingLines, LineKnown, Given, LineRead, Matched, Analysed
<1>4. Len(fields) \in 0 .. Len(gave) /\ Len(gave) \in Nat
  BY <1>1 DEF ReadingLines, LineKnown, Given, Matched
<1>5. Len(fields) = Len(gave)
  <2>1. ASSUME Len(fields) < Len(gave)  PROVE FALSE
    <3>1. PICK f \in FieldLines, t \in Texts : buf = LineOf(f) \o t
      BY <1>1, <2>1, NextLine, Zenon
    <3>. DEFINE n == Len(f.value)
    <3>2. /\ ParseFieldLine(buf) = [taken |-> n + 3, name |-> f.name, value |-> f.value]
          /\ n \in Nat
      BY <3>1, LineTaken
    <3>. HIDE DEF n
    <3>3. ParseFieldLine(buf).taken = n + 3
      BY <3>2
    <3>4. n + 3 # -1
      BY <3>2
    <3>. QED  BY <1>2, <3>3, <3>4 DEF Refused
  <2>. QED  BY <1>4, <2>1
<1>6. analysed' = 0 /\ analysed' \in 0 .. Len(gave')
  BY <1>1, <1>2, <1>4 DEF ReadingLines
<1>7. Analysed(analysed)'
  BY <1>3, <1>6 DEF Analysed
<1>. QED  BY <1>2, <1>3, <1>5, <1>6, <1>7 DEF ReadingFields

-------------------------------------------------------------------------------
(* Reading its fields                                                          *)

\* The field at hand, behind m others.
LEMMA AtHand ==
    ASSUME ReadingFields, parsing = "field"
    PROVE  \E m \in Nat, f \in FieldLines :
              /\ analysed = m + 1 /\ m + 1 \in DOMAIN gave /\ f = gave[m + 1]
              /\ This.name = f.name /\ This.value = f.value
              /\ AllPlain(gave) => f.plain
              /\ Current(m, f)
<1>. DEFINE m == analysed - 1
            f == gave[analysed]
<1>1. /\ gave \in Seq(FieldLines) /\ Len(gave) \in Nat /\ Len(fields) = Len(gave)
      /\ analysed \in 0 .. Len(gave) /\ analysed > 0 /\ Current(m, f)
  BY DEF ReadingFields, LineKnown, Given
<1>2. m \in Nat /\ analysed = m + 1 /\ analysed \in 1 .. Len(gave)
  BY <1>1
<1>3. analysed \in DOMAIN gave /\ f \in FieldLines
  BY <1>1, <1>2, ElementOfSeq
<1>4. fields[analysed] = [name |-> gave[analysed].name, value |-> gave[analysed].value]
  BY <1>1, <1>2 DEF ReadingFields, LineKnown, Matched
<1>5. This.name = f.name /\ This.value = f.value
  BY <1>4 DEF This
<1>6. AllPlain(gave) => f.plain
  BY <1>3 DEF AllPlain
<1>. HIDE DEF m, f
<1>7. m + 1 \in DOMAIN gave /\ f = gave[m + 1]
  BY <1>2, <1>3 DEF f
<1>. QED  BY <1>1, <1>2, <1>3, <1>5, <1>6, <1>7

LEMMA BeginAnalysisHead ==
    ASSUME HeadInv, BeginAnalysis
    PROVE  HeadInv'
<1>. SUFFICES ASSUME ~slipped  PROVE ReadingFields'
  BY DEF BeginAnalysis, HeadInv, message
<1>1. ReadingFields /\ Analysed(analysed)
  BY DEF BeginAnalysis, BeginField, HeadInv, ReadingFields
<1>2. /\ gave' = gave /\ asked' = asked /\ fields' = fields /\ req' = req /\ error' = error
      /\ lines' = lines /\ written' = written
      /\ parsing' = "field" /\ analysed' = analysed + 1 /\ analysed < lines
      /\ input' = fields[analysed'].value
  BY DEF BeginAnalysis, BeginField, message, sizes
<1>m. PICK m : m = analysed
  OBVIOUS
<1>f. PICK f : f = gave[m + 1]
  OBVIOUS
<1>3. /\ gave \in Seq(FieldLines) /\ Len(gave) \in Nat /\ Len(fields) = Len(gave)
      /\ m \in 0 .. Len(gave) /\ lines = Len(gave)
  BY <1>1, <1>m DEF ReadingFields, LineKnown, Given, Matched
<1>4. m \in Nat /\ analysed' = m + 1 /\ m + 1 \in 1 .. Len(gave) /\ m + 1 \in DOMAIN gave
  BY <1>2, <1>3, <1>m
<1>5. f \in FieldLines /\ (AllPlain(gave) => f.plain)
  BY <1>3, <1>4, <1>f, ElementOfSeq DEF AllPlain
<1>6. input' = f.value
  <2>1. fields[m + 1] = [name |-> f.name, value |-> f.value]
    BY <1>1, <1>3, <1>4, <1>f DEF ReadingFields, LineKnown, Matched
  <2>2. input' = fields[m + 1].value
    BY <1>2, <1>4
  <2>. QED  BY <2>1, <2>2
<1>7. /\ Finished(gave, m, req) /\ CloseIs(gave, m, req) /\ LengthIs(gave, m, req, written)
  BY <1>1, <1>m DEF Analysed
<1>8. ASSUME f.name = "Connection"  PROVE ReadingOptions(gave, m, f, f.value, req.close)
  <2>1. AllPlain(gave) => (req.close <=> AnyOf(gave, m, "Connection"))
    BY <1>7 DEF CloseIs
  <2>. DEFINE close == req.close
  <2>2. AllPlain(gave) => f.plain /\ (close <=> AnyOf(gave, m, "Connection"))
    BY <1>5, <2>1
  <2>. HIDE DEF close
  <2>3. ReadingOptions(gave, m, f, f.value, close)
    BY <1>5, <1>8, <2>2, OptionsBegin
  <2>. QED  BY <2>3 DEF close
<1>9. ASSUME f.name = "Content-Length", f.name \notin req.found
      PROVE  ReadingDigits(gave, f, f.value, written)
  <2>1. AllPlain(gave) => f.plain /\ written = 0
    BY <1>5, <1>7, <1>9 DEF LengthIs, KeptIs
  <2>. QED  BY <1>5, <1>9, <2>1, DigitsBegin
<1>10. Current(m, f)'
  <2>1. f.name # "Connection" => CloseIs(gave', m, req')
    BY <1>2, <1>7
  <2>2. Finished(gave', m, req') /\ LengthIs(gave', m, req', written')
    BY <1>2, <1>7
  <2>3. f.name = "Connection" => ReadingOptions(gave', m, f, input', req'.close)
    BY <1>2, <1>6, <1>8
  <2>4. f.name = "Content-Length" /\ f.name \notin req'.found =>
            ReadingDigits(gave', f, input', written')
    BY <1>2, <1>6, <1>9
  <2>. QED  BY <1>6, <2>1, <2>2, <2>3, <2>4 DEF Current
<1>11. LineKnown'
  BY <1>1, <1>2 DEF ReadingFields, LineKnown, Given, LineRead, Matched
<1>12. /\ analysed' = m + 1 /\ m + 1 > 0 /\ m + 1 - 1 = m /\ m + 1 \in 0 .. Len(gave')
       /\ gave'[m + 1] = f /\ parsing' = "field"
  BY <1>2, <1>3, <1>4, <1>f
<1>13. Current(analysed - 1, gave[analysed])'
  <2>1. analysed' - 1 = m
    <3>1. m \in Nat /\ analysed' = m + 1
      BY <1>4
    <3>. QED  BY <3>1
  <2>2. gave'[analysed'] = f
    BY <1>12, Zenon
  <2>. QED  BY <1>10, <2>1, <2>2 DEF Current
<1>14. Len(fields') = Len(gave')
  BY <1>2, <1>3
<1>. QED  BY <1>11, <1>12, <1>13, <1>14 DEF ReadingFields

\* What a step leaves alone that does not end the fields.
SameHead ==
    /\ gave' = gave /\ asked' = asked /\ fields' = fields /\ error' = error
    /\ lines' = lines /\ analysed' = analysed

LEMMA KeepsHead ==
    ASSUME ReadingFields, SameHead, IsRequest(req'), OfTheLine(req', req)
    PROVE  LineKnown' /\ Len(fields') = Len(gave') /\ analysed' \in 0 .. Len(gave')
BY DEF ReadingFields, SameHead, LineKnown, Given, LineRead, Matched, OfTheLine

\* The field at hand has been read.
LEMMA FieldRead ==
    ASSUME ReadingFields, SameHead, IsRequest(req'), OfTheLine(req', req),
           parsing' = "analysis", NEW m \in Nat, NEW f, analysed = m + 1, f = gave[m + 1],
           Finished(gave, m, req),
           ~f.bad, ~f.endless, f.name = "Host" => "Host" \notin req.found,
           req'.found = req.found \cup ({f.name} \cap Kept),
           AllPlain(gave) =>
              /\ req'.header = IF f.name = "Host" /\ "Host" \notin req.found
                               THEN f.is ELSE req.header
              /\ req'.type = IF f.name = "Content-Type" /\ "Content-Type" \notin req.found
                             THEN f.is ELSE req.type
              /\ req'.chunked <=> req.chunked \/ (f.name = "Transfer-Encoding" /\ f.is),
           AllPlain(gave) => (req'.close <=> \/ AnyOf(gave, m, "Connection")
                                             \/ f.name = "Connection" /\ f.is),
           NEW n, LengthIs(gave, m, req, n),
           AllPlain(gave) =>
              written' = IF f.name = "Content-Length" /\ "Content-Length" \notin req.found
                         THEN f.is ELSE n
    PROVE  ReadingFields'
<1>1. PICK r : r = req
  OBVIOUS
<1>2. PICK s : s = req'
  OBVIOUS
<1>3. PICK g : g = gave
  OBVIOUS
<1>4. PICK w : w = written'
  OBVIOUS
<1>5. Finished(g, m + 1, s)
  <2>1. AllPlain(g) =>
           /\ s.header = IF g[m + 1].name = "Host" /\ "Host" \notin r.found
                         THEN g[m + 1].is ELSE r.header
           /\ s.type = IF g[m + 1].name = "Content-Type" /\ "Content-Type" \notin r.found
                       THEN g[m + 1].is ELSE r.type
           /\ s.chunked <=> r.chunked \/ (g[m + 1].name = "Transfer-Encoding" /\ g[m + 1].is)
    BY <1>1, <1>2, <1>3, Zenon
  <2>2. /\ Finished(g, m, r) /\ ~g[m + 1].bad /\ ~g[m + 1].endless
        /\ g[m + 1].name = "Host" => "Host" \notin r.found
        /\ s.found = r.found \cup ({g[m + 1].name} \cap Kept)
    BY <1>1, <1>2, <1>3
  <2>. QED  BY <2>1, <2>2, FinishedNext
<1>6. CloseIs(g, m + 1, s)
  <2>1. AllPlain(g) => (s.close <=> \/ AnyOf(g, m, "Connection")
                                    \/ g[m + 1].name = "Connection" /\ g[m + 1].is)
    BY <1>2, <1>3, Zenon
  <2>. QED  BY <2>1, CloseNext
<1>7. LengthIs(g, m + 1, s, w)
  <2>1. AllPlain(g) =>
           w = IF g[m + 1].name = "Content-Length" /\ "Content-Length" \notin r.found
               THEN g[m + 1].is ELSE n
    BY <1>1, <1>3, <1>4, Zenon
  <2>2. /\ FoundIs(g, m, r.found) /\ LengthIs(g, m, r, n)
        /\ s.found = r.found \cup ({g[m + 1].name} \cap Kept)
    BY <1>1, <1>2, <1>3 DEF Finished
  <2>. QED  BY <2>1, <2>2, LengthNext
<1>8. analysed' = m + 1 /\ gave' = g
  BY <1>3 DEF SameHead
<1>9. Analysed(analysed)'
  BY <1>2, <1>4, <1>5, <1>6, <1>7, <1>8 DEF Analysed
<1>10. LineKnown' /\ Len(fields') = Len(gave') /\ analysed' \in 0 .. Len(gave')
  BY KeepsHead
<1>. QED  BY <1>9, <1>10 DEF ReadingFields

LEMMA Kinds ==
    /\ "Host" \in Kept /\ "Content-Type" \in Kept /\ "Content-Length" \in Kept
    /\ "Connection" \notin Kept /\ "Transfer-Encoding" \notin Kept
    /\ \A name \in Kept : {name} \cap Kept = {name}
    /\ \A name : name \notin Kept => {name} \cap Kept = {}
    /\ Kept \subseteq Known
BY DEF Kept, Known

LEMMA FieldHostHead ==
    ASSUME HeadInv, FieldHost
    PROVE  HeadInv'
<1>. SUFFICES ASSUME ~slipped  PROVE ReadingFields'
  BY DEF FieldHost, Analysing, Keep, HeadInv, message
<1>1. ReadingFields /\ parsing = "field"
  BY DEF FieldHost, Analysing, HeadInv
<1>2. PICK m \in Nat, f \in FieldLines :
              /\ analysed = m + 1 /\ m + 1 \in DOMAIN gave /\ f = gave[m + 1]
              /\ This.name = f.name /\ This.value = f.value
              /\ AllPlain(gave) => f.plain
              /\ Current(m, f)
  BY <1>1, AtHand, Zenon
<1>3. f.name = "Host" /\ "Host" \notin req.found
  BY <1>2 DEF FieldHost, Analysing
<1>4. SameHead /\ parsing' = "analysis" /\ written' = written
  BY DEF FieldHost, Keep, EndField, SameHead, message, sizes
<1>. DEFINE v == ParseUriHost(input).value
<1>5. req' = [req EXCEPT !.header = v, !.found = @ \cup {"Host"}]
  BY <1>3 DEF FieldHost, Keep
<1>6. IsRequest(req)
  BY <1>1 DEF ReadingFields, LineKnown
<1>. HIDE DEF v
<1>7. /\ IsRequest(req') /\ OfTheLine(req', req) /\ req'.header = v
      /\ req'.found = req.found \cup {"Host"}
      /\ req'.type = req.type /\ req'.chunked = req.chunked /\ req'.close = req.close
  BY <1>5, <1>6 DEF IsRequest, RequestParts, OfTheLine
<1>8. /\ Finished(gave, m, req) /\ CloseIs(gave, m, req) /\ LengthIs(gave, m, req, written)
      /\ input = f.value
  BY <1>2, <1>3 DEF Current
<1>9. ~f.bad /\ ~f.endless
  BY <1>3, FieldMeans
<1>10. AllPlain(gave) => v = f.is
  BY <1>2, <1>3, <1>8, <1>9, FieldMeans DEF MeansWhatIsRead, v
<1>11. req'.found = req.found \cup ({f.name} \cap Kept)
  BY <1>3, <1>7, Kinds
<1>12. AllPlain(gave) =>
           /\ req'.header = IF f.name = "Host" /\ "Host" \notin req.found
                            THEN f.is ELSE req.header
           /\ req'.type = IF f.name = "Content-Type" /\ "Content-Type" \notin req.found
                          THEN f.is ELSE req.type
           /\ req'.chunked <=> req.chunked \/ (f.name = "Transfer-Encoding" /\ f.is)
  BY <1>3, <1>7, <1>10
<1>13. AllPlain(gave) => (req'.close <=> \/ AnyOf(gave, m, "Connection")
                                         \/ f.name = "Connection" /\ f.is)
  BY <1>3, <1>7, <1>8 DEF CloseIs
<1>14. AllPlain(gave) =>
           written' = IF f.name = "Content-Length" /\ "Content-Length" \notin req.found
                      THEN f.is ELSE written
  BY <1>3, <1>4
<1>. QED  BY <1>1, <1>2, <1>3, <1>4, <1>7, <1>8, <1>9, <1>11, <1>12, <1>13, <1>14, FieldRead

LEMMA FieldContentTypeHead ==
    ASSUME HeadInv, FieldContentType
    PROVE  HeadInv'
<1>. SUFFICES ASSUME ~slipped  PROVE ReadingFields'
  BY DEF FieldContentType, Analysing, Keep, HeadInv, message
<1>1. ReadingFields /\ parsing = "field"
  BY DEF FieldContentType, Analysing, Keep, HeadInv
<1>2. PICK m \in Nat, f \in FieldLines :
              /\ analysed = m + 1 /\ m + 1 \in DOMAIN gave /\ f = gave[m + 1]
              /\ This.name = f.name /\ This.value = f.value
              /\ AllPlain(gave) => f.plain
              /\ Current(m, f)
  BY <1>1, AtHand, Zenon
<1>3. f.name = "Content-Type"
  BY <1>2 DEF FieldContentType, Analysing
<1>4. SameHead /\ parsing' = "analysis" /\ written' = written
  BY DEF FieldContentType, Keep, EndField, SameHead, message, sizes
<1>. DEFINE n == ScanContentType(input)
            v == Take(input, n)
<1>5. /\ n # Refused /\ ~QuotesBehindToken(Rest(input, n))
      /\ req' = IF "Content-Type" \in req.found THEN req
                ELSE [req EXCEPT !.type = v, !.found = @ \cup {"Content-Type"}]
  BY DEF FieldContentType, Keep
<1>6. IsRequest(req)
  BY <1>1 DEF ReadingFields, LineKnown
<1>. HIDE DEF v
<1>7. /\ IsRequest(req') /\ OfTheLine(req', req)
      /\ req'.type = IF "Content-Type" \in req.found THEN req.type ELSE v
      /\ req'.found = req.found \cup {"Content-Type"}
      /\ req'.header = req.header /\ req'.chunked = req.chunked /\ req'.close = req.close
  <2>1. CASE "Content-Type" \in req.found
    <3>1. req' = req
      BY <1>5, <2>1
    <3>. QED  BY <1>6, <2>1, <3>1 DEF OfTheLine
  <2>2. CASE "Content-Type" \notin req.found
    <3>1. req' = [req EXCEPT !.type = v, !.found = @ \cup {"Content-Type"}]
      BY <1>5, <2>2
    <3>. QED  BY <1>6, <2>2, <3>1 DEF IsRequest, RequestParts, OfTheLine
  <2>. QED  BY <2>1, <2>2
<1>8. /\ Finished(gave, m, req) /\ CloseIs(gave, m, req) /\ LengthIs(gave, m, req, written)
      /\ input = f.value
  BY <1>2, <1>3 DEF Current
<1>9. ~f.bad /\ ~f.endless
  BY <1>3, <1>5, <1>8, FieldMeans
<1>10. AllPlain(gave) => v = f.is
  BY <1>2, <1>3, <1>8, <1>9, FieldMeans DEF MeansWhatIsRead, v
<1>11. req'.found = req.found \cup ({f.name} \cap Kept)
  BY <1>3, <1>7, Kinds
<1>12. AllPlain(gave) =>
           /\ req'.header = IF f.name = "Host" /\ "Host" \notin req.found
                            THEN f.is ELSE req.header
           /\ req'.type = IF f.name = "Content-Type" /\ "Content-Type" \notin req.found
                          THEN f.is ELSE req.type
           /\ req'.chunked <=> req.chunked \/ (f.name = "Transfer-Encoding" /\ f.is)
  BY <1>3, <1>7, <1>10
<1>13. AllPlain(gave) => (req'.close <=> \/ AnyOf(gave, m, "Connection")
                                         \/ f.name = "Connection" /\ f.is)
  BY <1>3, <1>7, <1>8 DEF CloseIs
<1>14. AllPlain(gave) =>
           written' = IF f.name = "Content-Length" /\ "Content-Length" \notin req.found
                      THEN f.is ELSE written
  BY <1>3, <1>4
<1>15. f.name = "Host" => "Host" \notin req.found
  BY <1>3
<1>. QED  BY <1>1, <1>2, <1>4, <1>7, <1>8, <1>9, <1>11, <1>12, <1>13, <1>14, <1>15, FieldRead

LEMMA FieldTransferEncodingHead ==
    ASSUME HeadInv, FieldTransferEncoding
    PROVE  HeadInv'
<1>. SUFFICES ASSUME ~slipped  PROVE ReadingFields'
  BY DEF FieldTransferEncoding, Analysing, Keep, HeadInv, message
<1>1. ReadingFields /\ parsing = "field"
  BY DEF FieldTransferEncoding, Analysing, Keep, HeadInv
<1>2. PICK m \in Nat, f \in FieldLines :
              /\ analysed = m + 1 /\ m + 1 \in DOMAIN gave /\ f = gave[m + 1]
              /\ This.name = f.name /\ This.value = f.value
              /\ AllPlain(gave) => f.plain
              /\ Current(m, f)
  BY <1>1, AtHand, Zenon
<1>3. f.name = "Transfer-Encoding"
  BY <1>2 DEF FieldTransferEncoding, Analysing
<1>4. SameHead /\ parsing' = "analysis" /\ written' = written
  BY DEF FieldTransferEncoding, Keep, EndField, SameHead, message, sizes
<1>8. /\ Finished(gave, m, req) /\ CloseIs(gave, m, req) /\ LengthIs(gave, m, req, written)
      /\ input = f.value
  BY <1>2, <1>3 DEF Current
<1>5. req' = [req EXCEPT !.chunked = @ \/ First(input) = "chunked"]
  <2>1. "Transfer-Encoding" \notin req.found
    BY <1>8, Kinds DEF Finished, FoundIs
  <2>. QED  BY <2>1 DEF FieldTransferEncoding, Keep
<1>6. IsRequest(req)
  BY <1>1 DEF ReadingFields, LineKnown
<1>7. /\ IsRequest(req') /\ OfTheLine(req', req)
      /\ (req'.chunked <=> req.chunked \/ First(input) = "chunked")
      /\ req'.found = req.found
      /\ req'.header = req.header /\ req'.type = req.type /\ req'.close = req.close
  BY <1>5, <1>6 DEF IsRequest, RequestParts, OfTheLine
<1>9. ~f.bad /\ ~f.endless
  <2>1. ~ListsCodings(input)
    BY DEF FieldTransferEncoding
  <2>. QED  BY <1>3, <1>8, <2>1, FieldMeans
<1>10. AllPlain(gave) => f.is = (First(input) = "chunked")
  BY <1>2, <1>3, <1>8, <1>9, FieldMeans DEF MeansWhatIsRead
<1>11. req'.found = req.found \cup ({f.name} \cap Kept)
  BY <1>3, <1>7, Kinds
<1>12. AllPlain(gave) =>
           /\ req'.header = IF f.name = "Host" /\ "Host" \notin req.found
                            THEN f.is ELSE req.header
           /\ req'.type = IF f.name = "Content-Type" /\ "Content-Type" \notin req.found
                          THEN f.is ELSE req.type
           /\ req'.chunked <=> req.chunked \/ (f.name = "Transfer-Encoding" /\ f.is)
  BY <1>3, <1>7, <1>10
<1>13. AllPlain(gave) => (req'.close <=> \/ AnyOf(gave, m, "Connection")
                                         \/ f.name = "Connection" /\ f.is)
  BY <1>3, <1>7, <1>8 DEF CloseIs
<1>14. AllPlain(gave) =>
           written' = IF f.name = "Content-Length" /\ "Content-Length" \notin req.found
                      THEN f.is ELSE written
  BY <1>3, <1>4
<1>15. f.name = "Host" => "Host" \notin req.found
  BY <1>3
<1>. QED  BY <1>1, <1>2, <1>4, <1>7, <1>8, <1>9, <1>11, <1>12, <1>13, <1>14, <1>15, FieldRead

LEMMA FieldConnectionHead ==
    ASSUME HeadInv, FieldConnection
    PROVE  HeadInv'
<1>. SUFFICES ASSUME ~slipped  PROVE ReadingFields'
  BY DEF FieldConnection, Analysing, Keep, HeadInv, message
<1>1. ReadingFields /\ parsing = "field"
  BY DEF FieldConnection, Analysing, Keep, HeadInv
<1>2. PICK m \in Nat, f \in FieldLines :
              /\ analysed = m + 1 /\ m + 1 \in DOMAIN gave /\ f = gave[m + 1]
              /\ This.name = f.name /\ This.value = f.value
              /\ AllPlain(gave) => f.plain
              /\ Current(m, f)
  BY <1>1, AtHand, Zenon
<1>3. f.name = "Connection"
  BY <1>2 DEF FieldConnection, Analysing
<1>4. SameHead /\ parsing' = "analysis" /\ written' = written
  BY DEF FieldConnection, Keep, EndField, SameHead, message, sizes
<1>8. /\ Finished(gave, m, req) /\ LengthIs(gave, m, req, written)
      /\ ReadingOptions(gave, m, f, input, req.close)
  BY <1>2, <1>3 DEF Current
<1>5. req' = [req EXCEPT !.close = @ \/ First(input) = "close"] /\ ~HasOption(input)
  <2>1. "Connection" \notin req.found
    BY <1>8, Kinds DEF Finished, FoundIs
  <2>. QED  BY <2>1 DEF FieldConnection, Keep
<1>6. IsRequest(req)
  BY <1>1 DEF ReadingFields, LineKnown
<1>7. /\ IsRequest(req') /\ OfTheLine(req', req)
      /\ (req'.close <=> req.close \/ First(input) = "close")
      /\ req'.found = req.found
      /\ req'.header = req.header /\ req'.type = req.type /\ req'.chunked = req.chunked
  BY <1>5, <1>6 DEF IsRequest, RequestParts, OfTheLine
<1>9. ~f.bad /\ ~f.endless
  BY <1>3, FieldMeans
<1>10. AllPlain(gave) =>
          (req.close \/ First(input) = "close" <=> AnyOf(gave, m, "Connection") \/ f.is)
  BY <1>5, <1>8, OptionsEnd
<1>11. req'.found = req.found \cup ({f.name} \cap Kept)
  BY <1>3, <1>7, Kinds
<1>12. AllPlain(gave) =>
           /\ req'.header = IF f.name = "Host" /\ "Host" \notin req.found
                            THEN f.is ELSE req.header
           /\ req'.type = IF f.name = "Content-Type" /\ "Content-Type" \notin req.found
                          THEN f.is ELSE req.type
           /\ req'.chunked <=> req.chunked \/ (f.name = "Transfer-Encoding" /\ f.is)
  BY <1>3, <1>7, <1>10
<1>13. AllPlain(gave) => (req'.close <=> \/ AnyOf(gave, m, "Connection")
                                         \/ f.name = "Connection" /\ f.is)
  BY <1>3, <1>7, <1>10
<1>14. AllPlain(gave) =>
           written' = IF f.name = "Content-Length" /\ "Content-Length" \notin req.found
                      THEN f.is ELSE written
  BY <1>3, <1>4
<1>15. f.name = "Host" => "Host" \notin req.found
  BY <1>3
<1>. QED  BY <1>1, <1>2, <1>4, <1>7, <1>8, <1>9, <1>11, <1>12, <1>13, <1>14, <1>15, FieldRead

LEMMA OtherFieldHead ==
    ASSUME HeadInv, OtherField
    PROVE  HeadInv'
<1>. SUFFICES ASSUME ~slipped  PROVE ReadingFields'
  BY DEF OtherField, Keep, HeadInv, message
<1>1. ReadingFields /\ parsing = "field"
  BY DEF OtherField, HeadInv
<1>2. PICK m \in Nat, f \in FieldLines :
              /\ analysed = m + 1 /\ m + 1 \in DOMAIN gave /\ f = gave[m + 1]
              /\ This.name = f.name /\ This.value = f.value
              /\ AllPlain(gave) => f.plain
              /\ Current(m, f)
  BY <1>1, AtHand, Zenon
<1>3. f.name \notin Known
  BY <1>2 DEF OtherField
<1>4. SameHead /\ parsing' = "analysis" /\ written' = written
  BY DEF OtherField, Keep, EndField, SameHead, message, sizes
<1>5. req' = req
  BY DEF OtherField, Keep
<1>6. IsRequest(req)
  BY <1>1 DEF ReadingFields, LineKnown
<1>k. f.name # "Host" /\ f.name # "Content-Type" /\ f.name # "Connection"
      /\ f.name # "Content-Length" /\ f.name # "Transfer-Encoding"
  BY <1>3 DEF Known
<1>7. IsRequest(req') /\ OfTheLine(req', req)
  BY <1>5, <1>6 DEF OfTheLine
<1>8. /\ Finished(gave, m, req) /\ CloseIs(gave, m, req) /\ LengthIs(gave, m, req, written)
  BY <1>2, <1>k DEF Current
<1>9. ~f.bad /\ ~f.endless
  BY <1>k, FieldMeans
<1>11. req'.found = req.found \cup ({f.name} \cap Kept)
  BY <1>3, <1>5, Kinds
<1>12. AllPlain(gave) =>
           /\ req'.header = IF f.name = "Host" /\ "Host" \notin req.found
                            THEN f.is ELSE req.header
           /\ req'.type = IF f.name = "Content-Type" /\ "Content-Type" \notin req.found
                          THEN f.is ELSE req.type
           /\ req'.chunked <=> req.chunked \/ (f.name = "Transfer-Encoding" /\ f.is)
  BY <1>k, <1>5
<1>13. AllPlain(gave) => (req'.close <=> \/ AnyOf(gave, m, "Connection")
                                         \/ f.name = "Connection" /\ f.is)
  BY <1>k, <1>5, <1>8 DEF CloseIs
<1>14. AllPlain(gave) =>
           written' = IF f.name = "Content-Length" /\ "Content-Length" \notin req.found
                      THEN f.is ELSE written
  BY <1>k, <1>4
<1>. QED  BY <1>1, <1>2, <1>k, <1>4, <1>7, <1>8, <1>9, <1>11, <1>12, <1>13, <1>14, FieldRead

\* Without a length among the fields, none has been read.
LEMMA NoLength ==
    ASSUME NEW g, NEW m, NEW r, Finished(g, m, r), "Content-Length" \notin r.found
    PROVE  LengthIs(g, m, r, 0)
BY Kinds DEF Finished, FoundIs, LengthIs, KeptIs

LEMMA FieldContentLengthHead ==
    ASSUME HeadInv, FieldContentLength
    PROVE  HeadInv'
<1>. SUFFICES ASSUME ~slipped  PROVE ReadingFields'
  BY DEF FieldContentLength, Analysing, Keep, HeadInv, message
<1>1. ReadingFields /\ parsing = "field"
  BY DEF FieldContentLength, Analysing, Keep, HeadInv
<1>2. PICK m \in Nat, f \in FieldLines :
              /\ analysed = m + 1 /\ m + 1 \in DOMAIN gave /\ f = gave[m + 1]
              /\ This.name = f.name /\ This.value = f.value
              /\ AllPlain(gave) => f.plain
              /\ Current(m, f)
  BY <1>1, AtHand, Zenon
<1>3. f.name = "Content-Length" /\ First(f.value) \in Digit
  BY <1>2 DEF FieldContentLength, Analysing
<1>4. SameHead /\ parsing' = "analysis" /\ written' = written
  BY DEF FieldContentLength, Keep, EndField, SameHead, message, sizes
<1>5. /\ First(input) \in Digit => "Content-Length" \in req.found
      /\ req' = IF "Content-Length" \in req.found THEN req
                ELSE [req EXCEPT !.found = @ \cup {"Content-Length"}]
  BY DEF FieldContentLength, Keep
<1>6. IsRequest(req)
  BY <1>1 DEF ReadingFields, LineKnown
<1>7. /\ IsRequest(req') /\ OfTheLine(req', req)
      /\ req'.found = req.found \cup {"Content-Length"}
      /\ req'.header = req.header /\ req'.type = req.type
      /\ req'.chunked = req.chunked /\ req'.close = req.close
  <2>1. CASE "Content-Length" \in req.found
    <3>1. req' = req
      BY <1>5, <2>1
    <3>. QED  BY <1>6, <2>1, <3>1 DEF OfTheLine
  <2>2. CASE "Content-Length" \notin req.found
    <3>1. req' = [req EXCEPT !.found = @ \cup {"Content-Length"}]
      BY <1>5, <2>2
    <3>. QED  BY <1>6, <2>2, <3>1 DEF IsRequest, RequestParts, OfTheLine
  <2>. QED  BY <2>1, <2>2
<1>8. Finished(gave, m, req) /\ CloseIs(gave, m, req)
  BY <1>2, <1>3 DEF Current
<1>9. ~f.bad /\ ~f.endless
  BY <1>3, FieldMeans
<1>10. \E n : /\ LengthIs(gave, m, req, n)
              /\ AllPlain(gave) => written' = IF "Content-Length" \notin req.found
                                              THEN f.is ELSE n
  <2>1. CASE "Content-Length" \in req.found
    <3>1. LengthIs(gave, m, req, written)
      BY <1>2, <1>3, <2>1 DEF Current
    <3>. QED  BY <1>4, <2>1, <3>1
  <2>2. CASE "Content-Length" \notin req.found
    <3>1. LengthIs(gave, m, req, 0)
      BY <1>8, <2>2, NoLength
    <3>2. ASSUME AllPlain(gave)  PROVE written = f.is
      <4>1. ReadingDigits(gave, f, input, written)
        BY <1>2, <1>3, <2>2 DEF Current
      <4>2. First(input) \notin LengthDigits
        BY <1>5, <2>2 DEF LengthDigits, Digit
      <4>. QED  BY <1>9, <3>2, <4>1, <4>2, DigitsEnd
    <3>. QED  BY <1>4, <2>2, <3>1, <3>2
  <2>. QED  BY <2>1, <2>2
<1>n. PICK n : /\ LengthIs(gave, m, req, n)
               /\ AllPlain(gave) => written' = IF "Content-Length" \notin req.found
                                               THEN f.is ELSE n
  BY <1>10
<1>11. req'.found = req.found \cup ({f.name} \cap Kept)
  BY <1>3, <1>7, Kinds
<1>12. AllPlain(gave) =>
           /\ req'.header = IF f.name = "Host" /\ "Host" \notin req.found
                            THEN f.is ELSE req.header
           /\ req'.type = IF f.name = "Content-Type" /\ "Content-Type" \notin req.found
                          THEN f.is ELSE req.type
           /\ req'.chunked <=> req.chunked \/ (f.name = "Transfer-Encoding" /\ f.is)
  BY <1>3, <1>7
<1>13. AllPlain(gave) => (req'.close <=> \/ AnyOf(gave, m, "Connection")
                                         \/ f.name = "Connection" /\ f.is)
  BY <1>3, <1>7, <1>8 DEF CloseIs
<1>14. AllPlain(gave) =>
           written' = IF f.name = "Content-Length" /\ "Content-Length" \notin req.found
                      THEN f.is ELSE n
  BY <1>3, <1>n
<1>15. f.name = "Host" => "Host" \notin req.found
  BY <1>3
<1>. QED  BY <1>1, <1>2, <1>4, <1>7, <1>8, <1>9, <1>n, <1>11, <1>12, <1>13, <1>14, <1>15, FieldRead

LEMMA ListedOptionHead ==
    ASSUME HeadInv, ListedOption
    PROVE  HeadInv'
<1>. SUFFICES ASSUME ~slipped  PROVE ReadingFields'
  BY DEF ListedOption, Analysing, HeadInv, message
<1>1. ReadingFields /\ parsing = "field"
  BY DEF ListedOption, Analysing, HeadInv
<1>2. PICK m \in Nat, f \in FieldLines :
              /\ analysed = m + 1 /\ m + 1 \in DOMAIN gave /\ f = gave[m + 1]
              /\ This.name = f.name /\ This.value = f.value
              /\ AllPlain(gave) => f.plain
              /\ Current(m, f)
  BY <1>1, AtHand, Zenon
<1>3. f.name = "Connection" /\ HasOption(input)
  BY <1>2 DEF ListedOption, Analysing
<1>4. SameHead /\ parsing' = "field" /\ written' = written
  BY <1>1 DEF ListedOption, ReadOption, SameHead, message, sizes
<1>. DEFINE t == Rest(input, ScanComma(input))
<1>5. /\ input' = Rest(t, ScanToken(t))
      /\ req' = [req EXCEPT !.close = @ \/ First(t) = "close"]
  BY DEF ListedOption
<1>6. IsRequest(req)
  BY <1>1 DEF ReadingFields, LineKnown
<1>8. /\ Finished(gave, m, req) /\ LengthIs(gave, m, req, written)
      /\ ReadingOptions(gave, m, f, input, req.close)
  BY <1>2, <1>3 DEF Current
<1>9. ReadingOptions(gave, m, f, input', req.close \/ First(t) = "close")
  BY <1>3, <1>5, <1>8, OptionsNext
<1>. HIDE DEF t
<1>7. /\ IsRequest(req') /\ OfTheLine(req', req)
      /\ req'.close = (req.close \/ First(t) = "close")
      /\ req'.found = req.found
      /\ req'.header = req.header /\ req'.type = req.type /\ req'.chunked = req.chunked
  BY <1>5, <1>6 DEF IsRequest, RequestParts, OfTheLine
<1>10. Finished(gave', m, req') /\ LengthIs(gave', m, req', written')
  BY <1>4, <1>7, <1>8 DEF SameHead, Finished, LengthIs
<1>11. ReadingOptions(gave', m, f, input', req'.close)
  <2>1. gave' = gave
    BY <1>4 DEF SameHead
  <2>2. req'.close = (req.close \/ First(t) = "close")
    BY <1>7
  <2>. QED  BY <1>9, <2>1, <2>2, Zenon
<1>12. Current(m, f)'
  BY <1>3, <1>10, <1>11 DEF Current
<1>13. /\ analysed' = m + 1 /\ gave'[m + 1] = f
  BY <1>2, <1>4 DEF SameHead
<1>14. analysed' - 1 = m /\ analysed' > 0
  <2>1. m \in Nat /\ analysed' = m + 1
    BY <1>2, <1>13
  <2>. QED  BY <2>1
<1>15. gave'[analysed'] = f
  BY <1>13
<1>16. Current(analysed - 1, gave[analysed])'
  BY <1>12, <1>14, <1>15 DEF Current
<1>17. LineKnown' /\ Len(fields') = Len(gave') /\ analysed' \in 0 .. Len(gave')
  BY <1>1, <1>4, <1>7, KeepsHead
<1>18. parsing' = "field"
  BY <1>4
<1>. QED  BY <1>14, <1>16, <1>17, <1>18 DEF ReadingFields

LEMMA LengthDigitHead ==
    ASSUME HeadInv, LengthDigit
    PROVE  HeadInv'
<1>. SUFFICES ASSUME ~slipped  PROVE ReadingFields'
  BY DEF LengthDigit, Analysing, HeadInv, message
<1>1. ReadingFields /\ parsing = "field"
  BY DEF LengthDigit, Analysing, HeadInv
<1>2. PICK m \in Nat, f \in FieldLines :
              /\ analysed = m + 1 /\ m + 1 \in DOMAIN gave /\ f = gave[m + 1]
              /\ This.name = f.name /\ This.value = f.value
              /\ AllPlain(gave) => f.plain
              /\ Current(m, f)
  BY <1>1, AtHand, Zenon
<1>3. f.name = "Content-Length" /\ "Content-Length" \notin req.found
      /\ First(input) \in LengthDigits
  BY <1>2 DEF LengthDigit, Analysing, LengthDigits
<1>4. SameHead /\ parsing' = "field" /\ req' = req
  BY <1>1 DEF LengthDigit, arena, SameHead, message
<1>5. /\ input' = Rest(input, 1)
      /\ written' = written * 10 + NumberOf(First(input))
  BY DEF LengthDigit, ReadDigit
<1>6. IsRequest(req)
  BY <1>1 DEF ReadingFields, LineKnown
<1>7. IsRequest(req') /\ OfTheLine(req', req)
  BY <1>4, <1>6 DEF OfTheLine
<1>8. Finished(gave, m, req) /\ CloseIs(gave, m, req) /\ ReadingDigits(gave, f, input, written)
  BY <1>2, <1>3 DEF Current
<1>9. ReadingDigits(gave, f, input', written')
  BY <1>3, <1>5, <1>8, DigitsNext
<1>10. gave' = gave
  BY <1>4 DEF SameHead
<1>12. Current(m, f)'
  BY <1>3, <1>4, <1>8, <1>9, <1>10 DEF Current
<1>13. /\ analysed' = m + 1 /\ gave'[m + 1] = f
  BY <1>2, <1>4 DEF SameHead
<1>14. analysed' - 1 = m /\ analysed' > 0
  <2>1. m \in Nat /\ analysed' = m + 1
    BY <1>2, <1>13
  <2>. QED  BY <2>1
<1>15. gave'[analysed'] = f
  BY <1>13
<1>16. Current(analysed - 1, gave[analysed])'
  BY <1>12, <1>14, <1>15 DEF Current
<1>17. LineKnown' /\ Len(fields') = Len(gave') /\ analysed' \in 0 .. Len(gave')
  BY <1>1, <1>4, <1>7, KeepsHead
<1>18. parsing' = "field"
  BY <1>4
<1>. QED  BY <1>14, <1>16, <1>17, <1>18 DEF ReadingFields

-------------------------------------------------------------------------------
(* What has been read                                                          *)

\* How far reading gets: m fields, and then the end or one that is not valid.
Ends(m) ==
    /\ m \in 0 .. Len(gave) /\ Finished(gave, m, req)
    /\ \A i \in 1 .. m : ~Bad(i)
    /\ m = Len(gave) \/ Bad(m + 1)

LEMMA NoneBad ==
    ASSUME NEW m, Finished(gave, m, req)
    PROVE  \A i \in 1 .. m : ~Bad(i) /\ ~gave[i].endless
BY DEF Finished, Valid, Bad, IsFirst

LEMMA InFrontOf ==
    ASSUME gave \in Seq(FieldLines), NEW m, Ends(m), NEW S, S \subseteq DOMAIN gave
    PROVE  InFront(S) = S \cap (1 .. m)
<1>1. m \in Nat /\ m <= Len(gave) /\ Len(gave) \in Nat
  BY DEF Ends
<1>2. ASSUME NEW i \in S
      PROVE  (\A j \in 1 .. i : ~Bad(j)) <=> i \in 1 .. m
  <2>1. i \in 1 .. Len(gave)
    OBVIOUS
  <2>2. CASE i <= m
    <3>1. \A j \in 1 .. i : j \in 1 .. m
      BY <1>1, <2>1, <2>2
    <3>2. i \in 1 .. m
      BY <1>1, <2>1, <2>2
    <3>. QED  BY <3>1, <3>2 DEF Ends
  <2>3. CASE ~(i <= m)
    <3>1. m + 1 \in 1 .. i /\ m # Len(gave) /\ i \notin 1 .. m
      BY <1>1, <2>1, <2>3
    <3>. QED  BY <3>1 DEF Ends
  <2>. QED  BY <2>2, <2>3
<1>. QED  BY <1>2 DEF InFront

LEMMA ForemostIs ==
    ASSUME gave \in Seq(FieldLines), NEW name, NEW i \in DOMAIN gave
    PROVE  i \in Foremost(FieldsNamed(name)) <=> gave[i].name = name /\ IsFirst(gave, i)
<1>1. Len(gave) \in Nat /\ DOMAIN gave = 1 .. Len(gave) /\ i \in 1 .. Len(gave)
  OBVIOUS
<1>2. ASSUME i \in Foremost(FieldsNamed(name))
      PROVE  gave[i].name = name /\ IsFirst(gave, i)
  <2>1. gave[i].name = name
    BY <1>2 DEF Foremost, FieldsNamed
  <2>2. ASSUME NEW j \in 1 .. i - 1, gave[j].name = gave[i].name  PROVE FALSE
    <3>1. j \in DOMAIN gave /\ ~(i <= j)
      BY <1>1
    <3>. QED  BY <1>2, <2>1, <2>2, <3>1 DEF Foremost, FieldsNamed
  <2>. QED  BY <2>1, <2>2 DEF IsFirst
<1>3. ASSUME gave[i].name = name, IsFirst(gave, i)
      PROVE  i \in Foremost(FieldsNamed(name))
  <2>1. ASSUME NEW j \in FieldsNamed(name)  PROVE i <= j
    <3>1. j \in 1 .. Len(gave) /\ gave[j].name = name
      BY <1>1 DEF FieldsNamed
    <3>2. ASSUME j < i  PROVE FALSE
      <4>1. j \in 1 .. i - 1
        BY <1>1, <3>1, <3>2
      <4>. QED  BY <1>3, <3>1, <4>1 DEF IsFirst
    <3>. QED  BY <1>1, <3>1, <3>2
  <2>2. i \in FieldsNamed(name)
    BY <1>3 DEF FieldsNamed
  <2>. QED  BY <2>1, <2>2 DEF Foremost
<1>. QED  BY <1>2, <1>3

\* Among so many fields, the first of a name is there if one of them is.
LEMMA FirstIsThere ==
    ASSUME gave \in Seq(FieldLines), NEW m \in 0 .. Len(gave), NEW name,
           NEW i \in 1 .. m, gave[i].name = name
    PROVE  \E j \in 1 .. m : gave[j].name = name /\ IsFirst(gave, j)
<1>. DEFINE S == {j \in 1 .. m : gave[j].name = name}
<1>1. Len(gave) \in Nat /\ S \subseteq Nat /\ S # {}
  OBVIOUS
<1>2. \E j \in S : \A k \in S : j <= k
  <2>. HIDE DEF S
  <2>. QED  BY <1>1, MinOf
<1>3. PICK j \in S : \A k \in S : j <= k
  BY <1>2
<1>4. ASSUME NEW k \in 1 .. j - 1, gave[k].name = gave[j].name  PROVE FALSE
  <2>1. k \in 1 .. m /\ ~(j <= k)
    BY <1>1
  <2>. QED  BY <1>3, <1>4, <2>1
<1>. QED  BY <1>4 DEF IsFirst

\* Of a head that is finished here, the framing is what it should be, and no field that
\* is read without an end was in the way.
LEMMA FramingRead ==
    ASSUME gave \in Seq(FieldLines), IsRequest(req), NEW m, Ends(m), AllPlain(gave),
           LengthIs(gave, m, req, written)
    PROVE  LET length == InFront(Foremost(FieldsNamed("Content-Length"))) IN
            /\ req.chunked = \E i \in InFront(FieldsNamed("Transfer-Encoding")) : gave[i].is
            /\ \A i \in length : written = gave[i].is
            /\ length = {} => written = 0
<1>. DEFINE length == InFront(Foremost(FieldsNamed("Content-Length")))
            codings == InFront(FieldsNamed("Transfer-Encoding"))
<1>1. Len(gave) \in Nat /\ m \in 0 .. Len(gave) /\ \A i \in 1 .. m : i \in DOMAIN gave
  BY DEF Ends
<1>2. codings = FieldsNamed("Transfer-Encoding") \cap (1 .. m)
  <2>1. FieldsNamed("Transfer-Encoding") \subseteq DOMAIN gave
    BY DEF FieldsNamed
  <2>. QED  BY <2>1, InFrontOf
<1>3. length = Foremost(FieldsNamed("Content-Length")) \cap (1 .. m)
  <2>1. Foremost(FieldsNamed("Content-Length")) \subseteq DOMAIN gave
    BY DEF FieldsNamed, Foremost
  <2>. QED  BY <2>1, InFrontOf
<1>. HIDE DEF length, codings
<1>4. \A i : i \in length <=> i \in 1 .. m /\ gave[i].name = "Content-Length" /\ IsFirst(gave, i)
  BY <1>1, <1>3, ForemostIs
<1>5. req.chunked = \E i \in codings : gave[i].is
  <2>1. req.chunked <=> AnyOf(gave, m, "Transfer-Encoding")
    BY DEF Ends, Finished
  <2>2. AnyOf(gave, m, "Transfer-Encoding") <=> \E i \in codings : gave[i].is
    BY <1>1, <1>2 DEF AnyOf, FieldsNamed
  <2>3. req.chunked \in BOOLEAN
    BY DEF IsRequest
  <2>. QED  BY <2>1, <2>2, <2>3
<1>6. /\ "Content-Length" \notin req.found => written = 0
      /\ \A i \in 1 .. m : gave[i].name = "Content-Length" /\ IsFirst(gave, i) =>
                              written = gave[i].is
  BY DEF LengthIs, KeptIs
<1>7. \A i \in length : written = gave[i].is
  BY <1>4, <1>6
<1>8. length = {} => "Content-Length" \notin req.found
  <2>. SUFFICES ASSUME "Content-Length" \in req.found  PROVE length # {}
    OBVIOUS
  <2>1. PICK i \in 1 .. m : gave[i].name = "Content-Length"
    BY DEF Ends, Finished, FoundIs
  <2>2. \E j \in 1 .. m : gave[j].name = "Content-Length" /\ IsFirst(gave, j)
    BY <1>1, <2>1, FirstIsThere
  <2>. QED  BY <1>4, <2>2
<1>. QED  BY <1>5, <1>6, <1>7, <1>8 DEF length, codings

\* Where the fields are given up, the one at hand is not valid; and it has not been taken
\* for a length.
LEMMA GivenUp ==
    ASSUME ReadingFields, GiveUp
    PROVE  \E m \in Nat : /\ Ends(m) /\ LengthIs(gave, m, req, written)
                          /\ m + 1 \in DOMAIN gave /\ Bad(m + 1)
<1>1. parsing = "field"
  BY DEF GiveUp, Analysing
<1>2. PICK m \in Nat, f \in FieldLines :
              /\ analysed = m + 1 /\ m + 1 \in DOMAIN gave /\ f = gave[m + 1]
              /\ This.name = f.name /\ This.value = f.value
              /\ AllPlain(gave) => f.plain
              /\ Current(m, f)
  BY <1>1, AtHand, Zenon
<1>3. Finished(gave, m, req)
  BY <1>2 DEF Current
<1>4. m \in 0 .. Len(gave)
  <2>1. gave \in Seq(FieldLines)
    BY DEF ReadingFields, LineKnown, Given
  <2>2. Len(gave) \in Nat /\ m + 1 \in 1 .. Len(gave) /\ m \in Nat
    BY <1>2, <2>1
  <2>. QED  BY <2>2
<1>5. CASE f.name = "Content-Length" /\ f.name \notin req.found
  <2>1. First(f.value) \notin Digit
    BY <1>2, <1>5 DEF GiveUp, Analysing
  <2>2. f.bad
    BY <1>5, <2>1, FieldMeans
  <2>3. Bad(m + 1)
    BY <1>2, <2>2 DEF Bad
  <2>4. ReadingDigits(gave, f, input, written)
    BY <1>2, <1>5 DEF Current
  <2>5. AllPlain(gave) => written = 0
    BY <2>1, <2>4, DigitsEnd
  <2>6. LengthIs(gave, m, req, 0)
    BY <1>3, <1>5, NoLength
  <2>7. LengthIs(gave, m, req, written)
    BY <2>5, <2>6 DEF LengthIs
  <2>8. Ends(m)
    BY <1>3, <1>4, <2>3, NoneBad DEF Ends
  <2>. QED  BY <1>2, <2>3, <2>7, <2>8
<1>6. CASE ~(f.name = "Content-Length" /\ f.name \notin req.found)
  <2>1. LengthIs(gave, m, req, written)
    BY <1>2, <1>6 DEF Current
  <2>2. Bad(m + 1)
    <3>1. CASE f.name = "Content-Type" /\ ScanContentType(input) = Refused
      <4>1. input = f.value
        BY <1>2, <3>1 DEF Current
      <4>2. f.bad
        BY <3>1, <4>1, FieldMeans
      <4>. QED  BY <1>2, <4>2 DEF Bad
    <3>2. CASE f.name = "Content-Length" /\ First(f.value) \notin Digit
      <4>1. f.bad
        BY <3>2, FieldMeans
      <4>. QED  BY <1>2, <4>1 DEF Bad
    <3>3. CASE f.name = "Host" /\ "Host" \in req.found
      <4>1. PICK i \in 1 .. m : gave[i].name = "Host"
        BY <1>3, <3>3 DEF Finished, FoundIs
      <4>2. m + 1 - 1 = m
        BY <1>2, UpToNext
      <4>. QED  BY <1>2, <3>3, <4>1, <4>2 DEF Bad
    <3>. QED  BY <1>2, <3>1, <3>2, <3>3 DEF GiveUp, Analysing
  <2>3. Ends(m)
    BY <1>3, <1>4, <2>2, NoneBad DEF Ends
  <2>. QED  BY <1>2, <2>1, <2>2, <2>3
<1>. QED  BY <1>5, <1>6

\* Otherwise all of them have been read.
LEMMA GotThrough ==
    ASSUME ReadingFields, EndHeaders
    PROVE  Ends(Len(gave)) /\ Analysed(Len(gave))
<1>1. Analysed(Len(gave))
  BY DEF ReadingFields, EndHeaders
<1>2. Len(gave) \in 0 .. Len(gave)
  <2>1. Len(gave) \in Nat
    BY DEF ReadingFields, LineKnown, Given
  <2>. QED  BY <2>1
<1>3. Finished(gave, Len(gave), req)
  BY <1>1 DEF Analysed
<1>. QED  BY <1>1, <1>2, <1>3, NoneBad DEF Ends

\* What is kept of a name is what its first field means.
LEMMA MeantIs ==
    ASSUME gave \in Seq(FieldLines), NEW name \in Kept, NEW found, NEW value, NEW none,
           FoundIs(gave, Len(gave), found), KeptIs(gave, Len(gave), name, found, value, none)
    PROVE  value = Meant(name, none)
<1>. DEFINE named == FieldsNamed(name)
<1>1. Len(gave) \in Nat /\ DOMAIN gave = 1 .. Len(gave) /\ named \subseteq DOMAIN gave
      /\ \A i \in named : gave[i].name = name
  BY DEF FieldsNamed
<1>2. Meant(name, none) = IF named = {} THEN none ELSE gave[Min(named)].is
  BY DEF Meant
<1>3. CASE named = {}
  <2>1. name \notin found
    BY <1>1, <1>3 DEF FoundIs, FieldsNamed
  <2>2. value = none
    BY <2>1 DEF KeptIs
  <2>. QED  BY <1>2, <1>3, <2>2
<1>4. CASE named # {}
  <2>. HIDE DEF named
  <2>1. named \subseteq Nat
    BY <1>1
  <2>2. Min(named) \in named /\ \A x \in named : Min(named) <= x
    BY <1>4, <2>1, MinOf
  <2>3. PICK i \in named : i = Min(named)
    BY <2>2
  <2>4. i \in DOMAIN gave /\ i \in 1 .. Len(gave) /\ gave[i].name = name
    BY <1>1
  <2>5. i \in Foremost(named)
    BY <2>2, <2>3 DEF Foremost
  <2>6. IsFirst(gave, i)
    BY <2>4, <2>5, ForemostIs DEF named
  <2>7. value = gave[i].is
    BY <2>4, <2>6 DEF KeptIs
  <2>. QED  BY <1>2, <1>4, <2>3, <2>7
<1>. QED  BY <1>3, <1>4

\* Of the names, those that are there.
LEMMA HostIsThere ==
    ASSUME gave \in Seq(FieldLines), Finished(gave, Len(gave), req)
    PROVE  /\ "Host" \in req.found => \E i \in FieldsNamed("Host") : FieldsNamed("Host") = {i}
           /\ "Host" \notin req.found => FieldsNamed("Host") = {}
<1>1. Len(gave) \in Nat /\ DOMAIN gave = 1 .. Len(gave)
  OBVIOUS
<1>2. FoundIs(gave, Len(gave), req.found) /\ Valid(gave, Len(gave))
  BY DEF Finished
<1>3. ASSUME "Host" \in req.found
      PROVE  \E i \in FieldsNamed("Host") : FieldsNamed("Host") = {i}
  <2>1. PICK i \in 1 .. Len(gave) : gave[i].name = "Host"
    BY <1>2, <1>3 DEF FoundIs
  <2>2. ASSUME NEW j \in 1 .. Len(gave), gave[j].name = "Host"  PROVE j = i
    <3>1. IsFirst(gave, i) /\ IsFirst(gave, j)
      BY <1>2, <2>1, <2>2 DEF Valid
    <3>2. ~(i \in 1 .. j - 1) /\ ~(j \in 1 .. i - 1)
      BY <2>1, <2>2, <3>1 DEF IsFirst
    <3>. QED  BY <1>1, <3>2
  <2>3. i \in FieldsNamed("Host") /\ \A j \in FieldsNamed("Host") : j = i
    BY <1>1, <2>1, <2>2 DEF FieldsNamed
  <2>. QED  BY <2>3
<1>4. ASSUME "Host" \notin req.found  PROVE FieldsNamed("Host") = {}
  BY <1>1, <1>2, <1>4, Kinds DEF FoundIs, FieldsNamed
<1>. QED  BY <1>3, <1>4

LEMMA HostMeans ==
    ASSUME gave \in Seq(FieldLines), AllPlain(gave), Finished(gave, Len(gave), req)
    PROVE  /\ "Host" \in req.found => req.header # <<>>
           /\ "Host" \notin req.found => req.header = <<>>
<1>1. Len(gave) \in Nat /\ DOMAIN gave = 1 .. Len(gave)
  OBVIOUS
<1>2. /\ FoundIs(gave, Len(gave), req.found) /\ Valid(gave, Len(gave))
      /\ KeptIs(gave, Len(gave), "Host", req.found, req.header, <<>>)
  BY DEF Finished
<1>3. ASSUME "Host" \in req.found  PROVE req.header # <<>>
  <2>1. PICK i \in 1 .. Len(gave) : gave[i].name = "Host"
    BY <1>2, <1>3 DEF FoundIs
  <2>2. IsFirst(gave, i) /\ ~gave[i].bad /\ ~gave[i].endless
    BY <1>2, <2>1 DEF Valid
  <2>3. req.header = gave[i].is
    BY <1>2, <2>1, <2>2 DEF KeptIs
  <2>4. PICK f \in FieldLines : f = gave[i]
    BY ElementOfSeq
  <2>5. f.plain /\ f.name = "Host" /\ ~f.bad /\ ~f.endless
    BY <1>1, <2>1, <2>2, <2>4 DEF AllPlain
  <2>6. f.is # <<>>
    BY <2>5, FieldMeans DEF MeansWhatIsRead
  <2>. QED  BY <2>3, <2>4, <2>6
<1>4. ASSUME "Host" \notin req.found  PROVE req.header = <<>>
  BY <1>2, <1>4 DEF KeptIs
<1>. QED  BY <1>3, <1>4

-------------------------------------------------------------------------------
(* The end of the head                                                         *)

Reasons ==
    LET one == \E i \in FieldsNamed("Host") : FieldsNamed("Host") = {i} IN
    asked.reasons \cup (IF one /\ ~\E i \in DOMAIN gave : Bad(i) THEN {} ELSE {400})

\* What is stated of a head that has been read, of a status.
Answered(s) ==
    asked.plain /\ AllPlain(gave) /\ (asked.host # <<>> => gave # <<>>) =>
        /\ IF Reasons = {} THEN s = 0 ELSE s \in Reasons
        /\ s = 0 =>
              /\ req.path = asked.path /\ req.query = asked.query /\ req.host = asked.host
              /\ req.header = Meant("Host", <<>>)
              /\ req.close = (\E i \in DOMAIN gave :
                                 gave[i].name = "Connection" /\ gave[i].is)
              /\ req.type = Meant("Content-Type", <<>>)
Framed ==
    AllPlain(gave) =>
        LET length == InFront(Foremost(FieldsNamed("Content-Length"))) IN
            /\ req.chunked = \E i \in InFront(FieldsNamed("Transfer-Encoding")) : gave[i].is
            /\ \A i \in length : written = gave[i].is
            /\ length = {} => written = 0

LEMMA Refuses ==
    ASSUME LineKnown, NEW s, 400 \in Reasons, s = 400 \/ (s = error /\ error # 0)
    PROVE  Answered(s)
<1>1. SUFFICES ASSUME asked.plain  PROVE s \in Reasons /\ s # 0
  BY DEF Answered
<1>2. asked \in RequestLines /\ 0 \notin asked.reasons
  BY LinesAssumption DEF LineKnown, Given
<1>3. CASE s = 400
  BY <1>3
<1>4. CASE s = error /\ error # 0
  <2>1. error \in asked.reasons
    BY <1>1, <1>4 DEF LineKnown, LineRead
  <2>. QED  BY <1>4, <2>1 DEF Reasons
<1>. QED  BY <1>3, <1>4

LEMMA GiveUpAnswers ==
    ASSUME ReadingFields, GiveUp
    PROVE  Answered(status') /\ Framed
<1>1. PICK m \in Nat : /\ Ends(m) /\ LengthIs(gave, m, req, written)
                       /\ m + 1 \in DOMAIN gave /\ Bad(m + 1)
  BY GivenUp
<1>2. LineKnown /\ gave \in Seq(FieldLines) /\ IsRequest(req)
  BY DEF ReadingFields, LineKnown, Given
<1>3. status' = 400 \/ (status' = error /\ error # 0)
  BY DEF GiveUp, Finish
<1>4. 400 \in Reasons
  BY <1>1 DEF Reasons
<1>5. Answered(status')
  <2>1. PICK s : s = status'
    OBVIOUS
  <2>2. Answered(s)
    BY <1>2, <1>3, <1>4, <2>1, Refuses
  <2>. QED  BY <2>1, <2>2
<1>6. Framed
  BY <1>1, <1>2, FramingRead DEF Framed
<1>. QED  BY <1>5, <1>6

LEMMA EndAnswers ==
    ASSUME ReadingFields, EndHeaders
    PROVE  Answered(status') /\ Framed
<1>1. Ends(Len(gave)) /\ Analysed(Len(gave))
  BY GotThrough
<1>2. LineKnown /\ gave \in Seq(FieldLines) /\ IsRequest(req) /\ LineRead /\ asked \in RequestLines
  BY DEF ReadingFields, LineKnown, Given
<1>3. /\ Finished(gave, Len(gave), req) /\ CloseIs(gave, Len(gave), req)
      /\ LengthIs(gave, Len(gave), req, written)
  BY <1>1 DEF Analysed
<1>4. PICK s : s = status'
  OBVIOUS
<1>5. s = IF req.host = <<>> /\ req.header = <<>> THEN 400
          ELSE IF error # 0 \/ parsing = "done" \/ "Host" \in req.found THEN error ELSE 400
  BY <1>4 DEF EndHeaders, Finish
<1>6. Answered(s)
  <2>1. SUFFICES ASSUME asked.plain, AllPlain(gave), asked.host # <<>> => gave # <<>>
                 PROVE  Answered(s)
    BY DEF Answered
  <2>2. 0 \notin asked.reasons
    BY <1>2, LinesAssumption
  <2>3. IF asked.reasons # {} THEN error \in asked.reasons
        ELSE /\ error = 0 /\ req.host = asked.host
             /\ req.path = asked.path /\ req.query = asked.query
    BY <1>2, <2>1 DEF LineRead
  <2>4. CASE "Host" \in req.found
    <3>1. s = error
      BY <1>2, <1>3, <1>5, <2>1, <2>4, HostMeans
    <3>2. \A i \in DOMAIN gave : ~Bad(i)
      <4>1. DOMAIN gave = 1 .. Len(gave)
        BY <1>2
      <4>. QED  BY <1>3, <4>1, NoneBad
    <3>3. Reasons = asked.reasons
      BY <1>2, <1>3, <2>4, <3>2, HostIsThere DEF Reasons
    <3>4. req.header = Meant("Host", <<>>) /\ req.type = Meant("Content-Type", <<>>)
      <4>1. /\ KeptIs(gave, Len(gave), "Host", req.found, req.header, <<>>)
            /\ KeptIs(gave, Len(gave), "Content-Type", req.found, req.type, <<>>)
            /\ FoundIs(gave, Len(gave), req.found)
        BY <1>3, <2>1 DEF Finished
      <4>. QED  BY <1>2, <4>1, Kinds, MeantIs
    <3>5. req.close = (\E i \in DOMAIN gave : gave[i].name = "Connection" /\ gave[i].is)
      <4>1. DOMAIN gave = 1 .. Len(gave)
        BY <1>2
      <4>2. req.close <=> \E i \in DOMAIN gave : gave[i].name = "Connection" /\ gave[i].is
        BY <1>3, <2>1, <4>1 DEF CloseIs, AnyOf
      <4>3. req.close \in BOOLEAN
        BY <1>2 DEF IsRequest
      <4>. QED  BY <4>2, <4>3
    <3>. QED  BY <2>2, <2>3, <3>1, <3>3, <3>4, <3>5 DEF Answered
  <2>5. CASE "Host" \notin req.found
    <3>1. req.header = <<>>
      BY <1>2, <1>3, <2>1, <2>5, HostMeans
    <3>2. 400 \in Reasons
      BY <1>2, <1>3, <2>5, HostIsThere DEF Reasons
    <3>3. s = 400 \/ (s = error /\ error # 0)
      <4>1. CASE parsing = "done" /\ error = 0
        <5>1. gave = <<>>
          BY <4>1 DEF ReadingFields
        <5>2. req.host = <<>>
          BY <2>1, <2>2, <2>3, <4>1, <5>1
        <5>. QED  BY <1>5, <3>1, <5>2
      <4>. QED  BY <1>5, <2>5, <4>1
    <3>. QED  BY <1>2, <3>2, <3>3, Refuses
  <2>. QED  BY <2>4, <2>5
<1>7. Framed
  BY <1>1, <1>2, <1>3, FramingRead DEF Framed
<1>. QED  BY <1>4, <1>6, <1>7

HeadStated == ReadAsWritten /\ FramedAsWritten

\* What the client means is the same as long as it writes nothing.
LEMMA SameMeaning ==
    ASSUME gave' = gave, asked' = asked
    PROVE  /\ Reasons' = Reasons
           /\ Meant("Host", <<>>)' = Meant("Host", <<>>)
           /\ Meant("Content-Type", <<>>)' = Meant("Content-Type", <<>>)
           /\ InFront(Foremost(FieldsNamed("Content-Length")))'
                = InFront(Foremost(FieldsNamed("Content-Length")))
           /\ InFront(FieldsNamed("Transfer-Encoding"))'
                = InFront(FieldsNamed("Transfer-Encoding"))
<1>1. \A i : Bad(i)' <=> Bad(i)
  BY DEF Bad
<1>2. /\ FieldsNamed("Host")' = FieldsNamed("Host")
      /\ FieldsNamed("Content-Type")' = FieldsNamed("Content-Type")
      /\ FieldsNamed("Content-Length")' = FieldsNamed("Content-Length")
      /\ FieldsNamed("Transfer-Encoding")' = FieldsNamed("Transfer-Encoding")
  BY DEF FieldsNamed
<1>3. Reasons' = Reasons
  BY <1>1, <1>2 DEF Reasons
<1>4. /\ Meant("Host", <<>>)' = Meant("Host", <<>>)
      /\ Meant("Content-Type", <<>>)' = Meant("Content-Type", <<>>)
  BY <1>2 DEF Meant
<1>5. /\ InFront(Foremost(FieldsNamed("Content-Length")))'
           = InFront(Foremost(FieldsNamed("Content-Length")))
      /\ InFront(FieldsNamed("Transfer-Encoding"))' = InFront(FieldsNamed("Transfer-Encoding"))
  BY <1>1, <1>2 DEF InFront, Foremost
<1>. QED  BY <1>3, <1>4, <1>5

LEMMA FinishStated ==
    ASSUME HeadInv, GiveUp \/ EndHeaders
    PROVE  HeadInv' /\ HeadStated'
<1>1. /\ phase = "headers" /\ phase' = "read"
      /\ gave' = gave /\ asked' = asked /\ slipped' = slipped /\ req' = req
      /\ written' = written
  BY DEF GiveUp, EndHeaders, Analysing, Finish, message, sizes
<1>2. HeadInv'
  BY <1>1 DEF HeadInv
<1>3. CASE slipped
  <2>1. slipped'
    BY <1>1, <1>3
  <2>2. HeadStated'
    BY <2>1 DEF HeadStated, ReadAsWritten, FramedAsWritten
  <2>. QED  BY <1>2, <2>2
<1>4. CASE ~slipped
  <2>1. ReadingFields
    BY <1>1, <1>4 DEF HeadInv
  <2>2. Answered(status') /\ Framed
    BY <2>1, GiveUpAnswers, EndAnswers
  <2>3. PICK s : s = status'
    OBVIOUS
  <2>4. Answered(s)
    BY <2>2, <2>3
  <2>5. ReadAsWritten'
    <3>1. Answered(s)'
      BY <1>1, <2>4, SameMeaning DEF Answered, AllPlain
    <3>. QED  BY <1>1, <2>3, <3>1, Zenon DEF ReadAsWritten, Answered, Reasons, AllPlain
  <2>6. FramedAsWritten'
    <3>1. Framed'
      BY <1>1, <2>2, SameMeaning DEF Framed, AllPlain
    <3>. QED  BY <1>1, <3>1, Zenon DEF FramedAsWritten, Framed, AllPlain
  <2>. QED  BY <2>5, <2>6, <1>2 DEF HeadStated
<1>. QED  BY <1>3, <1>4

\* Where reading goes on for ever, there is nothing to state.
LEMMA LoopStated ==
    ASSUME HeadInv, Loop
    PROVE  HeadInv' /\ HeadStated'
<1>1. phase' = "loops"
  BY DEF Loop
<1>. QED  BY <1>1 DEF HeadInv, HeadStated, ReadAsWritten, FramedAsWritten

\* The steps that do not end the head have nothing of it to state.
LEMMA StillReading ==
    ASSUME phase' # "read"
    PROVE  HeadStated'
BY DEF HeadStated, ReadAsWritten, FramedAsWritten

LEMMA SameHeadStated ==
    ASSUME HeadStated, UNCHANGED <<phase, asked, gave, slipped, req, status, written>>
    PROVE  HeadStated'
<1>2. ReadAsWritten'
  <2>1. CASE phase = "read" /\ ~slipped
    <3>1. PICK s : s = status
      OBVIOUS
    <3>2. Answered(s)
      BY <2>1, <3>1, Zenon DEF HeadStated, ReadAsWritten, Answered, Reasons, AllPlain
    <3>3. Answered(s)'
      BY <3>2, SameMeaning DEF Answered, AllPlain
    <3>4. s = status'
      BY <3>1
    <3>. QED  BY <3>3, <3>4, Zenon DEF ReadAsWritten, Answered, Reasons, AllPlain
  <2>2. CASE ~(phase = "read" /\ ~slipped)
    <3>1. ~(phase' = "read" /\ ~slipped')
      BY <2>2
    <3>. QED  BY <3>1, Zenon DEF ReadAsWritten
  <2>. QED  BY <2>1, <2>2
<1>3. FramedAsWritten'
  BY SameMeaning DEF HeadStated, FramedAsWritten
<1>. QED  BY <1>2, <1>3 DEF HeadStated

LEMMA NextHead == HeadInv /\ HeadStated /\ [Next]_vars => HeadInv' /\ HeadStated'
<1>. SUFFICES ASSUME HeadInv, HeadStated, [Next]_vars
              PROVE  HeadInv' /\ HeadStated'
  OBVIOUS
<1>1. CASE WriteRequestLine \/ WriteField \/ EndHead
  <2>1. phase' \in {"write", "sent"}
    BY <1>1 DEF WriteRequestLine, WriteField, EndHead
  <2>. QED  BY <1>1, <2>1, StillReading, WriteRequestLineHead, WriteFieldHead, EndHeadHead
<1>2. CASE Slip
  BY <1>2 DEF Slip, HeadInv, HeadStated, ReadAsWritten, FramedAsWritten
<1>3. CASE ReadRequestLine \/ RefuseRequestLine
  <2>1. phase' \in {"fields", "headers", "refused"}
    BY <1>3 DEF ReadRequestLine, RefuseRequestLine
  <2>. QED  BY <1>3, <2>1, StillReading, ReadRequestLineHead, RefuseRequestLineHead
<1>4. CASE ClearForFields \/ TakeLine \/ KeepField \/ DropField \/ EndOfFields
  <2>1. phase' \in {"fields", "headers"}
    BY <1>4 DEF ClearForFields, TakeLine, KeepField, DropField, EndOfFields
  <2>. QED  BY <1>4, <2>1, StillReading, ClearForFieldsHead, TakeLineHead, KeepFieldHead,
               DropFieldHead, EndOfFieldsHead
<1>5. CASE BeginAnalysis \/ FieldHost \/ FieldContentType \/ FieldTransferEncoding
           \/ FieldConnection \/ ListedOption \/ LengthDigit \/ FieldContentLength
           \/ OtherField
  <2>1. phase' = "headers"
    BY <1>5 DEF BeginAnalysis, FieldHost, FieldContentType, FieldTransferEncoding,
                FieldConnection, ListedOption, LengthDigit, FieldContentLength, OtherField,
                Keep, Analysing
  <2>. QED  BY <1>5, <2>1, StillReading, BeginAnalysisHead, FieldHostHead,
               FieldContentTypeHead, FieldTransferEncodingHead, FieldConnectionHead,
               ListedOptionHead, LengthDigitHead, FieldContentLengthHead, OtherFieldHead
<1>6. CASE Loop \/ GiveUp \/ EndHeaders
  BY <1>6, LoopStated, FinishStated
<1>7. CASE BeginBody \/ ReadBody
  <2>1. phase' = "body"
    BY <1>7 DEF BeginBody, ReadBody
  <2>2. HeadInv'
    BY <2>1 DEF HeadInv
  <2>. QED  BY <2>1, <2>2, StillReading
<1>8. CASE UNCHANGED vars
  <2>1. /\ UNCHANGED <<phase, buf, sent, asked, gave, slipped, fields, error, input, req, status>>
        /\ UNCHANGED <<parsing, lines, analysed, written>>
    BY <1>8 DEF vars, message, arena, sizes
  <2>2. HeadStated'
    BY <2>1, SameHeadStated
  <2>3. HeadInv'
    BY <2>1 DEF HeadInv, Writing, Sending, Fresh, Sent, Given, ReadingLines, ReadingFields,
                LineKnown, LineRead, Matched, Analysed, Current
  <2>. QED  BY <2>2, <2>3
<1>. QED  BY <1>1, <1>2, <1>3, <1>4, <1>5, <1>6, <1>7, <1>8 DEF Next

LEMMA HeadAlways == Spec => [](HeadInv /\ HeadStated)
<1>1. Init => HeadStated
  BY DEF Init, HeadStated, ReadAsWritten, FramedAsWritten
<1>. QED  BY <1>1, InitHead, NextHead, PTL DEF Spec

\* A head that the grammar allows, of any length and of any request lines and fields that
\* are read as they are meant one by one, is answered for a reason it gives or taken for
\* the request it is (Parser.cpp:73-280, ClientLifespan.cpp:81-103).
THEOREM ReadAsWrittenAlways == Spec => []ReadAsWritten
<1>1. HeadInv /\ HeadStated => ReadAsWritten
  BY DEF HeadStated
<1>. QED  BY <1>1, HeadAlways, PTL

\* And the framing of its body is that of its first Content-Length and of its codings, as
\* far as no field in front of them is refused (Parser.cpp:164-280).
THEOREM FramedAsWrittenAlways == Spec => []FramedAsWritten
<1>1. HeadInv /\ HeadStated => FramedAsWritten
  BY DEF HeadStated
<1>. QED  BY <1>1, HeadAlways, PTL
==============================================================================

------------------------------- MODULE BodyLimit -------------------------------
(***************************************************************************)
(* The size of a body against client_max_body_size: the numbers of         *)
(* Content-Length and of the chunk-size lines are computed in an int       *)
(* without a check (ParseFieldContentLength, ParseChunkSizeLine), and      *)
(* main.cpp compares them with a limit that is a size_t.                   *)
(*                                                                         *)
(* An int that overflows wraps, as it does in the program that is built.   *)
(* `written` is the number in the message and `total` what its numbers add *)
(* up to, neither of which the program has.                                *)
(***************************************************************************)
EXTENDS Integers

CONSTANTS
    IntMax,         \* the largest int
    SizeMax,        \* the largest size_t
    Limits,         \* values of client_max_body_size
    MaxWritten      \* bound on the numbers and on their sum

VARIABLES
    limit,          \* clt->max_body_size
    framing,        \* "none", "length", or "chunked": is_chunked
    number,         \* content() of Content-Length, or chunk_size
    written,        \* and what the message says
    body,           \* requestBody_.size()
    total,          \* the size of the body in the message
    exceeded,       \* exceed_max_body_size
    sound,          \* every number so far is the one in the message
    verdict         \* "open", "accepted", "refused" (413), "lost"

sizes == <<limit, framing, number, written, body, total, exceeded, sound, verdict>>

ASSUME SizeAssumption ==
    /\ IntMax \in Nat /\ SizeMax \in Nat /\ IntMax < SizeMax
    /\ MaxWritten \in Nat
    /\ \A m \in Limits : m \in Nat /\ m + IntMax <= SizeMax

\* What an int and a size_t hold of a number.
ToInt(n) ==
    IF n \in -(IntMax + 1) .. IntMax THEN n
    ELSE ((n + IntMax + 1) % (2 * (IntMax + 1))) - (IntMax + 1)
ToSize(n) == IF n \in 0 .. SizeMax THEN n ELSE n % (SizeMax + 1)

InitSize ==
    /\ limit = 0 /\ framing = "none"
    /\ number = 0 /\ written = 0 /\ body = 0 /\ total = 0
    /\ exceeded = FALSE /\ sound = TRUE /\ verdict = "open"

\* CheckHeaderBeforeProcess(): the head has been read, and its length counts.
FrameLength ==
    /\ framing = "none"
    /\ framing' = "length" /\ limit' \in Limits
    /\ UNCHANGED <<number, written, body, total, exceeded, sound, verdict>>

\* Or it is chunked: ParseChunkSizeLine() begins with zero.
FrameChunked ==
    /\ framing = "none"
    /\ framing' = "chunked" /\ limit' \in Limits
    /\ number' = 0 /\ written' = 0 /\ sound' = TRUE
    /\ UNCHANGED <<body, total, exceeded, verdict>>

\* A digit of Content-Length, to the base 10, or of a chunk-size line, to the base 16.
ReadDigit(base, d) ==
    /\ verdict = "open"
    /\ written * base + d + total <= MaxWritten
    /\ number' = ToInt(number * base + d)
    /\ written' = written * base + d
    /\ sound' = (sound /\ number' = written')
    /\ UNCHANGED <<limit, framing, body, total, exceeded, verdict>>

\* A letter from a to f, or a digit, in a chunk extension is one more digit of the size.
ReadExtension(d) ==
    /\ framing = "chunked" /\ verdict = "open"
    /\ number' = ToInt(number * 16 + d)
    /\ sound' = (sound /\ number' = written)
    /\ UNCHANGED <<limit, framing, written, body, total, exceeded, verdict>>

\* content_length->content() > (int)max_body_size.  A length below zero is a size_t
\* that no buffer reaches.
JudgeLength ==
    /\ framing = "length" /\ verdict = "open"
    /\ exceeded' = (number > ToInt(limit))
    /\ verdict' = IF exceeded' THEN "refused" ELSE IF number < 0 THEN "lost" ELSE "accepted"
    /\ total' = written
    /\ body' = IF verdict' = "accepted" THEN number ELSE 0
    /\ UNCHANGED <<limit, framing, number, written, sound>>

\* Mutant of TakeChunk: what is compared is the chunk.
TakeChunkAlone ==
    /\ framing = "chunked" /\ verdict = "open"
    /\ number > 0 /\ number = written
    /\ exceeded' = (exceeded \/ number > limit)
    /\ body' = IF exceeded' THEN body ELSE body + number
    /\ total' = total + written
    /\ number' = 0 /\ written' = 0
    /\ UNCHANGED <<limit, framing, sound, verdict>>

\* A chunk and its data: requestBody_.size() + chunk_size > max_body_size.
TakeChunk ==
    /\ framing = "chunked" /\ verdict = "open"
    /\ number > 0 /\ number = written
    /\ exceeded' = (exceeded \/ ToSize(body + number) > limit)
    /\ body' = IF exceeded' THEN body ELSE body + number
    /\ total' = total + written
    /\ number' = 0 /\ written' = 0
    /\ UNCHANGED <<limit, framing, sound, verdict>>

\* The last chunk, or a number that wraps to zero, and the end of the trailers.
LastChunk ==
    /\ framing = "chunked" /\ verdict = "open"
    /\ number = 0
    /\ verdict' = IF exceeded THEN "refused" ELSE "accepted"
    /\ total' = total + written
    /\ UNCHANGED <<limit, framing, number, written, body, exceeded, sound>>

\* The data is not as long as the number: what comes next depends on the data.  One
\* below zero ends the loop, with the rest of the buffer in the body if its line end
\* is found where it is looked for.
LoseTrack ==
    /\ framing = "chunked" /\ verdict = "open"
    /\ number # 0 /\ number # written
    /\ exceeded' = (exceeded \/ ToSize(body + number) > limit)
    /\ verdict' = "lost"
    /\ UNCHANGED <<limit, framing, number, written, body, total, sound>>

NextSize ==
    \/ FrameLength \/ FrameChunked
    \/ \E d \in 0 .. 9 : framing = "none" /\ ReadDigit(10, d)
    \/ \E d \in 0 .. 15 : framing = "chunked" /\ ReadDigit(16, d)
    \/ \E d \in 0 .. 15 : ReadExtension(d)
    \/ JudgeLength \/ TakeChunk \/ LastChunk \/ LoseTrack

SpecSize == InitSize /\ [][NextSize]_sizes

-------------------------------------------------------------------------------
(* Properties                                                                  *)

\* A body is taken exactly if it is not longer than the limit, and then all of it
\* is: with chunks, unless the size of one is more than an int can hold or has an
\* extension that counts, and with a length, unless it or the limit is more than an
\* int can hold (main.cpp:366-436, 494).
LimitKept ==
    (sound /\ (framing = "length" => limit <= IntMax)) =>
        /\ verdict = "accepted" => total <= limit /\ body = total
        /\ verdict = "refused" => total > limit
        /\ verdict # "lost"
=============================================================================

----------------------------- MODULE HttpRequests ------------------------------
(***************************************************************************)
(* Requests: how a peer writes them as bytes and which answers to them are *)
(* acceptable.                                                             *)
(*                                                                         *)
(* A byte sequence is a sequence of tokens.  CR, LF, hexadecimal digits and *)
(* the bytes of a body are tokens of their own, because the reader counts  *)
(* and cuts them; a request line and a field line are one token each.      *)
(***************************************************************************)
EXTENDS Naturals, Sequences, SequencesExt

CONSTANTS
    MaxBody     \* client_max_body_size of the location

CRLF == <<"CR", "LF">>

\* What the request lines stand for: an existing file, an upload, a file that is
\* not there, a method the location forbids, a method nobody knows, no request
\* line at all.
Lines == {"GET", "POST", "GONE", "DENIED", "PUT", "BAD"}

\* Field lines; "Length2" is Content-Length: 2, "Field" any other.
Lengths == [n \in {"Length0", "Length1", "Length2", "Length3"} |->
               CASE n = "Length0" -> 0 [] n = "Length1" -> 1
                 [] n = "Length2" -> 2 [] n = "Length3" -> 3]
Fields  == {"Host", "Close", "Chunked", "Field"} \cup DOMAIN Lengths

\* A line no parser of field lines takes.
Junk == <<"!", "!", "!">>

Digit   == [d \in {"0", "1", "2", "3"} |->
               CASE d = "0" -> 0 [] d = "1" -> 1 [] d = "2" -> 2 [] d = "3" -> 3]
InHex   == [n \in 0 .. 3 |-> CHOOSE d \in DOMAIN Digit : Digit[d] = n]

(***************************************************************************)
(* A request: its line, its field lines, its body as chunks and the field  *)
(* lines of its trailer.  A chunk says its size, rightly or wrongly.       *)
(***************************************************************************)
Has(r, f)     == f \in ToSet(r.fields)
Chunked(r)    == Has(r, "Chunked")
WithLength(r) == \E n \in DOMAIN Lengths : Has(r, n)
Data(r)       == FlattenSeq([i \in DOMAIN r.chunks |-> r.chunks[i].data])

ChunkBytes(c) == <<InHex[c.size]>> \o (CRLF \o (c.data \o CRLF))
LineBytes(fs) == FlattenSeq([i \in DOMAIN fs |->
                     (IF fs[i] = "Junk" THEN Junk ELSE <<fs[i]>>) \o CRLF])

\* The last chunk and what follows it; the body; the request.
EndBytes(r)  == <<"0">> \o (CRLF \o (LineBytes(r.trailer) \o CRLF))
BodyBytes(r) ==
    IF Chunked(r)
    THEN FlattenSeq([i \in DOMAIN r.chunks |-> ChunkBytes(r.chunks[i])]) \o EndBytes(r)
    ELSE Data(r)
Bytes(r)     == LineBytes(<<r.line>> \o r.fields) \o (CRLF \o BodyBytes(r))

\* The error a request has before its body is looked at, 0 if none.
HeadStatus(r) ==
    IF ~Has(r, "Host") THEN 400
    ELSE CASE r.line = "PUT"     -> 501
           [] r.line = "DENIED"  -> 405
           [] r.line = "GONE"    -> 404
           [] r.line = "POST" /\ ~Chunked(r) /\ ~WithLength(r) -> 411
           [] OTHER              -> 0

\* Without a Host there is no location, and no limit but the default.
TooLong(r) == Has(r, "Host") /\ Len(Data(r)) > MaxBody

Broken(r) ==
    \/ r.line = "BAD" \/ Has(r, "Junk")
    \/ \E i \in DOMAIN r.chunks : r.chunks[i].size # Len(r.chunks[i].data)

Refusal(status) == [status |-> status, body |-> <<>>]

\* The answers the rules of the protocol leave: 413 may hide another error, and
\* when both are due either will do.
Due(r) ==
    CASE Broken(r)                            -> {Refusal(400)}
      [] ~Broken(r) /\ HeadStatus(r) # 0      ->
            {Refusal(HeadStatus(r))} \cup (IF TooLong(r) THEN {Refusal(413)} ELSE {})
      [] ~Broken(r) /\ HeadStatus(r) = 0      ->
            IF TooLong(r) THEN {Refusal(413)} ELSE {[status |-> 200, body |-> Data(r)]}

\* The reader also refuses a chunked request whose end comes in pieces.
Acceptable(r) == Due(r) \cup (IF Chunked(r) THEN {Refusal(400)} ELSE {})

\* Whether the connection may be kept after this answer.
MayKeep(r, a, kept) ==
    /\ a.status = 200 => kept = ~Has(r, "Close")
    /\ a.status = 413 => ~kept
    /\ a.status \in {404, 405, 411, 501} => kept
    /\ a.status = 400 /\ Broken(r) => ~kept
    /\ a.status = 400 /\ ~Broken(r) /\ ~Chunked(r) => kept
=============================================================================

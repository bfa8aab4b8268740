----------------------------- MODULE RequestReader -----------------------------
(***************************************************************************)
(* How main() cuts requests out of the bytes of one connection: the POLLIN *)
(* branch of the serve loop (src/src/main.cpp:243-521), with the analysis  *)
(* of the head (src/src/Http/Parser.cpp), CheckHeaderBeforeProcess() and   *)
(* ResetClient() (src/src/ClientLifespan.cpp).                             *)
(*                                                                         *)
(* `wire` holds the bytes sent and not yet received, `buf` is req_buf.     *)
(* recv() takes any number of bytes; then one handler runs to its end,     *)
(* here as the steps "head", "chunks", "trailer" and "length", between     *)
(* which nothing else can happen to the connection.  What the response     *)
(* says is left to other modules: an answer is a status and the body that  *)
(* ProcessRequest() is given.                                              *)
(***************************************************************************)
EXTENDS HttpRequests, FiniteSetsExt

CONSTANTS
    Streams,     \* the sequences of requests a peer may send
    Pipelined,   \* the peer sends a request before the answer to the last one
    MaxRecv,     \* BUF_SIZE: the bytes one recv() takes at most
    DefaultMax   \* kDefaultClientMaxBodySize

ASSUME ReaderAssumption ==
    /\ MaxRecv \in Nat \ {0} /\ MaxBody \in Nat /\ DefaultMax \in Nat
    /\ Pipelined \in BOOLEAN

VARIABLES
    stream, sent,  \* the requests of the peer, and how many it has sent
    wire,          \* bytes sent and not yet received
    buf,           \* req_buf
    pc,            \* "wait": POLLIN; "head", "chunks", "trailer", "length": inside
                   \* the handler; "answer": POLLOUT; "closed"
    clt,           \* the fields of struct Client the reader uses
    answers        \* calls of ProcessRequest()

peer == <<stream, sent>>
vars == <<stream, sent, wire, buf, pc, clt, answers>>

(***************************************************************************)
(* `status` 0 is k000; `close` stands for a Connection: close among the    *)
(* headers; `content_length` is also the value of the header, 0 if none.   *)
(***************************************************************************)
FreshClient ==
    [status |-> 0, keepAlive |-> TRUE, continue_reading |-> FALSE, is_chunked |-> FALSE,
     is_chunk_end |-> FALSE, exceed |-> FALSE, consume |-> TRUE, max |-> DefaultMax,
     content_length |-> 0, close |-> FALSE, body |-> <<>>]

Init ==
    /\ stream \in Streams /\ sent = 0
    /\ wire = <<>> /\ buf = <<>>
    /\ pc = "wait" /\ clt = FreshClient /\ answers = <<>>

-------------------------------------------------------------------------------
(* Bytes                                                                       *)

\* std::string::find, 0 when there is none; erase(0, n).
Find(pat, s) ==
    LET found == {i \in 1 .. (Len(s) - Len(pat) + 1) : SubSeq(s, i, i + Len(pat) - 1) = pat}
    IN  IF found = {} THEN 0 ELSE Min(found)
EraseFront(s, n) == SubSeq(s, n + 1, Len(s))

\* ScanNewLine() at a position of the buffer.
NewLineAt(s, i) == i + 1 <= Len(s) /\ s[i] = "CR" /\ s[i + 1] = "LF"

\* The CRLFs in front of a request line, and what stands behind them.
LeadingNewLines(s) ==
    Max({k \in 0 .. (Len(s) \div 2) : \A j \in 1 .. k : NewLineAt(s, 2 * j - 1)})

Stripped(s) == EraseFront(s, 2 * LeadingNewLines(s))

\* How many field lines the buffer starts with.
FieldLines(s) ==
    Max({k \in 0 .. (Len(s) \div 3) :
            \A j \in 1 .. k : s[3 * j - 2] \in Fields /\ NewLineAt(s, 3 * j - 1)})

\* ParseChunkSizeLine() reads every hexadecimal digit of the line and skips the
\* other bytes.
ChunkSize(line) ==
    FoldLeft(LAMBDA n, b : IF b \in DOMAIN Digit THEN n * 16 + Digit[b] ELSE n, 0, line)

-------------------------------------------------------------------------------
(* The peer, recv() and the call of ProcessRequest()                           *)

Send ==
    /\ sent < Len(stream)
    /\ Pipelined \/ Len(answers) = sent
    /\ sent' = sent + 1
    /\ wire' = wire \o Bytes(stream[sent'])
    /\ UNCHANGED <<stream, buf, pc, clt, answers>>

\* recv_append(); at the start of a request the empty lines in front of it go.
Recv ==
    /\ pc = "wait"
    /\ \E n \in 1 .. Min({MaxRecv, Len(wire)}) :
          /\ buf' = IF clt.continue_reading THEN buf \o SubSeq(wire, 1, n)
                    ELSE Stripped(buf \o SubSeq(wire, 1, n))
          /\ wire' = EraseFront(wire, n)
    /\ pc' = CASE ~clt.continue_reading                  -> "head"
               [] clt.continue_reading /\ ~clt.is_chunked -> "length"
               [] clt.continue_reading /\ clt.is_chunked  ->
                     IF clt.is_chunk_end THEN "trailer" ELSE "chunks"
    /\ UNCHANGED <<peer, clt, answers>>

\* The handler ends: the loop goes on to the next client.
Await(c) ==
    /\ pc' = "wait" /\ clt' = c
    /\ UNCHANGED <<peer, wire, answers>>

\* process::ProcessRequest(), then POLLOUT.  Connection: close is only looked at
\* when there is no error.
Process(c) ==
    /\ pc' = "answer"
    /\ clt' = [c EXCEPT !.keepAlive = @ /\ ~(c.status = 0 /\ c.close)]
    /\ answers' = Append(answers,
          IF c.status = 0 THEN [status |-> 200, body |-> c.body] ELSE Refusal(c.status))
    /\ UNCHANGED <<peer, wire>>

\* An error that ends the connection.
Refuse(c, status) == Process([c EXCEPT !.status = status, !.keepAlive = FALSE])

-------------------------------------------------------------------------------
(* The head of a request                                                       *)

InHead == pc = "head"

HeadAwaited ==
    /\ InHead
    /\ Find(CRLF \o CRLF, buf) = 0
    /\ Await(clt)
    /\ UNCHANGED buf

LineRejected ==
    /\ InHead
    /\ Find(CRLF \o CRLF, buf) # 0
    /\ buf[1] \notin Lines \ {"BAD"}
    /\ Refuse(clt, 400)
    /\ UNCHANGED buf

\* AnalysisRequestHeaders() stops at a second Host; the first of several equal
\* headers counts.
SecondHost(fs) == {i \in DOMAIN fs : fs[i] = "Host" /\ \E j \in 1 .. (i - 1) : fs[j] = "Host"}
Analysed(fs)   == IF SecondHost(fs) = {} THEN fs ELSE SubSeq(fs, 1, Min(SecondHost(fs)) - 1)
LengthsAt(fs)  == {i \in DOMAIN Analysed(fs) : Analysed(fs)[i] \in DOMAIN Lengths}
LengthIn(fs)   == IF LengthsAt(fs) = {} THEN 0 ELSE Lengths[Analysed(fs)[Min(LengthsAt(fs))]]

\* The error of the request line, then of the headers, if there are any at all.
ParseStatus(line, found, fs) ==
    CASE line = "PUT" -> 501
      [] line # "PUT" /\ found /\ (SecondHost(fs) # {} \/ "Host" \notin ToSet(fs)) -> 400
      [] OTHER -> 0

\* CheckHeaderBeforeProcess(): no Host, a forbidden method, no such file, no
\* Content-Length.
CheckStatus(status, line, headers) ==
    CASE "Host" \notin headers -> 400
      [] "Host" \in headers /\ status = 0 /\ line = "DENIED" -> 405
      [] "Host" \in headers /\ status = 0 /\ line = "GONE"   -> 404
      [] "Host" \in headers /\ line = "POST"
            /\ headers \cap ({"Chunked"} \cup DOMAIN Lengths) = {} -> 411
      [] OTHER -> status

\* The client after a head: its line, whether there are headers, and which.
HeadOf(line, found, fs) ==
    LET headers == ToSet(Analysed(fs))
        status  == CheckStatus(ParseStatus(line, found, fs), line, headers)
        chunked == "Chunked" \in headers
    IN  [clt EXCEPT !.status = status, !.consume = status = 0,
                    !.close = "Close" \in headers,
                    !.is_chunked = chunked, !.continue_reading = chunked,
                    !.max = IF "Host" \in headers THEN MaxBody ELSE @,
                    !.content_length = LengthIn(fs)]

LineTaken   == InHead /\ Find(CRLF \o CRLF, buf) # 0 /\ buf[1] \in Lines \ {"BAD"}
After       == EraseFront(buf, 3)
HeadDone(c) ==
    /\ clt' = c
    /\ pc' = IF c.is_chunked THEN "chunks" ELSE "length"
    /\ UNCHANGED <<peer, wire, answers>>

HeadRead ==
    /\ LineTaken
    /\ Find(CRLF \o CRLF, After) # 0
    /\ \E k \in {FieldLines(After)} :
          /\ buf' = EraseFront(After, 3 * k + 2)
          /\ \E c \in {HeadOf(buf[1], TRUE, [i \in 1 .. k |-> After[3 * i - 2]])} : HeadDone(c)

\* A request line, an empty line and nothing more: no headers are looked for.
HeadBare ==
    /\ LineTaken
    /\ Find(CRLF \o CRLF, After) = 0
    /\ buf' = After
    /\ HeadDone(HeadOf(buf[1], FALSE, <<>>))

-------------------------------------------------------------------------------
(* A chunked body                                                              *)

InChunks == pc = "chunks"
LineEnd  == Find(CRLF, buf)
Size     == ChunkSize(SubSeq(buf, 1, LineEnd - 1))
Before   == LineEnd + 1                     \* bytes_before_chunk_data
Entire   == Before + Size + 2               \* bytes_entire_chunk

\* Mutant: the limit is for each chunk.
MeasuredAlone == [clt EXCEPT !.exceed = @ \/ Size > clt.max]

Measured == [clt EXCEPT !.exceed = @ \/ Len(clt.body) + Size > clt.max]

SizeAwaited ==
    /\ InChunks
    /\ LineEnd = 0
    /\ Await(clt)
    /\ UNCHANGED buf

LastChunk ==
    /\ InChunks
    /\ LineEnd # 0 /\ Size = 0
    /\ buf' = EraseFront(buf, Before)
    /\ clt' = [clt EXCEPT !.is_chunk_end = TRUE]
    /\ pc' = IF buf' = <<>> THEN "wait" ELSE "trailer"
    /\ UNCHANGED <<peer, wire, answers>>

ChunkAwaited ==
    /\ InChunks
    /\ LineEnd # 0 /\ Size > 0
    /\ Len(buf) < Entire
    /\ Await(Measured)
    /\ UNCHANGED buf

ChunkRejected ==
    /\ InChunks
    /\ LineEnd # 0 /\ Size > 0
    /\ Len(buf) >= Entire /\ ~NewLineAt(buf, Before + Size + 1)
    /\ Refuse(Measured, 400)
    /\ UNCHANGED buf

ChunkRead ==
    /\ InChunks
    /\ LineEnd # 0 /\ Size > 0
    /\ Len(buf) >= Entire /\ NewLineAt(buf, Before + Size + 1)
    /\ clt' = IF Measured.exceed \/ ~clt.consume THEN Measured
              ELSE [Measured EXCEPT !.body = @ \o SubSeq(buf, Before + 1, Before + Size)]
    /\ buf' = EraseFront(buf, Entire)
    /\ UNCHANGED <<peer, wire, pc, answers>>

\* Behind the last chunk.
InTrailer == pc = "trailer"
Trailed   == EraseFront(buf, 3 * FieldLines(buf))
FinishChunked == IF clt.exceed THEN Refuse(clt, 413) ELSE Process(clt)

TrailerEnds ==
    /\ InTrailer
    /\ NewLineAt(buf, 1)
    /\ buf' = EraseFront(buf, 2)
    /\ FinishChunked

\* The test on is_error is inverted (main.cpp:464): what should wait is refused,
TrailerRefused ==
    /\ InTrailer
    /\ ~NewLineAt(buf, 1)
    /\ Find(CRLF, Trailed) = 0
    /\ buf' = Trailed
    /\ Refuse(clt, 400)

\* and a line that is no field line, also the empty one, ends the request.
TrailerCut ==
    /\ InTrailer
    /\ ~NewLineAt(buf, 1)
    /\ Find(CRLF, Trailed) # 0
    /\ buf' = Trailed
    /\ FinishChunked

-------------------------------------------------------------------------------
(* A body of a known length                                                    *)

InLength == pc = "length"
Allowed  == clt.continue_reading \/ clt.content_length <= clt.max

LengthExceeded ==
    /\ InLength
    /\ ~Allowed
    /\ Refuse([clt EXCEPT !.exceed = TRUE], 413)
    /\ UNCHANGED buf

\* Mutant: continue_reading is not set.
BodyForgotten ==
    /\ InLength
    /\ Allowed /\ clt.content_length > Len(buf)
    /\ Await(clt)
    /\ UNCHANGED buf

BodyAwaited ==
    /\ InLength
    /\ Allowed /\ clt.content_length > Len(buf)
    /\ Await([clt EXCEPT !.continue_reading = TRUE])
    /\ UNCHANGED buf

\* Mutant: a body that is not consumed stays in the buffer.
BodyLeft ==
    /\ InLength
    /\ Allowed /\ clt.content_length <= Len(buf)
    /\ LET n == clt.content_length
       IN  /\ buf' = IF clt.consume THEN EraseFront(buf, n) ELSE buf
           /\ Process([clt EXCEPT !.continue_reading = FALSE,
                                  !.body = IF clt.consume THEN SubSeq(buf, 1, n) ELSE @])

BodyRead ==
    /\ InLength
    /\ Allowed /\ clt.content_length <= Len(buf)
    /\ LET n == clt.content_length
       IN  /\ buf' = EraseFront(buf, n)
           /\ Process([clt EXCEPT !.continue_reading = FALSE,
                                  !.body = IF clt.consume THEN SubSeq(buf, 1, n) ELSE @])

-------------------------------------------------------------------------------
\* The response is sent: close, or ResetClient() and POLLIN.
AnswerSent ==
    /\ pc = "answer"
    /\ IF clt.keepAlive
       THEN pc' = "wait" /\ clt' = FreshClient
       ELSE pc' = "closed" /\ clt' = clt
    /\ UNCHANGED <<peer, wire, buf, answers>>

Handler ==
    \/ HeadAwaited \/ LineRejected \/ HeadRead \/ HeadBare
    \/ SizeAwaited \/ LastChunk \/ ChunkAwaited \/ ChunkRejected \/ ChunkRead
    \/ TrailerEnds \/ TrailerRefused \/ TrailerCut
    \/ LengthExceeded \/ BodyAwaited \/ BodyRead
    \/ AnswerSent

Next == Send \/ Recv \/ Handler

Spec == Init /\ [][Next]_vars

\* The peer sends what it has to send and the loop serves the connection again
\* and again.
FairSpec == Spec /\ WF_vars(Send) /\ WF_vars(Recv) /\ WF_vars(Handler)

-------------------------------------------------------------------------------
(* Properties                                                                  *)

Exchange == INSTANCE HttpExchange WITH kept <- clt.keepAlive

Requests == UNION {ToSet(s) : s \in Streams}

\* What the requests have to be like: each line of the head and of the trailer is one the
\* parser takes, with one Host at most ...
Lined(r) ==
    /\ r.line \in Lines /\ r.fields \in Seq(Fields) /\ r.trailer \in Seq(Fields)
    /\ SecondHost(r.fields) = {}

\* ... the body is as long as is said; or if a chunk is longer, what stands where it should
\* end is no line end ...
Fits(c)  == c.size = Len(c.data)
Shows(c) == c.size < Len(c.data) /\ c.data[c.size + 1] # "CR"
Said(r)  == LengthIn(r.fields)
Sized(r) ==
    /\ r.chunks \in Seq(ToSet(r.chunks))
    /\ \A c \in ToSet(r.chunks) :
          /\ c.size \in 0 .. 3 /\ c.data \in Seq(ToSet(c.data))
          /\ Fits(c) \/ (Chunked(r) /\ Shows(c))
          /\ Chunked(r) => c.size > 0
    /\ ~Chunked(r) => Len(Data(r)) = Said(r)

\* ... and no chunk or length exceeds the limit there is without a location.
Bounded(r) == Has(r, "Host") \/ (Said(r) <= DefaultMax /\ \A c \in ToSet(r.chunks) : c.size <= DefaultMax)

WellFormed ==
    /\ \A s \in Streams : s \in Seq(Requests)
    /\ \A r \in Requests : Lined(r) /\ Sized(r) /\ Bounded(r)

\* However the bytes are cut into recv() calls, the reader answers each request
\* once, in order, with an answer it may get: bodies are the sender's, the limit
\* on a body is the limit on all its chunks (main.cpp:243-521).
ImplementsExchange == Exchange!ExchangeSpec

\* When a connection is kept, req_buf and the bytes to come begin where the next
\* request begins, but for empty lines: no byte of an answered request is left
\* and none of the next is lost (main.cpp:398-518).
InSync ==
    pc = "answer" /\ clt.keepAlive =>
        LET rest == buf \o wire
            next == FlattenSeq([i \in 1 .. (sent - Len(answers)) |-> Bytes(stream[Len(answers) + i])])
        IN  Stripped(rest) = next

\* A peer that waits for each answer before it sends the next request gets an
\* answer to all of them, or a closed connection (main.cpp:243-566).
Waits       == sent <= Len(answers) + 1
AllAnswered == []Waits => <>(Len(answers) = Len(stream) \/ pc = "closed")

\* main_logic.md:16-22: the trailer of a chunked request is ignored and the
\* request is refused when no CRLF ends it, not when the CRLF is still to come.
ChunkedAnswered ==
    \A k \in DOMAIN answers :
        Chunked(stream[k]) /\ ~Broken(stream[k]) => answers[k] \in Due(stream[k])
=============================================================================

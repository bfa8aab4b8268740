----------------------------- MODULE HttpExchange ------------------------------
(***************************************************************************)
(* What a connection promises, whatever pieces the bytes come in: one      *)
(* answer for each request, in order, and an acceptable one.               *)
(***************************************************************************)
EXTENDS HttpRequests

CONSTANTS
    Streams,    \* the sequences of requests a peer may send
    Pipelined   \* the peer sends a request before the answer to the last one

VARIABLES
    stream,    \* the requests of this connection
    sent,      \* how many of them the peer has sent
    answers,   \* the answers so far
    kept       \* the connection is kept

exchange == <<stream, sent, answers, kept>>

ExchangeInit ==
    /\ stream \in Streams
    /\ sent = 0
    /\ answers = <<>>
    /\ kept = TRUE

MaySend == sent < Len(stream) /\ (Pipelined \/ Len(answers) = sent)

SendRequest ==
    /\ MaySend
    /\ sent' = sent + 1
    /\ UNCHANGED <<stream, answers, kept>>

AnswerRequest ==
    /\ kept
    /\ Len(answers) < sent
    /\ LET r == stream[Len(answers) + 1]
       IN  \E a \in Acceptable(r) :
              /\ answers' = Append(answers, a)
              /\ kept' \in BOOLEAN /\ MayKeep(r, a, kept')
    /\ UNCHANGED <<stream, sent>>

ExchangeNext == SendRequest \/ AnswerRequest

ExchangeSpec == ExchangeInit /\ [][ExchangeNext]_exchange
=============================================================================

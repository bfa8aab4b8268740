-------------------------- MODULE RequestReaderProofs --------------------------
(***************************************************************************)
(* Theorems about RequestReader, for well-formed requests of any length,   *)
(* any number of them, and any pieces: the reader stays in step with the   *)
(* stream, and implements HttpExchange.                                    *)
(*                                                                         *)
(* What is left of the stream, in the buffer and on the wire (Rest), is    *)
(* empty lines or what is left of the request that is read, and then the   *)
(* requests behind it (Pending).  Lines and sizes are found in the buffer  *)
(* although more bytes may come, and what is found is what the peer wrote: *)
(* no request begins with an empty line, and a chunk that is longer than   *)
(* it says shows it.                                                       *)
(***************************************************************************)
EXTENDS RequestReader, DirectivesProofs, SequenceTheorems

-------------------------------------------------------------------------------
(* Sequences                                                                   *)

LEMMA Concat ==
    ASSUME NEW S, NEW a \in Seq(S), NEW b \in Seq(S)
    PROVE  /\ a \o b \in Seq(S) /\ Len(a \o b) = Len(a) + Len(b)
           /\ \A i \in 1 .. Len(a) : (a \o b)[i] = a[i]
           /\ \A i \in 1 .. Len(b) : (a \o b)[Len(a) + i] = b[i]
BY ConcatProperties

LEMMA Erased ==
    ASSUME NEW S, NEW a \in Seq(S), NEW k \in 0 .. Len(a)
    PROVE  /\ EraseFront(a, k) \in Seq(S) /\ Len(EraseFront(a, k)) = Len(a) - k
           /\ \A i \in 1 .. (Len(a) - k) : EraseFront(a, k)[i] = a[k + i]
<1>1. \A i \in (k + 1) .. Len(a) : a[i] \in S
  OBVIOUS
<1>2. k + 1 \in Int /\ Len(a) \in Int
  OBVIOUS
<1>3. /\ SubSeq(a, k + 1, Len(a)) \in Seq(S)
      /\ Len(SubSeq(a, k + 1, Len(a))) = IF k + 1 <= Len(a) THEN Len(a) - (k + 1) + 1 ELSE 0
      /\ \A i \in 1 .. Len(a) - (k + 1) + 1 : SubSeq(a, k + 1, Len(a))[i] = a[k + 1 + i - 1]
  BY <1>1, <1>2, SubSeqProperties
<1>. QED  BY <1>3 DEF EraseFront

\* What erasing the beginning of the first of two sequences leaves.
LEMMA ErasedFirst ==
    ASSUME NEW S, NEW a \in Seq(S), NEW b \in Seq(S), NEW k \in 0 .. Len(a)
    PROVE  EraseFront(a, k) \o b = EraseFront(a \o b, k)
<1>. DEFINE x == EraseFront(a, k)
            y == EraseFront(a \o b, k)
<1>1. /\ x \in Seq(S) /\ Len(x) = Len(a) - k /\ Len(a) \in Nat /\ Len(b) \in Nat
      /\ \A i \in 1 .. (Len(a) - k) : x[i] = a[k + i]
  BY Erased
<1>2. /\ y \in Seq(S) /\ Len(y) = Len(a) + Len(b) - k
      /\ \A i \in 1 .. (Len(a) + Len(b) - k) : y[i] = (a \o b)[k + i]
  <2>1. a \o b \in Seq(S) /\ Len(a \o b) = Len(a) + Len(b) /\ k \in 0 .. Len(a \o b)
    BY <1>1, Concat
  <2>2. Len(a \o b) - k = Len(a) + Len(b) - k
    BY <2>1
  <2>. QED  BY <2>1, <2>2, Erased
<1>. HIDE DEF x, y
<1>3. /\ x \o b \in Seq(S) /\ Len(x \o b) = Len(a) - k + Len(b)
      /\ \A i \in 1 .. Len(x) : (x \o b)[i] = x[i]
      /\ \A i \in 1 .. Len(b) : (x \o b)[Len(x) + i] = b[i]
  <2>1. ASSUME NEW u \in Seq(S)
        PROVE  /\ u \o b \in Seq(S) /\ Len(u \o b) = Len(u) + Len(b)
               /\ \A i \in 1 .. Len(u) : (u \o b)[i] = u[i]
               /\ \A i \in 1 .. Len(b) : (u \o b)[Len(u) + i] = b[i]
    BY Concat
  <2>2. x \in Seq(S)
    BY <1>1
  <2>. QED  BY <1>1, <2>1, <2>2
<1>4. ASSUME NEW i \in 1 .. Len(x \o b)  PROVE (x \o b)[i] = y[i]
  <2>1. CASE i <= Len(x)
    <3>1. (x \o b)[i] = a[k + i] /\ y[i] = (a \o b)[k + i] /\ k + i \in 1 .. Len(a)
      BY <1>1, <1>2, <1>3, <2>1
    <3>. QED  BY <3>1, Concat
  <2>2. CASE i > Len(x)
    <3>. DEFINE j == i - Len(x)
    <3>1. j \in 1 .. Len(b) /\ i = Len(x) + j /\ k + i = Len(a) + j
          /\ i \in 1 .. (Len(a) + Len(b) - k)
      BY <1>1, <1>3, <2>2
    <3>2. (x \o b)[i] = b[j]
      BY <1>3, <3>1
    <3>3. y[i] = (a \o b)[Len(a) + j]
      BY <1>2, <3>1
    <3>4. (a \o b)[Len(a) + j] = b[j]
      <4>. HIDE DEF j
      <4>. QED  BY <3>1, Concat
    <3>. QED  BY <3>2, <3>3, <3>4
  <2>. QED  BY <1>1, <1>3, <2>1, <2>2
<1>5. Len(x \o b) = Len(y)
  BY <1>1, <1>2, <1>3
<1>6. x \o b = y
  BY <1>2, <1>3, <1>4, <1>5, SeqEqual
<1>. QED  BY <1>6 DEF x, y

LEMMA ErasedSecond ==
    ASSUME NEW S, NEW a \in Seq(S), NEW b \in Seq(S), NEW k \in 0 .. Len(b)
    PROVE  EraseFront(a \o b, Len(a) + k) = EraseFront(b, k)
<1>. DEFINE x == EraseFront(b, k)
            y == EraseFront(a \o b, Len(a) + k)
<1>1. /\ x \in Seq(S) /\ Len(x) = Len(b) - k /\ Len(a) \in Nat /\ Len(b) \in Nat
      /\ \A i \in 1 .. (Len(b) - k) : x[i] = b[k + i]
  BY Erased
<1>2. a \o b \in Seq(S) /\ Len(a \o b) = Len(a) + Len(b) /\ Len(a) + k \in 0 .. Len(a \o b)
  BY <1>1, Concat
<1>3. /\ y \in Seq(S) /\ Len(y) = Len(b) - k
      /\ \A i \in 1 .. (Len(b) - k) : y[i] = (a \o b)[Len(a) + k + i]
  <2>1. Len(a \o b) - (Len(a) + k) = Len(b) - k
    BY <1>1, <1>2
  <2>. QED  BY <1>2, <2>1, Erased
<1>. HIDE DEF x, y
<1>4. ASSUME NEW i \in 1 .. Len(x)  PROVE x[i] = y[i]
  <2>1. k + i \in 1 .. Len(b) /\ Len(a) + k + i = Len(a) + (k + i)
    BY <1>1
  <2>2. (a \o b)[Len(a) + (k + i)] = b[k + i]
    BY <2>1, Concat
  <2>. QED  BY <1>1, <1>3, <2>1, <2>2
<1>5. x = y
  BY <1>1, <1>3, <1>4, SeqEqual
<1>. QED  BY <1>5 DEF x, y

LEMMA ErasedNone ==
    ASSUME NEW S, NEW a \in Seq(S)
    PROVE  EraseFront(a, 0) = a
BY SubSeqFull DEF EraseFront

\* One of two sequences is left when the other is erased.
LEMMA ErasedWhole ==
    ASSUME NEW S, NEW a \in Seq(S), NEW b \in Seq(S)
    PROVE  EraseFront(a \o b, Len(a)) = b
<1>1. 0 \in 0 .. Len(b) /\ Len(a) + 0 = Len(a)
  OBVIOUS
<1>. QED  BY <1>1, ErasedSecond, ErasedNone

\* recv() moves the beginning of one sequence to the end of the other.
LEMMA Moved ==
    ASSUME NEW S, NEW a \in Seq(S), NEW b \in Seq(S), NEW k \in 1 .. Len(b)
    PROVE  /\ SubSeq(b, 1, k) \in Seq(S)
           /\ (a \o SubSeq(b, 1, k)) \o EraseFront(b, k) = a \o b
<1>1. Len(b) \in Nat /\ 1 \in 1 .. Len(b) + 1 /\ k \in 1 - 1 .. Len(b) /\ Len(b) \in k .. Len(b)
  OBVIOUS
<1>2. SubSeq(b, 1, k) \o EraseFront(b, k) = SubSeq(b, 1, Len(b))
  BY <1>1, ConcatAdjacentSubSeq DEF EraseFront
<1>3. SubSeq(b, 1, Len(b)) = b
  BY SubSeqFull
<1>4. SubSeq(b, 1, k) \in Seq(S) /\ EraseFront(b, k) \in Seq(S)
  <2>1. \A i \in 1 .. k : b[i] \in S
    OBVIOUS
  <2>2. k \in 0 .. Len(b) /\ 1 \in Int /\ k \in Int
    OBVIOUS
  <2>. QED  BY <2>1, <2>2, SubSeqProperties, Erased
<1>5. ASSUME NEW u \in Seq(S), NEW v \in Seq(S)  PROVE (a \o u) \o v = a \o (u \o v)
  BY ConcatAssociative
<1>6. (a \o SubSeq(b, 1, k)) \o EraseFront(b, k) = a \o (SubSeq(b, 1, k) \o EraseFront(b, k))
  BY <1>4, <1>5, Zenon
<1>. QED  BY <1>2, <1>3, <1>4, <1>6, Zenon

LEMMA Associates ==
    ASSUME NEW S, NEW a \in Seq(S), NEW b \in Seq(S), NEW c \in Seq(S)
    PROVE  (a \o b) \o c = a \o (b \o c)
BY ConcatAssociative

-------------------------------------------------------------------------------
(* Sequences one after the other                                               *)

Joined(f, i, n) == FlattenSeq([j \in 1 .. (n - i) |-> f[i + j]])

LEMMA JoinedSeq ==
    ASSUME NEW S, NEW n \in Nat, NEW f, \A k \in 1 .. n : f[k] \in Seq(S), NEW i \in 0 .. n
    PROVE  /\ Joined(f, i, n) \in Seq(S)
           /\ i = n => Joined(f, i, n) = <<>>
<1>. DEFINE more == [j \in 1 .. (n - i) |-> f[i + j]]
<1>1. more \in Seq(Seq(S)) /\ Len(more) = n - i
  <2>1. n - i \in Nat /\ \A j \in 1 .. (n - i) : i + j \in 1 .. n
    OBVIOUS
  <2>. QED  BY <2>1
<1>. HIDE DEF more
<1>2. FlattenSeq(more) \in Seq(S)
  BY <1>1, FlattenSeqOf
<1>3. ASSUME i = n  PROVE FlattenSeq(more) = <<>>
  <2>1. more = <<>>
    BY <1>1, <1>3
  <2>. QED  BY <2>1 DEF FlattenSeq
<1>. QED  BY <1>2, <1>3 DEF Joined, more

LEMMA JoinedFirst ==
    ASSUME NEW S, NEW n \in Nat, NEW f, \A k \in 1 .. n : f[k] \in Seq(S),
           NEW i \in Nat, i < n
    PROVE  Joined(f, i, n) = f[i + 1] \o Joined(f, i + 1, n)
<1>. DEFINE more == [j \in 1 .. (n - i) |-> f[i + j]]
            rest == [j \in 1 .. (n - (i + 1)) |-> f[(i + 1) + j]]
            x    == f[i + 1]
            m    == n - (i + 1)
<1>1. m \in Nat /\ n - i = m + 1 /\ i + 1 \in 1 .. n
  OBVIOUS
<1>2. rest \in Seq(Seq(S)) /\ Len(rest) = m /\ \A k \in 1 .. m : rest[k] = f[i + (k + 1)]
  <2>1. \A j \in 1 .. m : (i + 1) + j \in 1 .. n /\ (i + 1) + j = i + (j + 1)
    OBVIOUS
  <2>. QED  BY <1>1, <2>1
<1>3. more \in Seq(Seq(S)) /\ Len(more) = m + 1 /\ \A k \in 1 .. (m + 1) : more[k] = f[i + k]
  <2>1. \A j \in 1 .. (m + 1) : i + j \in 1 .. n
    BY <1>1
  <2>. QED  BY <1>1, <2>1
<1>4. x \in Seq(S)
  BY <1>1
<1>. HIDE DEF more, rest, x, m
<1>5. /\ <<x>> \o rest \in Seq(Seq(S)) /\ Len(<<x>> \o rest) = m + 1
      /\ (<<x>> \o rest)[1] = x /\ \A k \in 1 .. m : (<<x>> \o rest)[k + 1] = rest[k]
  BY <1>2, <1>4, JoinOf
<1>6. ASSUME NEW k \in 1 .. (m + 1)  PROVE more[k] = (<<x>> \o rest)[k]
  <2>1. CASE k = 1
    BY <1>1, <1>3, <1>5, <2>1 DEF x
  <2>2. CASE k # 1
    <3>1. k - 1 \in 1 .. m /\ (k - 1) + 1 = k
      BY <1>1, <2>2
    <3>2. (<<x>> \o rest)[(k - 1) + 1] = f[i + ((k - 1) + 1)]
      BY <1>2, <1>5, <3>1
    <3>. QED  BY <1>3, <3>1, <3>2
  <2>. QED  BY <2>1, <2>2
<1>7. more = <<x>> \o rest
  <2>1. Len(more) = Len(<<x>> \o rest) /\ \A k \in 1 .. Len(more) : more[k] = (<<x>> \o rest)[k]
    BY <1>3, <1>5, <1>6
  <2>. QED  BY <1>3, <1>5, <2>1, SeqEqual
<1>8. FlattenSeq(<<x>> \o rest) = x \o FlattenSeq(rest)
  BY <1>2, <1>4, FlattenOut
<1>. QED  BY <1>7, <1>8 DEF Joined, more, rest, x

LEMMA JoinedLast ==
    ASSUME NEW S, NEW n \in Nat, NEW f, \A k \in 1 .. (n + 1) : f[k] \in Seq(S),
           NEW i \in 0 .. n
    PROVE  Joined(f, i, n + 1) = Joined(f, i, n) \o f[n + 1]
<1>. DEFINE Eq(j) == Joined(f, j, n + 1) = Joined(f, j, n) \o f[n + 1]
            T     == {d \in Nat : d <= n => Eq(n - d)}
<1>1. 0 \in T
  <2>1. n \in 0 .. n /\ n < n + 1 /\ n + 1 \in 0 .. (n + 1) /\ n + 1 \in 1 .. (n + 1) /\ n + 1 \in Nat
    OBVIOUS
  <2>2. Joined(f, n, n + 1) = f[n + 1] \o Joined(f, n + 1, n + 1)
    BY <2>1, JoinedFirst
  <2>3. Joined(f, n + 1, n + 1) = <<>> /\ Joined(f, n, n) = <<>> /\ f[n + 1] \in Seq(S)
    <3>1. Joined(f, n + 1, n + 1) = <<>>
      BY <2>1, JoinedSeq
    <3>2. \A k \in 1 .. n : f[k] \in Seq(S)
      OBVIOUS
    <3>3. Joined(f, n, n) = <<>>
      BY <2>1, <3>2, JoinedSeq
    <3>. QED  BY <2>1, <3>1, <3>3
  <2>4. n - 0 = n
    OBVIOUS
  <2>5. Joined(f, n, n + 1) = Joined(f, n, n) \o f[n + 1]
    BY <2>2, <2>3, ConcatEmptySeq
  <2>. QED  BY <2>4, <2>5
<1>2. ASSUME NEW d \in Nat, d \in T  PROVE d + 1 \in T
  <2>. SUFFICES ASSUME d + 1 <= n  PROVE Eq(n - (d + 1))
    <3>. HIDE DEF Eq
    <3>. QED  OBVIOUS
  <2>. DEFINE i0 == n - (d + 1)
  <2>1. i0 \in Nat /\ i0 < n /\ i0 < n + 1 /\ i0 + 1 = n - d /\ n + 1 \in Nat /\ i0 + 1 \in 1 .. (n + 1)
        /\ i0 + 1 \in 0 .. n /\ d <= n /\ n + 1 \in 1 .. (n + 1)
    OBVIOUS
  <2>2. Joined(f, i0 + 1, n + 1) = Joined(f, i0 + 1, n) \o f[n + 1]
    BY <1>2, <2>1
  <2>. HIDE DEF i0
  <2>3. Joined(f, i0, n + 1) = f[i0 + 1] \o Joined(f, i0 + 1, n + 1)
    BY <2>1, JoinedFirst
  <2>4. \A k \in 1 .. n : f[k] \in Seq(S)
    OBVIOUS
  <2>5. Joined(f, i0, n) = f[i0 + 1] \o Joined(f, i0 + 1, n)
    BY <2>1, <2>4, JoinedFirst
  <2>6. Joined(f, i0 + 1, n) \in Seq(S) /\ f[i0 + 1] \in Seq(S) /\ f[n + 1] \in Seq(S)
    BY <2>1, <2>4, JoinedSeq
  <2>7. (f[i0 + 1] \o Joined(f, i0 + 1, n)) \o f[n + 1] = f[i0 + 1] \o (Joined(f, i0 + 1, n) \o f[n + 1])
    <3>1. ASSUME NEW u \in Seq(S), NEW v \in Seq(S), NEW w \in Seq(S)
          PROVE  (u \o v) \o w = u \o (v \o w)
      BY Associates
    <3>. QED  BY <2>6, <3>1, Zenon
  <2>8. Joined(f, i0, n + 1) = Joined(f, i0, n) \o f[n + 1]
    BY <2>2, <2>3, <2>5, <2>7
  <2>. QED  BY <2>8 DEF i0
<1>3. n - i \in T
  <2>1. n - i \in Nat
    OBVIOUS
  <2>. HIDE DEF T
  <2>. QED  BY <1>1, <1>2, <2>1, Inductive
<1>4. n - i <= n /\ n - (n - i) = i
  OBVIOUS
<1>. QED  BY <1>3, <1>4

LEMMA JoinedAll ==
    ASSUME NEW V, NEW f \in Seq(V)
    PROVE  Joined(f, 0, Len(f)) = FlattenSeq(f)
<1>. DEFINE g == [j \in 1 .. (Len(f) - 0) |-> f[0 + j]]
<1>1. f = [j \in 1 .. Len(f) |-> f[j]] /\ Len(f) - 0 = Len(f) /\ Len(f) \in Nat
  OBVIOUS
<1>2. g = [j \in 1 .. Len(f) |-> f[j]]
  <2>1. \A j \in 1 .. Len(f) : 0 + j = j
    OBVIOUS
  <2>. QED  BY <1>1, <2>1
<1>. HIDE DEF g
<1>3. f = g
  BY <1>1, <1>2
<1>. QED  BY <1>3 DEF Joined, g

-------------------------------------------------------------------------------
(* Lines                                                                       *)

\* What requests are made of.
Line == Lines \cup Fields
Byte == Line \cup {"CR", "LF"} \cup DOMAIN Digit
          \cup UNION {UNION {ToSet(c.data) : c \in ToSet(r.chunks)} : r \in Requests}

LEMMA Tokens ==
    /\ "CR" \in Byte /\ "LF" \in Byte /\ "CR" # "LF"
    /\ \A l \in Line : l \in Byte /\ l # "CR" /\ l # "LF" /\ l # "Junk"
    /\ \A l \in Lines : l \in Line /\ l \notin Fields
    /\ \A l \in Fields : l \in Line /\ l \notin Lines
    /\ \A d \in DOMAIN Digit : d \in Byte /\ d # "CR" /\ d # "LF" /\ d \notin Line
<1>1. "CR" \in Byte /\ "LF" \in Byte /\ "CR" # "LF"
  BY DEF Byte
<1>2. \A l \in Line : l # "CR" /\ l # "LF" /\ l # "Junk"
  BY DEF Line, Lines, Fields, Lengths
<1>3. \A l \in Lines : l \notin Fields
  BY DEF Lines, Fields, Lengths
<1>4. \A d \in DOMAIN Digit : d # "CR" /\ d # "LF" /\ d \notin Line
  BY DEF Digit, Line, Lines, Fields, Lengths
<1>. QED  BY <1>1, <1>2, <1>3, <1>4 DEF Line, Byte

LEMMA NewLine ==
    CRLF \in Seq(Byte) /\ Len(CRLF) = 2 /\ CRLF[1] = "CR" /\ CRLF[2] = "LF"
BY Tokens DEF CRLF

\* What was said of sequences, for sequences of these.
LEMMA Concats ==
    \A u, v \in Seq(Byte) :
        /\ u \o v \in Seq(Byte) /\ Len(u \o v) = Len(u) + Len(v)
        /\ \A i \in 1 .. Len(u) : (u \o v)[i] = u[i]
        /\ \A i \in 1 .. Len(v) : (u \o v)[Len(u) + i] = v[i]
BY Concat

LEMMA JoinsIn ==
    \A u, v \in Seq(Byte) : u \o v \in Seq(Byte)
BY Concats

LEMMA Regroup ==
    \A u, v, w \in Seq(Byte) : (u \o v) \o w = u \o (v \o w)
BY Associates

LEMMA Regroups ==
    /\ \A u, v, w \in Seq(Byte) : (u \o v) \o w = u \o (v \o w)
    /\ \A u \in Seq(Byte) : <<>> \o u = u /\ u \o <<>> = u
    /\ <<>> \in Seq(Byte)
BY Associates, ConcatEmptySeq

LEMMA Erases ==
    \A u \in Seq(Byte) :
        /\ EraseFront(u, 0) = u
        /\ \A k \in 0 .. Len(u) :
              /\ EraseFront(u, k) \in Seq(Byte) /\ Len(EraseFront(u, k)) = Len(u) - k
              /\ \A i \in 1 .. (Len(u) - k) : EraseFront(u, k)[i] = u[k + i]
BY Erased, ErasedNone

LEMMA ErasesPart ==
    \A u, v \in Seq(Byte) :
        /\ EraseFront(u \o v, Len(u)) = v
        /\ \A k \in 0 .. Len(u) : EraseFront(u, k) \o v = EraseFront(u \o v, k)
        /\ \A k \in 0 .. Len(v) : EraseFront(u \o v, Len(u) + k) = EraseFront(v, k)
BY ErasedWhole, ErasedFirst, ErasedSecond

\* JoinedSeq and JoinedFirst for these.
LEMMA JoinedBytes ==
    ASSUME NEW n \in Nat, NEW f, \A k \in 1 .. n : f[k] \in Seq(Byte), NEW i \in 0 .. n
    PROVE  /\ Joined(f, i, n) \in Seq(Byte)
           /\ i = n => Joined(f, i, n) = <<>>
           /\ i < n => /\ f[i + 1] \in Seq(Byte)
                       /\ Joined(f, i, n) = f[i + 1] \o Joined(f, i + 1, n)
                       /\ Joined(f, i + 1, n) \in Seq(Byte)
<1>1. Joined(f, i, n) \in Seq(Byte) /\ (i = n => Joined(f, i, n) = <<>>)
  BY JoinedSeq
<1>2. ASSUME i < n
      PROVE  f[i + 1] \in Seq(Byte) /\ Joined(f, i, n) = f[i + 1] \o Joined(f, i + 1, n)
  <2>1. i \in Nat /\ i + 1 \in 1 .. n
    BY <1>2
  <2>. QED  BY <1>2, <2>1, JoinedFirst
<1>3. ASSUME i < n  PROVE Joined(f, i + 1, n) \in Seq(Byte)
  <2>1. i + 1 \in 0 .. n
    BY <1>3
  <2>. QED  BY <2>1, JoinedSeq
<1>. QED  BY <1>1, <1>2, <1>3

LineSeq(fs) == [i \in DOMAIN fs |-> (IF fs[i] = "Junk" THEN Junk ELSE <<fs[i]>>) \o CRLF]

LEMMA OneLine ==
    ASSUME NEW l \in Line
    PROVE  /\ <<l>> \o CRLF \in Seq(Byte) /\ Len(<<l>> \o CRLF) = 3
           /\ (<<l>> \o CRLF)[1] = l /\ (<<l>> \o CRLF)[2] = "CR" /\ (<<l>> \o CRLF)[3] = "LF"
BY Tokens DEF CRLF

LEMMA LineSeqOf ==
    ASSUME NEW fs \in Seq(Line)
    PROVE  /\ LineSeq(fs) \in Seq(Seq(Byte)) /\ Len(LineSeq(fs)) = Len(fs)
           /\ \A i \in 1 .. Len(fs) : LineSeq(fs)[i] = <<fs[i]>> \o CRLF
<1>1. \A i \in 1 .. Len(fs) : fs[i] \in Line /\ fs[i] # "Junk" /\ <<fs[i]>> \o CRLF \in Seq(Byte)
  BY Tokens, OneLine
<1>2. LineSeq(fs) = [i \in 1 .. Len(fs) |-> <<fs[i]>> \o CRLF]
  <2>1. DOMAIN fs = 1 .. Len(fs)
        /\ \A i \in 1 .. Len(fs) :
              (IF fs[i] = "Junk" THEN Junk ELSE <<fs[i]>>) \o CRLF = <<fs[i]>> \o CRLF
    <3>1. \A i \in 1 .. Len(fs) :
             (IF fs[i] = "Junk" THEN Junk ELSE <<fs[i]>>) = <<fs[i]>>
      BY <1>1
    <3>2. ASSUME NEW i \in 1 .. Len(fs)
          PROVE  (IF fs[i] = "Junk" THEN Junk ELSE <<fs[i]>>) \o CRLF = <<fs[i]>> \o CRLF
      BY <3>1, Zenon
    <3>3. DOMAIN fs = 1 .. Len(fs)
      OBVIOUS
    <3>. QED  BY <3>2, <3>3, Zenon
  <2>. QED  BY <2>1, Zenon DEF LineSeq
<1>. QED  BY <1>1, <1>2

\* Where the lines of a sequence stand.
Stand(w, fs, i, d) ==
    /\ w \in Seq(Byte) /\ Len(w) = 3 * d
    /\ \A j \in 1 .. d : /\ w[3 * j - 2] = fs[i + j]
                         /\ w[3 * j - 1] = "CR" /\ w[3 * j] = "LF"

LEMMA StandsFirst ==
    ASSUME NEW fs \in Seq(Line), NEW i \in Nat, NEW d \in Nat, i + d + 1 = Len(fs),
           NEW w, Stand(w, fs, i + 1, d)
    PROVE  Stand((<<fs[i + 1]>> \o CRLF) \o w, fs, i, d + 1)
<1>. DEFINE x == <<fs[i + 1]>> \o CRLF
            y == x \o w
<1>1. i + 1 \in 1 .. Len(fs) /\ fs[i + 1] \in Line
  OBVIOUS
<1>2. x \in Seq(Byte) /\ Len(x) = 3 /\ x[1] = fs[i + 1] /\ x[2] = "CR" /\ x[3] = "LF"
  BY <1>1, OneLine
<1>3. w \in Seq(Byte) /\ Len(w) = 3 * d
      /\ \A j \in 1 .. d : w[3 * j - 2] = fs[(i + 1) + j] /\ w[3 * j - 1] = "CR" /\ w[3 * j] = "LF"
  BY DEF Stand
<1>. HIDE DEF x
<1>4. /\ y \in Seq(Byte) /\ Len(y) = 3 + 3 * d
      /\ y[1] = x[1] /\ y[2] = x[2] /\ y[3] = x[3]
      /\ \A k \in 1 .. 3 * d : y[3 + k] = w[k]
  <2>1. ASSUME NEW u \in Seq(Byte), NEW v \in Seq(Byte)
        PROVE  /\ u \o v \in Seq(Byte) /\ Len(u \o v) = Len(u) + Len(v)
               /\ \A k \in 1 .. Len(u) : (u \o v)[k] = u[k]
               /\ \A k \in 1 .. Len(v) : (u \o v)[Len(u) + k] = v[k]
    BY Concat
  <2>2. x \in Seq(Byte) /\ w \in Seq(Byte) /\ Len(x) = 3 /\ Len(w) = 3 * d
    BY <1>2, <1>3
  <2>3. /\ x \o w \in Seq(Byte) /\ Len(x \o w) = Len(x) + Len(w)
        /\ \A k \in 1 .. Len(x) : (x \o w)[k] = x[k]
        /\ \A k \in 1 .. Len(w) : (x \o w)[Len(x) + k] = w[k]
    BY <2>1, <2>2, Zenon
  <2>4. 1 \in 1 .. Len(x) /\ 2 \in 1 .. Len(x) /\ 3 \in 1 .. Len(x)
    BY <2>2
  <2>. QED  BY <2>2, <2>3, <2>4
<1>. HIDE DEF y
<1>5. ASSUME NEW j \in 1 .. (d + 1)
      PROVE  y[3 * j - 2] = fs[i + j] /\ y[3 * j - 1] = "CR" /\ y[3 * j] = "LF"
  <2>1. CASE j = 1
    BY <1>2, <1>4, <2>1
  <2>2. CASE j # 1
    <3>. DEFINE k == j - 1
    <3>1. k \in 1 .. d /\ (i + 1) + k = i + j /\ 3 * j - 2 = 3 + (3 * k - 2)
          /\ 3 * j - 1 = 3 + (3 * k - 1) /\ 3 * j = 3 + 3 * k
          /\ 3 * k - 2 \in 1 .. 3 * d /\ 3 * k - 1 \in 1 .. 3 * d /\ 3 * k \in 1 .. 3 * d
      BY <2>2
    <3>. HIDE DEF k
    <3>2. y[3 + (3 * k - 2)] = w[3 * k - 2] /\ y[3 + (3 * k - 1)] = w[3 * k - 1]
          /\ y[3 + 3 * k] = w[3 * k]
      BY <1>4, <3>1
    <3>3. w[3 * k - 2] = fs[i + j] /\ w[3 * k - 1] = "CR" /\ w[3 * k] = "LF"
      BY <1>3, <3>1
    <3>. QED  BY <3>1, <3>2, <3>3
  <2>. QED  BY <2>1, <2>2
<1>6. Len(y) = 3 * (d + 1)
  BY <1>4
<1>. QED  BY <1>4, <1>5, <1>6 DEF Stand, y, x

LEMMA LinesStand ==
    ASSUME NEW fs \in Seq(Line)
    PROVE  Stand(LineBytes(fs), fs, 0, Len(fs))
<1>. DEFINE n == Len(fs)
            f == LineSeq(fs)
            St(e, d) == Stand(Joined(f, e, n), fs, e, d)
            T == {d \in Nat : d <= n => St(n - d, d)}
<1>1. /\ n \in Nat /\ Len(f) = n /\ f \in Seq(Seq(Byte))
      /\ \A k \in 1 .. n : f[k] \in Seq(Byte)
      /\ \A k \in 1 .. n : f[k] = <<fs[k]>> \o CRLF
  BY LineSeqOf
<1>. HIDE DEF n, f
<1>2. 0 \in T
  <2>1. n \in 0 .. n /\ n - 0 = n
    BY <1>1
  <2>2. Joined(f, n, n) = <<>>
    BY <1>1, <2>1, JoinedBytes
  <2>3. Stand(<<>>, fs, n, 0)
    BY DEF Stand
  <2>. QED  BY <2>1, <2>2, <2>3
<1>3. ASSUME NEW d \in Nat, d \in T  PROVE d + 1 \in T
  <2>. SUFFICES ASSUME d + 1 <= n  PROVE St(n - (d + 1), d + 1)
    <3>. HIDE DEF St
    <3>. QED  OBVIOUS
  <2>. DEFINE i == n - (d + 1)
  <2>1. i \in Nat /\ i < n /\ i + d + 1 = n /\ i + 1 = n - d /\ d <= n /\ i + 1 \in 1 .. n
    BY <1>1
  <2>2. Stand(Joined(f, i + 1, n), fs, i + 1, d)
    BY <1>3, <2>1
  <2>. HIDE DEF i
  <2>3. Joined(f, i, n) = f[i + 1] \o Joined(f, i + 1, n)
    <3>1. i \in 0 .. n
      BY <1>1, <2>1
    <3>. QED  BY <1>1, <2>1, <3>1, JoinedBytes
  <2>4. Stand((<<fs[i + 1]>> \o CRLF) \o Joined(f, i + 1, n), fs, i, d + 1)
    BY <2>1, <2>2, StandsFirst DEF n
  <2>5. Joined(f, i, n) = (<<fs[i + 1]>> \o CRLF) \o Joined(f, i + 1, n)
    BY <1>1, <2>1, <2>3
  <2>. QED  BY <2>4, <2>5 DEF i
<1>4. n \in T
  <2>. HIDE DEF T
  <2>. QED  BY <1>1, <1>2, <1>3, Inductive
<1>5. n <= n /\ n - n = 0
  BY <1>1
<1>6. FlattenSeq(f) = LineBytes(fs)
  BY DEF f, LineSeq, LineBytes
<1>7. Joined(f, 0, n) = FlattenSeq(f)
  BY <1>1, JoinedAll
<1>. QED  BY <1>4, <1>5, <1>6, <1>7 DEF n

-------------------------------------------------------------------------------
(* The lines a buffer begins with                                              *)

LEMMA Quotients ==
    ASSUME NEW n \in Nat, NEW k
    PROVE  /\ k \in 0 .. (n \div 3) <=> k \in Nat /\ 3 * k <= n
           /\ k \in 0 .. (n \div 2) <=> k \in Nat /\ 2 * k <= n
OBVIOUS

\* The greatest of some numbers that are bounded.
LEMMA Greatest ==
    ASSUME NEW n \in Nat, NEW K, K \subseteq 0 .. n, 0 \in K
    PROVE  Max(K) \in K /\ \A k \in K : k <= Max(K)
<1>. DEFINE T == {n - x : x \in K}
<1>1. T \subseteq Nat /\ T # {}
  <2>1. \A x \in K : x \in Int /\ n - x \in Nat
    OBVIOUS
  <2>. QED  BY <2>1
<1>2. PICK y \in T : \A z \in T : y <= z
  <2>. HIDE DEF T
  <2>. QED  BY <1>1, Least
<1>3. n - y \in K /\ \A x \in K : n - y >= x
  BY <1>2
<1>. QED  BY <1>3 DEF Max

FieldLinesAt(s, k) == \A j \in 1 .. k : s[3 * j - 2] \in Fields /\ NewLineAt(s, 3 * j - 1)

LEMMA FieldLinesMost ==
    ASSUME NEW s, Len(s) \in Nat
    PROVE  /\ FieldLines(s) \in Nat /\ 3 * FieldLines(s) <= Len(s)
           /\ FieldLinesAt(s, FieldLines(s))
           /\ \A k \in Nat : 3 * k <= Len(s) /\ FieldLinesAt(s, k) => k <= FieldLines(s)
<1>. DEFINE K == {k \in 0 .. (Len(s) \div 3) : FieldLinesAt(s, k)}
<1>1. K \subseteq 0 .. Len(s) /\ 0 \in K /\ \A k : k \in K <=> k \in Nat /\ 3 * k <= Len(s) /\ FieldLinesAt(s, k)
  <2>1. FieldLinesAt(s, 0)
    BY DEF FieldLinesAt
  <2>2. \A k : k \in K <=> k \in Nat /\ 3 * k <= Len(s) /\ FieldLinesAt(s, k)
    <3>. HIDE DEF FieldLinesAt
    <3>. QED  BY Quotients
  <2>. HIDE DEF K
  <2>. QED  BY <2>1, <2>2
<1>2. FieldLines(s) = Max(K)
  BY DEF FieldLines, FieldLinesAt
<1>. HIDE DEF K
<1>3. Max(K) \in K /\ \A k \in K : k <= Max(K)
  BY <1>1, Greatest
<1>. QED  BY <1>1, <1>2, <1>3

LEMMA LeadingMost ==
    ASSUME NEW s, Len(s) \in Nat
    PROVE  /\ LeadingNewLines(s) \in Nat /\ 2 * LeadingNewLines(s) <= Len(s)
           /\ \A j \in 1 .. LeadingNewLines(s) : NewLineAt(s, 2 * j - 1)
           /\ \A k \in Nat : 2 * k <= Len(s) /\ (\A j \in 1 .. k : NewLineAt(s, 2 * j - 1))
                                => k <= LeadingNewLines(s)
<1>. DEFINE At(k) == \A j \in 1 .. k : NewLineAt(s, 2 * j - 1)
            K == {k \in 0 .. (Len(s) \div 2) : At(k)}
<1>1. K \subseteq 0 .. Len(s) /\ 0 \in K /\ \A k : k \in K <=> k \in Nat /\ 2 * k <= Len(s) /\ At(k)
  <2>1. At(0)
    OBVIOUS
  <2>2. \A k : k \in K <=> k \in Nat /\ 2 * k <= Len(s) /\ At(k)
    <3>. HIDE DEF At
    <3>. QED  BY Quotients
  <2>. HIDE DEF K, At
  <2>. QED  BY <2>1, <2>2
<1>2. LeadingNewLines(s) = Max(K)
  BY DEF LeadingNewLines
<1>. HIDE DEF K
<1>3. Max(K) \in K /\ \A k \in K : k <= Max(K)
  BY <1>1, Greatest
<1>. QED  BY <1>1, <1>2, <1>3


LEMMA Part ==
    ASSUME NEW S, NEW s \in Seq(S), NEW i \in 1 .. Len(s), NEW m \in Nat, i + m <= Len(s) + 1
    PROVE  /\ SubSeq(s, i, i + m - 1) \in Seq(S) /\ Len(SubSeq(s, i, i + m - 1)) = m
           /\ \A j \in 1 .. m : SubSeq(s, i, i + m - 1)[j] = s[i + j - 1]
<1>. DEFINE n == i + m - 1
<1>1. i \in Int /\ n \in Int /\ \A k \in i .. n : s[k] \in S
  BY DEF n
<1>2. (IF i <= n THEN n - i + 1 ELSE 0) = m /\ n - i + 1 = m
  OBVIOUS
<1>. HIDE DEF n
<1>3. /\ SubSeq(s, i, n) \in Seq(S)
      /\ Len(SubSeq(s, i, n)) = IF i <= n THEN n - i + 1 ELSE 0
      /\ \A j \in 1 .. n - i + 1 : SubSeq(s, i, n)[j] = s[i + j - 1]
  BY <1>1, SubSeqProperties
<1>. QED  BY <1>2, <1>3 DEF n

\* Where a sequence stands in another.
Stands(pat, s, i) ==
    /\ i \in Nat /\ 1 <= i /\ i + Len(pat) <= Len(s) + 1
    /\ \A j \in 1 .. Len(pat) : s[i + j - 1] = pat[j]

LEMMA FindLeast ==
    ASSUME NEW S, NEW s \in Seq(S), NEW pat \in Seq(S), Len(pat) > 0
    PROVE  /\ Find(pat, s) \in Nat
           /\ Find(pat, s) = 0 => \A i \in Nat : ~Stands(pat, s, i)
           /\ Find(pat, s) # 0 => /\ Stands(pat, s, Find(pat, s))
                                  /\ \A i \in Nat : Stands(pat, s, i) => Find(pat, s) <= i
<1>. DEFINE P == {i \in 1 .. (Len(s) - Len(pat) + 1) : SubSeq(s, i, i + Len(pat) - 1) = pat}
            m == Len(pat)
<1>1. m \in Nat /\ Len(s) \in Nat /\ m > 0
  OBVIOUS
<1>2. ASSUME NEW i \in 1 .. (Len(s) - m + 1)
      PROVE  SubSeq(s, i, i + m - 1) = pat <=> \A j \in 1 .. m : s[i + j - 1] = pat[j]
  <2>1. i \in 1 .. Len(s) /\ i + m <= Len(s) + 1
    BY <1>1
  <2>. DEFINE t == SubSeq(s, i, i + m - 1)
  <2>2. t \in Seq(S) /\ Len(t) = m /\ \A j \in 1 .. m : t[j] = s[i + j - 1]
    BY <1>1, <2>1, Part
  <2>. HIDE DEF t
  <2>3. t = pat <=> \A j \in 1 .. m : t[j] = pat[j]
    <3>1. ASSUME \A j \in 1 .. m : t[j] = pat[j]  PROVE t = pat
      BY <2>2, <3>1, SeqEqual
    <3>. QED  BY <3>1
  <2>4. (\A j \in 1 .. m : t[j] = pat[j]) <=> \A j \in 1 .. m : s[i + j - 1] = pat[j]
    BY <2>2
  <2>. QED  BY <2>3, <2>4 DEF t
<1>3. \A i : i \in P <=> i \in Nat /\ Stands(pat, s, i)
  <2>1. \A i : i \in 1 .. (Len(s) - m + 1) <=> i \in Nat /\ 1 <= i /\ i + m <= Len(s) + 1
    BY <1>1
  <2>. HIDE DEF m
  <2>2. \A i : i \in P <=> i \in 1 .. (Len(s) - m + 1) /\ \A j \in 1 .. m : s[i + j - 1] = pat[j]
    BY <1>2 DEF m
  <2>3. \A i : Stands(pat, s, i) <=> i \in Nat /\ 1 <= i /\ i + m <= Len(s) + 1
                                       /\ \A j \in 1 .. m : s[i + j - 1] = pat[j]
    BY DEF Stands, m
  <2>. HIDE DEF P
  <2>. QED  BY <2>1, <2>2, <2>3, Zenon
<1>4. Find(pat, s) = IF P = {} THEN 0 ELSE Min(P)
  BY DEF Find
<1>. HIDE DEF P, m
<1>5. P \subseteq Nat /\ 0 \notin P
  BY <1>3 DEF Stands
<1>6. CASE P = {}
  <2>1. Find(pat, s) = 0 /\ Find(pat, s) \in Nat
    BY <1>4, <1>6
  <2>2. \A i \in Nat : ~Stands(pat, s, i)
    BY <1>3, <1>6
  <2>. QED  BY <2>1, <2>2, Zenon
<1>7. CASE P # {}
  <2>1. Min(P) \in P /\ \A x \in P : Min(P) <= x
    BY <1>5, <1>7, MinOf
  <2>2. Find(pat, s) = Min(P) /\ Min(P) # 0
    BY <1>4, <1>5, <1>7, <2>1, Zenon
  <2>. QED  BY <1>3, <1>5, <2>1, <2>2
<1>. QED  BY <1>6, <1>7

\* Where a line end is found.
LEMMA FindNewLine ==
    ASSUME NEW s \in Seq(Byte)
    PROVE  /\ Find(CRLF, s) \in Nat
           /\ Find(CRLF, s) = 0 => \A p \in Nat \ {0} : ~NewLineAt(s, p)
           /\ Find(CRLF, s) # 0 =>
                 /\ NewLineAt(s, Find(CRLF, s))
                 /\ \A p \in Nat \ {0} : NewLineAt(s, p) => Find(CRLF, s) <= p
<1>1. \A p \in Nat \ {0} : Stands(CRLF, s, p) <=> NewLineAt(s, p)
  <2>. SUFFICES ASSUME NEW p \in Nat \ {0}  PROVE Stands(CRLF, s, p) <=> NewLineAt(s, p)
    OBVIOUS
  <2>1. (\A j \in 1 .. 2 : s[p + j - 1] = CRLF[j]) <=> s[p] = "CR" /\ s[p + 1] = "LF"
    <3>1. \A j : j \in 1 .. 2 <=> j = 1 \/ j = 2
      OBVIOUS
    <3>2. p + 1 - 1 = p /\ p + 2 - 1 = p + 1
      OBVIOUS
    <3>. QED  BY <3>1, <3>2, NewLine
  <2>2. p + 2 <= Len(s) + 1 <=> p + 1 <= Len(s)
    OBVIOUS
  <2>. QED  BY <2>1, <2>2, NewLine DEF Stands, NewLineAt
<1>2. /\ Find(CRLF, s) \in Nat
      /\ Find(CRLF, s) = 0 => \A i \in Nat : ~Stands(CRLF, s, i)
      /\ Find(CRLF, s) # 0 => /\ Stands(CRLF, s, Find(CRLF, s))
                             /\ \A i \in Nat : Stands(CRLF, s, i) => Find(CRLF, s) <= i
  BY NewLine, FindLeast
<1>. QED  BY <1>1, <1>2

\* And an empty line.
LEMMA FindEmptyLine ==
    ASSUME NEW s \in Seq(Byte)
    PROVE  Find(CRLF \o CRLF, s) # 0 <=> \E p \in Nat \ {0} : NewLineAt(s, p) /\ NewLineAt(s, p + 2)
<1>. DEFINE two == CRLF \o CRLF
<1>1. two \in Seq(Byte) /\ Len(two) = 4
      /\ two[1] = "CR" /\ two[2] = "LF" /\ two[3] = "CR" /\ two[4] = "LF"
  <2>1. /\ two \in Seq(Byte) /\ Len(two) = Len(CRLF) + Len(CRLF)
        /\ \A i \in 1 .. Len(CRLF) : two[i] = CRLF[i]
        /\ \A i \in 1 .. Len(CRLF) : two[Len(CRLF) + i] = CRLF[i]
    BY NewLine, Concats
  <2>. HIDE DEF two
  <2>2. 1 \in 1 .. 2 /\ 2 \in 1 .. 2 /\ 2 + 1 = 3 /\ 2 + 2 = 4
    OBVIOUS
  <2>. QED  BY <2>1, <2>2, NewLine
<1>. HIDE DEF two
<1>2. \A p \in Nat \ {0} : Stands(two, s, p) <=> NewLineAt(s, p) /\ NewLineAt(s, p + 2)
  <2>. SUFFICES ASSUME NEW p \in Nat \ {0}
                PROVE  Stands(two, s, p) <=> NewLineAt(s, p) /\ NewLineAt(s, p + 2)
    OBVIOUS
  <2>1. (\A j \in 1 .. 4 : s[p + j - 1] = two[j])
        <=> s[p] = "CR" /\ s[p + 1] = "LF" /\ s[p + 2] = "CR" /\ s[p + 3] = "LF"
    <3>1. \A j : j \in 1 .. 4 <=> j = 1 \/ j = 2 \/ j = 3 \/ j = 4
      OBVIOUS
    <3>2. p + 1 - 1 = p /\ p + 2 - 1 = p + 1 /\ p + 3 - 1 = p + 2 /\ p + 4 - 1 = p + 3
      OBVIOUS
    <3>. QED  BY <3>1, <3>2, <1>1
  <2>2. (p + 4 <= Len(s) + 1 <=> p + 3 <= Len(s)) /\ p + 2 + 1 = p + 3
        /\ (p + 3 <= Len(s) => p + 1 <= Len(s))
    OBVIOUS
  <2>. QED  BY <1>1, <2>1, <2>2 DEF Stands, NewLineAt
<1>3. /\ Find(two, s) \in Nat
      /\ Find(two, s) = 0 => \A i \in Nat : ~Stands(two, s, i)
      /\ Find(two, s) # 0 => /\ Stands(two, s, Find(two, s))
                            /\ \A i \in Nat : Stands(two, s, i) => Find(two, s) <= i
  <2>1. two \in Seq(Byte) /\ Len(two) > 0
    BY <1>1
  <2>. QED  BY <2>1, FindLeast
<1>4. \A i \in Nat : Stands(two, s, i) => i \in Nat \ {0}
  BY DEF Stands
<1>. QED  BY <1>2, <1>3, <1>4 DEF two

-------------------------------------------------------------------------------
(* Lines, an empty line, and what follows                                      *)

Block(fs, t) == LineBytes(fs) \o (CRLF \o t)

LEMMA Thirds ==
    ASSUME NEW k \in Nat, NEW p \in 1 .. 3 * k
    PROVE  \E j \in 1 .. k : p = 3 * j - 2 \/ p = 3 * j - 1 \/ p = 3 * j
<1>. DEFINE j == (p + 2) \div 3
<1>1. j \in 1 .. k /\ (p = 3 * j - 2 \/ p = 3 * j - 1 \/ p = 3 * j)
  OBVIOUS
<1>. HIDE DEF j
<1>. QED  BY <1>1

LEMMA LineBytesOf ==
    ASSUME NEW fs \in Seq(Line)
    PROVE  /\ LineBytes(fs) \in Seq(Byte) /\ Len(LineBytes(fs)) = 3 * Len(fs)
           /\ fs = <<>> => LineBytes(fs) = <<>>
<1>1. LineBytes(fs) \in Seq(Byte) /\ Len(LineBytes(fs)) = 3 * Len(fs)
  BY LinesStand DEF Stand
<1>2. ASSUME fs = <<>>  PROVE LineBytes(fs) = <<>>
  <2>1. Len(LineBytes(fs)) = 0
    BY <1>1, <1>2
  <2>. QED  BY <1>1, <2>1, EmptySeq
<1>. QED  BY <1>1, <1>2

LEMMA LineBytesMore ==
    ASSUME NEW l \in Line, NEW fs \in Seq(Line)
    PROVE  /\ <<l>> \o fs \in Seq(Line) /\ Len(<<l>> \o fs) = Len(fs) + 1
           /\ LineBytes(<<l>> \o fs) = (<<l>> \o CRLF) \o LineBytes(fs)
<1>. DEFINE more == <<l>> \o fs
            x    == <<l>> \o CRLF
<1>1. /\ more \in Seq(Line) /\ Len(more) = Len(fs) + 1 /\ more[1] = l
      /\ \A k \in 1 .. Len(fs) : more[k + 1] = fs[k]
  BY JoinOf
<1>2. x \in Seq(Byte)
  BY OneLine
<1>. HIDE DEF more
<1>3. /\ LineSeq(more) \in Seq(Seq(Byte)) /\ Len(LineSeq(more)) = Len(more)
      /\ \A i \in 1 .. Len(more) : LineSeq(more)[i] = <<more[i]>> \o CRLF
  BY <1>1, LineSeqOf
<1>4. /\ LineSeq(fs) \in Seq(Seq(Byte)) /\ Len(LineSeq(fs)) = Len(fs)
      /\ \A i \in 1 .. Len(fs) : LineSeq(fs)[i] = <<fs[i]>> \o CRLF
  BY LineSeqOf
<1>5. /\ <<x>> \o LineSeq(fs) \in Seq(Seq(Byte)) /\ Len(<<x>> \o LineSeq(fs)) = Len(fs) + 1
      /\ (<<x>> \o LineSeq(fs))[1] = x
      /\ \A k \in 1 .. Len(fs) : (<<x>> \o LineSeq(fs))[k + 1] = LineSeq(fs)[k]
  <2>. HIDE DEF x
  <2>1. ASSUME NEW s \in Seq(Seq(Byte))
        PROVE  /\ <<x>> \o s \in Seq(Seq(Byte)) /\ Len(<<x>> \o s) = Len(s) + 1
               /\ (<<x>> \o s)[1] = x /\ \A k \in 1 .. Len(s) : (<<x>> \o s)[k + 1] = s[k]
    BY <1>2, JoinOf
  <2>. QED  BY <1>4, <2>1
<1>6. ASSUME NEW i \in 1 .. (Len(fs) + 1)  PROVE LineSeq(more)[i] = (<<x>> \o LineSeq(fs))[i]
  <2>1. CASE i = 1
    <3>1. LineSeq(more)[1] = <<more[1]>> \o CRLF /\ more[1] = l
      BY <1>1, <1>3, <2>1
    <3>2. LineSeq(more)[1] = x
      BY <3>1
    <3>. QED  BY <1>5, <2>1, <3>2
  <2>2. CASE i # 1
    <3>. DEFINE k == i - 1
    <3>1. k \in 1 .. Len(fs) /\ k + 1 = i
      BY <2>2
    <3>. HIDE DEF k
    <3>2. LineSeq(more)[i] = <<more[k + 1]>> \o CRLF /\ more[k + 1] = fs[k]
      BY <1>1, <1>3, <3>1
    <3>3. (<<x>> \o LineSeq(fs))[k + 1] = <<fs[k]>> \o CRLF
      BY <1>4, <1>5, <3>1, Zenon
    <3>. QED  BY <3>1, <3>2, <3>3
  <2>. QED  BY <2>1, <2>2
<1>7. LineSeq(more) = <<x>> \o LineSeq(fs)
  <2>1. Len(LineSeq(more)) = Len(<<x>> \o LineSeq(fs)) /\ Len(LineSeq(more)) = Len(fs) + 1
    BY <1>1, <1>3, <1>5
  <2>. QED  BY <1>3, <1>5, <1>6, <2>1, SeqEqual
<1>8. FlattenSeq(<<x>> \o LineSeq(fs)) = x \o FlattenSeq(LineSeq(fs))
  BY <1>2, <1>4, FlattenOut
<1>9. LineBytes(more) = FlattenSeq(LineSeq(more)) /\ LineBytes(fs) = FlattenSeq(LineSeq(fs))
  BY DEF LineBytes, LineSeq
<1>10. LineBytes(more) = x \o LineBytes(fs)
  BY <1>7, <1>8, <1>9
<1>. QED  BY <1>1, <1>10 DEF more

Blocked(w, fs, t) ==
    /\ w \in Seq(Byte) /\ Len(w) = 3 * Len(fs) + 2 + Len(t)
    /\ \A j \in 1 .. Len(fs) : w[3 * j - 2] = fs[j] /\ w[3 * j - 1] = "CR" /\ w[3 * j] = "LF"
    /\ w[3 * Len(fs) + 1] = "CR" /\ w[3 * Len(fs) + 2] = "LF"
    /\ EraseFront(w, 3 * Len(fs)) = CRLF \o t
    /\ EraseFront(w, 3 * Len(fs) + 2) = t

LEMMA BlockOf ==
    ASSUME NEW fs \in Seq(Line), NEW t \in Seq(Byte)
    PROVE  Blocked(Block(fs, t), fs, t)
<1>. DEFINE a == LineBytes(fs)
            b == CRLF \o t
            w == a \o b
            k == Len(fs)
<1>1. /\ k \in Nat /\ a \in Seq(Byte) /\ Len(a) = 3 * k
      /\ \A j \in 1 .. k : a[3 * j - 2] = fs[0 + j] /\ a[3 * j - 1] = "CR" /\ a[3 * j] = "LF"
  BY LinesStand DEF Stand
<1>2. /\ b \in Seq(Byte) /\ Len(b) = 2 + Len(t) /\ b[1] = "CR" /\ b[2] = "LF"
      /\ EraseFront(b, 2) = t
  <2>1. CRLF \o t \in Seq(Byte) /\ Len(CRLF \o t) = Len(CRLF) + Len(t)
        /\ (\A i \in 1 .. Len(CRLF) : (CRLF \o t)[i] = CRLF[i]) /\ EraseFront(CRLF \o t, Len(CRLF)) = t
    BY NewLine, Concats, ErasesPart
  <2>2. 1 \in 1 .. 2 /\ 2 \in 1 .. 2
    OBVIOUS
  <2>. QED  BY <2>1, <2>2, NewLine
<1>. HIDE DEF a, b
<1>3. /\ w \in Seq(Byte) /\ Len(w) = 3 * k + 2 + Len(t)
      /\ \A i \in 1 .. 3 * k : w[i] = a[i]
      /\ \A i \in 1 .. Len(b) : w[3 * k + i] = b[i]
  <2>1. a \o b \in Seq(Byte) /\ Len(a \o b) = Len(a) + Len(b)
        /\ (\A i \in 1 .. Len(a) : (a \o b)[i] = a[i])
        /\ (\A i \in 1 .. Len(b) : (a \o b)[Len(a) + i] = b[i])
    BY <1>1, <1>2, Concats
  <2>. QED  BY <1>1, <1>2, <2>1
<1>4. EraseFront(w, 3 * k) = b
  <2>1. EraseFront(a \o b, Len(a)) = b
    BY <1>1, <1>2, ErasesPart
  <2>. QED  BY <1>1, <2>1
<1>5. EraseFront(w, 3 * k + 2) = t
  <2>1. 2 \in 0 .. Len(b)
    BY <1>2
  <2>2. EraseFront(a \o b, Len(a) + 2) = EraseFront(b, 2)
    BY <1>1, <1>2, <2>1, ErasesPart
  <2>. QED  BY <1>1, <1>2, <2>2
<1>. HIDE DEF w
<1>6. ASSUME NEW j \in 1 .. k  PROVE w[3 * j - 2] = fs[j] /\ w[3 * j - 1] = "CR" /\ w[3 * j] = "LF"
  <2>1. 3 * j - 2 \in 1 .. 3 * k /\ 3 * j - 1 \in 1 .. 3 * k /\ 3 * j \in 1 .. 3 * k /\ 0 + j = j
    BY <1>1
  <2>. QED  BY <1>1, <1>3, <2>1
<1>7. w[3 * k + 1] = "CR" /\ w[3 * k + 2] = "LF"
  <2>1. 1 \in 1 .. Len(b) /\ 2 \in 1 .. Len(b)
    BY <1>2
  <2>. QED  BY <1>2, <1>3, <2>1
<1>8. w = Block(fs, t)
  BY DEF w, a, b, Block
<1>. QED  BY <1>2, <1>3, <1>4, <1>5, <1>6, <1>7, <1>8 DEF b, Blocked

LEMMA BlockMore ==
    ASSUME NEW l \in Line, NEW fs \in Seq(Line), NEW t \in Seq(Byte)
    PROVE  /\ Block(<<l>> \o fs, t) = (<<l>> \o CRLF) \o Block(fs, t)
           /\ Block(<<l>> \o fs, t)[1] = l
           /\ EraseFront(Block(<<l>> \o fs, t), 3) = Block(fs, t)
<1>. DEFINE x == <<l>> \o CRLF
            a == LineBytes(fs)
            b == CRLF \o t
<1>1. x \in Seq(Byte) /\ Len(x) = 3 /\ x[1] = l
  BY OneLine
<1>2. a \in Seq(Byte) /\ b \in Seq(Byte)
  BY LineBytesOf, NewLine, Concats
<1>3. LineBytes(<<l>> \o fs) = x \o a
  BY LineBytesMore
<1>4. Block(<<l>> \o fs, t) = (x \o a) \o b
  BY <1>3 DEF Block
<1>5. Block(fs, t) = a \o b
  BY DEF Block
<1>. HIDE DEF x, a, b
<1>6. (x \o a) \o b = x \o (a \o b) /\ a \o b \in Seq(Byte)
  BY <1>1, <1>2, Regroups, Concats
<1>7. EraseFront(x \o (a \o b), 3) = a \o b
  <2>1. EraseFront(x \o (a \o b), Len(x)) = a \o b
    BY <1>1, <1>6, ErasesPart, Zenon
  <2>. QED  BY <1>1, <2>1
<1>8. (x \o (a \o b))[1] = l
  <2>1. 1 \in 1 .. Len(x)
    BY <1>1
  <2>2. \A i \in 1 .. Len(x) : (x \o (a \o b))[i] = x[i]
    BY <1>1, <1>6, Concats
  <2>. QED  BY <1>1, <2>1, <2>2
<1>. QED  BY <1>4, <1>5, <1>6, <1>7, <1>8 DEF x

\* What is received of a sequence agrees with it.
Agrees(b, w) ==
    /\ Len(b) <= Len(w) /\ Len(b) \in Nat /\ Len(w) \in Nat
    /\ \A p \in 1 .. Len(b) : b[p] = w[p]
    /\ \A p \in Nat \ {0} : NewLineAt(b, p) <=> p + 1 <= Len(b) /\ NewLineAt(w, p)

LEMMA Received ==
    ASSUME NEW b \in Seq(Byte), NEW x \in Seq(Byte), NEW w, w = b \o x
    PROVE  Agrees(b, w)
<1>1. w \in Seq(Byte) /\ Len(w) = Len(b) + Len(x) /\ \A i \in 1 .. Len(b) : w[i] = b[i]
  BY Concats
<1>2. Len(b) <= Len(w) /\ Len(b) \in Nat /\ Len(w) \in Nat
  BY <1>1
<1>3. ASSUME NEW p \in Nat \ {0}  PROVE NewLineAt(b, p) <=> p + 1 <= Len(b) /\ NewLineAt(w, p)
  <2>1. CASE p + 1 <= Len(b)
    <3>1. p \in 1 .. Len(b) /\ p + 1 \in 1 .. Len(b) /\ p + 1 <= Len(w)
      BY <1>2, <2>1
    <3>2. w[p] = b[p] /\ w[p + 1] = b[p + 1]
      BY <1>1, <3>1
    <3>. QED  BY <2>1, <3>1, <3>2 DEF NewLineAt
  <2>2. CASE ~(p + 1 <= Len(b))
    BY <2>2 DEF NewLineAt
  <2>. QED  BY <2>1, <2>2
<1>. QED  BY <1>1, <1>2, <1>3 DEF Agrees

\* The line ends of a block.
LEMMA BlockLineEnds ==
    ASSUME NEW fs \in Seq(Line), NEW t \in Seq(Byte), NEW w, Blocked(w, fs, t),
           NEW p \in Nat \ {0}, NewLineAt(w, p), p <= 3 * Len(fs) + 1
    PROVE  (\E j \in 1 .. Len(fs) : p = 3 * j - 1) \/ p = 3 * Len(fs) + 1
<1>. DEFINE k == Len(fs)
<1>1. /\ k \in Nat
      /\ \A j \in 1 .. k : w[3 * j - 2] = fs[j] /\ w[3 * j - 1] = "CR" /\ w[3 * j] = "LF"
  BY DEF Blocked
<1>2. w[p] = "CR"
  BY DEF NewLineAt
<1>3. CASE p <= 3 * k
  <2>0. p \in 1 .. 3 * k
    BY <1>1, <1>3
  <2>1. PICK j \in 1 .. k : p = 3 * j - 2 \/ p = 3 * j - 1 \/ p = 3 * j
    BY <1>1, <2>0, Thirds
  <2>2. p # 3 * j - 2
    <3>1. fs[j] \in Line
      OBVIOUS
    <3>2. fs[j] # "CR"
      BY <3>1, Tokens
    <3>. QED  BY <1>1, <1>2, <3>2
  <2>3. p # 3 * j
    BY <1>1, <1>2, Tokens
  <2>. QED  BY <2>1, <2>2, <2>3
<1>4. CASE ~(p <= 3 * k)
  <2>1. k \in Nat
    OBVIOUS
  <2>2. p = 3 * k + 1
    BY <1>4, <2>1
  <2>. QED  BY <2>2
<1>. QED  BY <1>3, <1>4

\* An empty line in what is received of a block is behind all its lines.
LEMMA HeadWhole ==
    ASSUME NEW fs \in Seq(Line), NEW t \in Seq(Byte), NEW w, Blocked(w, fs, t),
           NEW b \in Seq(Byte), NEW x \in Seq(Byte), w = b \o x, Find(CRLF \o CRLF, b) # 0
    PROVE  3 * Len(fs) + 2 <= Len(b)
<1>. DEFINE k == Len(fs)
<1>1. PICK p \in Nat \ {0} : NewLineAt(b, p) /\ NewLineAt(b, p + 2)
  BY FindEmptyLine
<1>2. p + 2 \in Nat \ {0} /\ p + 2 + 1 = p + 3 /\ k \in Nat /\ Len(b) \in Nat
  OBVIOUS
<1>3. NewLineAt(w, p) /\ NewLineAt(w, p + 2) /\ p + 3 <= Len(b)
  BY <1>1, <1>2, Received DEF Agrees
<1>4. CASE p < 3 * k - 1
  <2>1. p <= 3 * k + 1
    BY <1>2, <1>4
  <2>2. PICK j \in 1 .. k : p = 3 * j - 1
    <3>1. (\E j \in 1 .. k : p = 3 * j - 1) \/ p = 3 * k + 1
      BY <1>3, <2>1, BlockLineEnds
    <3>. QED  BY <1>2, <1>4, <3>1
  <2>3. j + 1 \in 1 .. k /\ p + 2 = 3 * (j + 1) - 2
    BY <1>2, <1>4, <2>2
  <2>4. w[3 * (j + 1) - 2] = fs[j + 1]
    BY <2>3 DEF Blocked
  <2>5. fs[j + 1] # "CR"
    <3>1. fs[j + 1] \in Line
      BY <2>3
    <3>. QED  BY <3>1, Tokens
  <2>. QED  BY <1>3, <2>3, <2>4, <2>5 DEF NewLineAt
<1>5. CASE ~(p < 3 * k - 1)
  BY <1>2, <1>3, <1>5
<1>. QED  BY <1>4, <1>5

\* And it is found when they are there.
LEMMA HeadFound ==
    ASSUME NEW fs \in Seq(Line), NEW t \in Seq(Byte), NEW w, Blocked(w, fs, t),
           NEW b \in Seq(Byte), NEW x \in Seq(Byte), w = b \o x, fs # <<>>, 3 * Len(fs) + 2 <= Len(b)
    PROVE  Find(CRLF \o CRLF, b) # 0
<1>. DEFINE k == Len(fs)
            p == 3 * k - 1
<1>1. k \in Nat /\ k \in 1 .. k /\ p \in Nat \ {0} /\ p + 2 \in Nat \ {0} /\ p + 2 + 1 = 3 * k + 2
      /\ p + 1 = 3 * k /\ p + 2 = 3 * k + 1 /\ Len(b) \in Nat
  OBVIOUS
<1>2. /\ w[3 * k - 1] = "CR" /\ w[3 * k] = "LF" /\ w[3 * k + 1] = "CR" /\ w[3 * k + 2] = "LF"
      /\ Len(w) = 3 * k + 2 + Len(t) /\ Len(t) \in Nat
  BY <1>1 DEF Blocked
<1>3. p + 1 <= Len(w) /\ p + 2 + 1 <= Len(w) /\ p + 1 <= Len(b) /\ p + 2 + 1 <= Len(b)
  BY <1>1, <1>2
<1>4. NewLineAt(w, p) /\ NewLineAt(w, p + 2)
  BY <1>1, <1>2, <1>3 DEF NewLineAt
<1>5. NewLineAt(b, p) /\ NewLineAt(b, p + 2)
  BY <1>1, <1>3, <1>4, Received DEF Agrees
<1>. QED  BY <1>1, <1>5, FindEmptyLine

\* The field lines counted in what is received of a block.
LEMMA FieldLinesOf ==
    ASSUME NEW fs \in Seq(Fields), NEW t \in Seq(Byte), NEW w, Blocked(w, fs, t),
           NEW b \in Seq(Byte), NEW x \in Seq(Byte), w = b \o x
    PROVE  /\ FieldLines(b) \in 0 .. Len(fs) /\ 3 * FieldLines(b) <= Len(b)
           /\ \A m \in 0 .. Len(fs) : 3 * m <= Len(b) => m <= FieldLines(b)
<1>. DEFINE k == Len(fs)
            n == FieldLines(b)
<1>1. fs \in Seq(Line) /\ Len(b) \in Nat /\ k \in Nat /\ \A j \in 1 .. k : fs[j] \in Fields
  BY DEF Line
<1>2. /\ n \in Nat /\ 3 * n <= Len(b) /\ FieldLinesAt(b, n)
      /\ \A m \in Nat : 3 * m <= Len(b) /\ FieldLinesAt(b, m) => m <= n
  BY <1>1, FieldLinesMost
<1>. HIDE DEF n
<1>3. /\ \A j \in 1 .. k : w[3 * j - 2] = fs[j] /\ w[3 * j - 1] = "CR" /\ w[3 * j] = "LF"
      /\ w[3 * k + 1] = "CR" /\ w \in Seq(Byte)
  BY DEF Blocked
<1>4. /\ Len(b) <= Len(w) /\ Len(b) \in Nat /\ Len(w) \in Nat
      /\ \A p \in 1 .. Len(b) : b[p] = w[p]
      /\ \A p \in Nat \ {0} : NewLineAt(b, p) <=> p + 1 <= Len(b) /\ NewLineAt(w, p)
  <2>1. Agrees(b, w)
    BY Received
  <2>. QED  BY <2>1 DEF Agrees
<1>5. n <= k
  <2>. SUFFICES ASSUME n > k  PROVE FALSE
    BY <1>1, <1>2
  <2>1. k + 1 \in 1 .. n /\ 3 * (k + 1) - 2 = 3 * k + 1 /\ 3 * k + 1 \in 1 .. Len(b)
    BY <1>1, <1>2
  <2>2. b[3 * k + 1] \in Fields
    BY <1>2, <2>1 DEF FieldLinesAt
  <2>3. b[3 * k + 1] = "CR"
    BY <1>3, <1>4, <2>1
  <2>. QED  BY <2>2, <2>3, Tokens DEF Line
<1>6. ASSUME NEW m \in 0 .. k, 3 * m <= Len(b)  PROVE m <= n
  <2>1. ASSUME NEW j \in 1 .. m  PROVE b[3 * j - 2] \in Fields /\ NewLineAt(b, 3 * j - 1)
    <3>1. j \in 1 .. k /\ 3 * j - 2 \in 1 .. Len(b) /\ 3 * j - 1 \in Nat \ {0} /\ 3 * j - 1 + 1 = 3 * j
          /\ 3 * j <= Len(b) /\ 3 * j <= Len(w)
      BY <1>1, <1>3, <1>4, <1>6
    <3>2. b[3 * j - 2] \in Fields
      BY <1>1, <1>3, <1>4, <3>1
    <3>3. NewLineAt(w, 3 * j - 1)
      BY <1>3, <3>1 DEF NewLineAt
    <3>. QED  BY <1>4, <3>1, <3>2, <3>3
  <2>2. FieldLinesAt(b, m) /\ m \in Nat
    BY <2>1 DEF FieldLinesAt
  <2>. QED  BY <1>2, <1>6, <2>2
<1>. QED  BY <1>1, <1>2, <1>5, <1>6 DEF n

-------------------------------------------------------------------------------
(* Empty lines in front of a request                                           *)

LEMMA EraseTwice ==
    ASSUME NEW s \in Seq(Byte), NEW i \in 0 .. Len(s), NEW j \in 0 .. (Len(s) - i)
    PROVE  EraseFront(EraseFront(s, i), j) = EraseFront(s, i + j)
<1>. DEFINE a == EraseFront(s, i)
            x == EraseFront(a, j)
            y == EraseFront(s, i + j)
<1>1. /\ Len(s) \in Nat /\ a \in Seq(Byte) /\ Len(a) = Len(s) - i
      /\ \A m \in 1 .. (Len(s) - i) : a[m] = s[i + m]
  BY Erases
<1>. HIDE DEF a
<1>2. /\ x \in Seq(Byte) /\ Len(x) = Len(a) - j
      /\ \A m \in 1 .. (Len(a) - j) : x[m] = a[j + m]
  BY <1>1, Erases
<1>3. i + j \in 0 .. Len(s)
  BY <1>1
<1>4. /\ y \in Seq(Byte) /\ Len(y) = Len(s) - (i + j)
      /\ \A m \in 1 .. (Len(s) - (i + j)) : y[m] = s[i + j + m]
  BY <1>3, Erases
<1>. HIDE DEF x, y
<1>5. ASSUME NEW m \in 1 .. Len(x)  PROVE x[m] = y[m]
  <2>1. /\ m \in 1 .. (Len(a) - j) /\ j + m \in 1 .. (Len(s) - i)
        /\ m \in 1 .. (Len(s) - (i + j)) /\ i + (j + m) = i + j + m
    BY <1>1, <1>2
  <2>. QED  BY <1>1, <1>2, <1>4, <2>1
<1>6. Len(x) = Len(y)
  BY <1>1, <1>2, <1>4
<1>7. x = y
  BY <1>2, <1>4, <1>5, <1>6, SeqEqual
<1>. QED  BY <1>7 DEF x, y, a

LEMMA LineEndsShift ==
    ASSUME NEW s \in Seq(Byte), NEW k \in 0 .. Len(s), NEW p \in Nat \ {0}
    PROVE  NewLineAt(EraseFront(s, k), p) <=> NewLineAt(s, k + p)
<1>. DEFINE a == EraseFront(s, k)
<1>1. /\ Len(s) \in Nat /\ a \in Seq(Byte) /\ Len(a) = Len(s) - k
      /\ \A m \in 1 .. (Len(s) - k) : a[m] = s[k + m]
  BY Erases
<1>. HIDE DEF a
<1>2. p + 1 <= Len(a) <=> k + p + 1 <= Len(s)
  BY <1>1
<1>3. CASE p + 1 <= Len(a)
  <2>1. p \in 1 .. (Len(s) - k) /\ p + 1 \in 1 .. (Len(s) - k) /\ k + (p + 1) = k + p + 1
    BY <1>1, <1>3
  <2>2. a[p] = s[k + p] /\ a[p + 1] = s[k + p + 1]
    BY <1>1, <2>1
  <2>. QED  BY <1>2, <1>3, <2>2 DEF NewLineAt, a
<1>4. CASE ~(p + 1 <= Len(a))
  BY <1>2, <1>4 DEF NewLineAt, a
<1>. QED  BY <1>3, <1>4

\* s is p behind some empty lines.
EmptyLinesOf(s, p, e) ==
    /\ e \in Nat /\ 2 * e + Len(p) = Len(s) /\ EraseFront(s, 2 * e) = p
    /\ \A j \in 1 .. e : NewLineAt(s, 2 * j - 1)
EmptyLines(s, p) == \E e : EmptyLinesOf(s, p, e)

\* Nothing or no empty line comes first.
Starts(p) == p \in Seq(Byte) /\ (Len(p) > 0 => p[1] # "CR")

LEMMA EmptyLinesNone ==
    ASSUME NEW p \in Seq(Byte)
    PROVE  EmptyLines(p, p)
<1>1. 2 * 0 + Len(p) = Len(p) /\ 2 * 0 = 0
  OBVIOUS
<1>2. EmptyLinesOf(p, p, 0)
  BY <1>1, Erases DEF EmptyLinesOf
<1>. QED  BY <1>2 DEF EmptyLines

LEMMA EmptyLinesOne ==
    ASSUME NEW p \in Seq(Byte)
    PROVE  EmptyLines(CRLF \o p, p)
<1>. DEFINE s == CRLF \o p
<1>0. Len(p) \in Nat
  OBVIOUS
<1>1. /\ s \in Seq(Byte) /\ Len(s) = Len(CRLF) + Len(p)
      /\ \A i \in 1 .. Len(CRLF) : s[i] = CRLF[i]
  BY NewLine, Concats
<1>2. EraseFront(s, 2) = p
  <2>1. EraseFront(CRLF \o p, Len(CRLF)) = p
    BY NewLine, ErasesPart, Zenon
  <2>. QED  BY <2>1, NewLine
<1>. HIDE DEF s
<1>3. 2 * 1 = 2 /\ 2 * 1 - 1 = 1 /\ 1 + 1 = 2 /\ 1 \in 1 .. 2 /\ 2 \in 1 .. 2 /\ \A j \in 1 .. 1 : j = 1
  OBVIOUS
<1>4. NewLineAt(s, 1)
  BY <1>0, <1>1, <1>3, NewLine DEF NewLineAt
<1>5. EmptyLinesOf(s, p, 1)
  BY <1>0, <1>1, <1>2, <1>3, <1>4, NewLine DEF EmptyLinesOf
<1>. QED  BY <1>5 DEF EmptyLines, s

LEMMA EmptyLinesMore ==
    ASSUME NEW s \in Seq(Byte), NEW p \in Seq(Byte), EmptyLines(s, p), NEW x \in Seq(Byte)
    PROVE  EmptyLines(s \o x, p \o x)
<1>1. PICK e : EmptyLinesOf(s, p, e)
  BY DEF EmptyLines
<1>2. /\ e \in Nat /\ 2 * e + Len(p) = Len(s) /\ EraseFront(s, 2 * e) = p
      /\ \A j \in 1 .. e : NewLineAt(s, 2 * j - 1)
  BY <1>1 DEF EmptyLinesOf
<1>. DEFINE w == s \o x
            q == p \o x
<1>3. w \in Seq(Byte) /\ Len(w) = Len(s) + Len(x) /\ Len(q) = Len(p) + Len(x)
      /\ Len(s) \in Nat /\ Len(x) \in Nat /\ Len(p) \in Nat
  BY Concats
<1>4. 2 * e + Len(q) = Len(w) /\ 2 * e \in 0 .. Len(s)
  <2>1. e \in Nat /\ 2 * e + Len(p) = Len(s)
    BY <1>2
  <2>2. \A a, b, c, d \in Nat : 2 * a + b = c => 2 * a + (b + d) = c + d /\ 2 * a \in 0 .. c
    OBVIOUS
  <2>. HIDE DEF w, q
  <2>3. Len(s) \in Nat /\ Len(x) \in Nat /\ Len(p) \in Nat
    BY <1>3
  <2>4. 2 * e + (Len(p) + Len(x)) = Len(s) + Len(x) /\ 2 * e \in 0 .. Len(s)
    BY <2>1, <2>2, <2>3
  <2>5. Len(w) = Len(s) + Len(x) /\ Len(q) = Len(p) + Len(x)
    BY <1>3
  <2>. QED  BY <2>4, <2>5, Zenon
<1>5. EraseFront(w, 2 * e) = q
  <2>1. EraseFront(s, 2 * e) \o x = EraseFront(s \o x, 2 * e)
    BY <1>4, ErasesPart
  <2>. QED  BY <1>2, <2>1
<1>6. ASSUME NEW j \in 1 .. e  PROVE NewLineAt(w, 2 * j - 1)
  <2>1. 2 * j - 1 \in Nat \ {0} /\ NewLineAt(s, 2 * j - 1)
    BY <1>2
  <2>2. Agrees(s, w)
    BY Received
  <2>. QED  BY <2>1, <2>2 DEF Agrees
<1>. HIDE DEF w, q
<1>7. EmptyLinesOf(w, q, e)
  BY <1>2, <1>4, <1>5, <1>6 DEF EmptyLinesOf
<1>. QED  BY <1>7 DEF EmptyLines, w, q

LEMMA NoneLeft ==
    ASSUME NEW s \in Seq(Byte), NEW p \in Seq(Byte), EmptyLines(s, p), ~NewLineAt(s, 1)
    PROVE  s = p
<1>1. PICK e : EmptyLinesOf(s, p, e)
  BY DEF EmptyLines
<1>2. e = 0
  <2>1. 2 * 1 - 1 = 1 /\ (e \in Nat => e = 0 \/ 1 \in 1 .. e)
    OBVIOUS
  <2>. QED  BY <1>1, <2>1 DEF EmptyLinesOf
<1>3. 2 * 0 = 0
  OBVIOUS
<1>. QED  BY <1>1, <1>2, <1>3, Erases DEF EmptyLinesOf

\* Stripping what is received of it takes nothing of p.
LEMMA StripsPart ==
    ASSUME NEW b \in Seq(Byte), NEW x \in Seq(Byte), NEW p, Starts(p), EmptyLines(b \o x, p)
    PROVE  /\ Stripped(b) \in Seq(Byte)
           /\ EmptyLines(Stripped(b) \o x, p)
           /\ ~NewLineAt(Stripped(b), 1)
<1>. DEFINE s == b \o x
            n == LeadingNewLines(b)
            t == EraseFront(s, 2 * n)
<1>1. PICK e : EmptyLinesOf(s, p, e)
  BY DEF EmptyLines
<1>2. /\ e \in Nat /\ 2 * e + Len(p) = Len(s) /\ EraseFront(s, 2 * e) = p
      /\ \A j \in 1 .. e : NewLineAt(s, 2 * j - 1)
  BY <1>1 DEF EmptyLinesOf
<1>3. /\ n \in Nat /\ 2 * n <= Len(b) /\ Len(b) \in Nat
      /\ \A j \in 1 .. n : NewLineAt(b, 2 * j - 1)
      /\ \A k \in Nat : 2 * k <= Len(b) /\ (\A j \in 1 .. k : NewLineAt(b, 2 * j - 1)) => k <= n
  <2>1. Len(b) \in Nat
    OBVIOUS
  <2>. QED  BY <2>1, LeadingMost
<1>4. s \in Seq(Byte) /\ Len(s) \in Nat /\ Len(b) <= Len(s) /\ p \in Seq(Byte) /\ Len(p) \in Nat
      /\ (Len(p) > 0 => p[1] # "CR") /\ Agrees(b, s)
  <2>1. Agrees(b, s)
    BY Received
  <2>. QED  BY <2>1, Concats DEF Starts, Agrees
<1>. HIDE DEF s, n
<1>5. \A j \in 1 .. n : NewLineAt(s, 2 * j - 1)
  <2>1. \A j \in 1 .. n : 2 * j - 1 \in Nat \ {0}
    BY <1>3
  <2>. QED  BY <1>3, <1>4, <2>1 DEF Agrees
<1>6. n <= e
  <2>. SUFFICES ASSUME n > e  PROVE FALSE
    BY <1>2, <1>3
  <2>1. e + 1 \in 1 .. n /\ 2 * (e + 1) - 1 = 2 * e + 1 /\ 1 \in Nat \ {0}
    BY <1>2, <1>3
  <2>2. NewLineAt(s, 2 * e + 1) /\ 2 * e \in 0 .. Len(s)
    BY <1>2, <1>4, <1>5, <2>1
  <2>3. NewLineAt(EraseFront(s, 2 * e), 1)
    BY <1>4, <2>1, <2>2, LineEndsShift
  <2>4. 1 + 1 <= Len(p) /\ p[1] = "CR"
    BY <1>2, <2>3 DEF NewLineAt
  <2>. QED  BY <1>4, <2>4
<1>7. 2 * n \in 0 .. Len(s) /\ 2 * n \in 0 .. Len(b)
  BY <1>3, <1>4
<1>8. t \in Seq(Byte) /\ Len(t) = Len(s) - 2 * n
  BY <1>4, <1>7, Erases
<1>9. Stripped(b) \in Seq(Byte) /\ Stripped(b) \o x = t
  <2>1. Stripped(b) = EraseFront(b, 2 * n)
    BY DEF Stripped, n
  <2>2. EraseFront(b, 2 * n) \in Seq(Byte)
    BY <1>7, Erases
  <2>3. EraseFront(b, 2 * n) \o x = EraseFront(b \o x, 2 * n)
    BY <1>7, ErasesPart
  <2>. QED  BY <2>1, <2>2, <2>3 DEF s
<1>10. EmptyLinesOf(t, p, e - n)
  <2>1. e - n \in Nat /\ 2 * (e - n) + Len(p) = Len(t)
    BY <1>2, <1>3, <1>4, <1>6, <1>8
  <2>2. 2 * (e - n) \in 0 .. (Len(s) - 2 * n) /\ 2 * n + 2 * (e - n) = 2 * e
    BY <1>2, <1>3, <1>4, <1>6
  <2>3. EraseFront(t, 2 * (e - n)) = p
    <3>1. EraseFront(EraseFront(s, 2 * n), 2 * (e - n)) = EraseFront(s, 2 * n + 2 * (e - n))
      BY <1>4, <1>7, <2>2, EraseTwice
    <3>. QED  BY <1>2, <2>2, <3>1
  <2>4. ASSUME NEW j \in 1 .. (e - n)  PROVE NewLineAt(t, 2 * j - 1)
    <3>1. j + n \in 1 .. e /\ 2 * n + (2 * j - 1) = 2 * (j + n) - 1 /\ 2 * j - 1 \in Nat \ {0}
      BY <1>2, <1>3, <2>1
    <3>2. NewLineAt(s, 2 * n + (2 * j - 1))
      BY <1>2, <3>1
    <3>. QED  BY <1>4, <1>7, <3>1, <3>2, LineEndsShift
  <2>. QED  BY <2>1, <2>3, <2>4 DEF EmptyLinesOf
<1>11. ~NewLineAt(Stripped(b), 1)
  <2>. SUFFICES ASSUME NewLineAt(Stripped(b), 1)  PROVE FALSE
    OBVIOUS
  <2>1. NewLineAt(EraseFront(b, 2 * n), 1) /\ 1 \in Nat \ {0}
    BY DEF Stripped, n
  <2>2. NewLineAt(b, 2 * n + 1)
    BY <1>7, <2>1, LineEndsShift
  <2>3. n + 1 \in Nat /\ 2 * (n + 1) - 1 = 2 * n + 1 /\ 2 * (n + 1) = 2 * n + 1 + 1 /\ ~(n + 1 <= n)
        /\ \A j \in 1 .. (n + 1) : j \in 1 .. n \/ j = n + 1
    BY <1>3
  <2>4. 2 * (n + 1) <= Len(b)
    BY <2>2, <2>3 DEF NewLineAt
  <2>5. \A j \in 1 .. (n + 1) : NewLineAt(b, 2 * j - 1)
    BY <1>3, <2>2, <2>3
  <2>. QED  BY <1>3, <2>3, <2>4, <2>5
<1>. QED  BY <1>9, <1>10, <1>11 DEF EmptyLines

LEMMA StripsTo ==
    ASSUME NEW s \in Seq(Byte), NEW p, Starts(p), EmptyLines(s, p)
    PROVE  Stripped(s) = p
<1>1. s \o <<>> = s /\ <<>> \in Seq(Byte)
  BY Regroups
<1>2. /\ Stripped(s) \in Seq(Byte) /\ EmptyLines(Stripped(s) \o <<>>, p) /\ ~NewLineAt(Stripped(s), 1)
  BY <1>1, StripsPart
<1>3. Stripped(s) \o <<>> = Stripped(s)
  BY <1>2, Regroups
<1>. QED  BY <1>2, <1>3, NoneLeft DEF Starts

-------------------------------------------------------------------------------
(* The bytes of a chunk                                                        *)

LEMMA Digits ==
    ASSUME NEW n \in 0 .. 3
    PROVE  /\ InHex[n] \in DOMAIN Digit /\ Digit[InHex[n]] = n
           /\ n = 0 => InHex[n] = "0"
<1>1. \E d \in DOMAIN Digit : Digit[d] = n
  BY DEF Digit
<1>2. InHex[n] = CHOOSE d \in DOMAIN Digit : Digit[d] = n
  BY DEF InHex
<1>3. InHex[n] \in DOMAIN Digit /\ Digit[InHex[n]] = n
  BY <1>1, <1>2
<1>4. \A d \in DOMAIN Digit : Digit[d] = 0 => d = "0"
  BY DEF Digit
<1>. QED  BY <1>3, <1>4

\* The size a chunk says is what ParseChunkSizeLine() makes of it.
LEMMA OneDigit ==
    ASSUME NEW d \in DOMAIN Digit, Digit[d] \in Nat
    PROVE  ChunkSize(<<d>>) = Digit[d]
<1>. DEFINE Op(n, b) == IF b \in DOMAIN Digit THEN n * 16 + Digit[b] ELSE n
            Eq(it) == it = [s \in SUBSET (1 .. 1) |->
                              IF s = {} THEN 0 ELSE Op(it[s \ {Max(s)}], <<d>>[Max(s)])]
            c == CHOOSE it : Eq(it)
            f == [s \in SUBSET (1 .. 1) |-> IF s = {} THEN 0 ELSE Digit[d]]
<1>1. ChunkSize(<<d>>) = c[1 .. 1]
  <2>1. DOMAIN <<d>> = 1 .. 1
    OBVIOUS
  <2>. QED  BY <2>1 DEF ChunkSize, FoldLeft, MapThenFoldSet
<1>2. /\ \A s \in SUBSET (1 .. 1) : s = {} \/ s = 1 .. 1
      /\ 1 .. 1 # {} /\ Max(1 .. 1) = 1 /\ (1 .. 1) \ {1} = {} /\ {} \in SUBSET (1 .. 1)
      /\ <<d>>[1] = d
  <2>1. 1 .. 1 = {1}
    OBVIOUS
  <2>2. Max({1}) = 1
    BY DEF Max
  <2>. QED  BY <2>1, <2>2
<1>3. Op(0, d) = Digit[d]
  OBVIOUS
<1>. HIDE DEF Op
<1>4. Eq(f)
  <2>1. f[{}] = 0
    BY <1>2
  <2>2. ASSUME NEW s \in SUBSET (1 .. 1)
        PROVE  f[s] = IF s = {} THEN 0 ELSE Op(f[s \ {Max(s)}], <<d>>[Max(s)])
    <3>1. CASE s = {}
      BY <2>1, <3>1
    <3>2. CASE s = 1 .. 1
      <4>1. f[s] = Digit[d]
        BY <1>2, <3>2
      <4>2. s # {} /\ Max(s) = 1 /\ s \ {Max(s)} = {} /\ <<d>>[Max(s)] = d
        BY <1>2, <3>2
      <4>. HIDE DEF f
      <4>. QED  BY <1>3, <2>1, <4>1, <4>2
    <3>. QED  BY <1>2, <3>1, <3>2
  <2>3. f = [s \in SUBSET (1 .. 1) |-> f[s]]
    OBVIOUS
  <2>. HIDE DEF f
  <2>. QED  BY <2>2, <2>3
<1>5. Eq(c)
  <2>. HIDE DEF Eq, f
  <2>. QED  BY <1>4
<1>. HIDE DEF c
<1>6. c[{}] = 0
  BY <1>2, <1>5
<1>7. c[1 .. 1] = Op(c[(1 .. 1) \ {Max(1 .. 1)}], <<d>>[Max(1 .. 1)])
  <2>1. \A s \in SUBSET (1 .. 1) : c[s] = IF s = {} THEN 0 ELSE Op(c[s \ {Max(s)}], <<d>>[Max(s)])
    BY <1>5
  <2>2. 1 .. 1 \in SUBSET (1 .. 1)
    OBVIOUS
  <2>. QED  BY <1>2, <2>1, <2>2, Zenon
<1>8. c[1 .. 1] = Op(0, d)
  BY <1>2, <1>6, <1>7
<1>. QED  BY <1>1, <1>3, <1>8

\* A size line and what follows.
Sizes(w, d, y) ==
    /\ w \in Seq(Byte) /\ Len(w) = 3 + Len(y) /\ Len(y) \in Nat
    /\ w[1] = d /\ w[2] = "CR" /\ w[3] = "LF"
    /\ \A j \in 1 .. Len(y) : w[3 + j] = y[j]
    /\ EraseFront(w, 3) = y

LEMMA SizeLine ==
    ASSUME NEW d \in DOMAIN Digit, NEW y \in Seq(Byte)
    PROVE  Sizes(<<d>> \o (CRLF \o y), d, y)
<1>. DEFINE x == <<d>> \o CRLF
            w == x \o y
<1>1. <<d>> \in Seq(Byte) /\ d # "CR"
  BY Tokens
<1>2. x \in Seq(Byte) /\ Len(x) = 3 /\ x[1] = d /\ x[2] = "CR" /\ x[3] = "LF"
  <2>1. /\ x \in Seq(Byte) /\ Len(x) = Len(<<d>>) + Len(CRLF)
        /\ \A i \in 1 .. Len(<<d>>) : x[i] = <<d>>[i]
        /\ \A i \in 1 .. Len(CRLF) : x[Len(<<d>>) + i] = CRLF[i]
    BY <1>1, NewLine, Concats
  <2>2. Len(<<d>>) = 1 /\ <<d>>[1] = d /\ 1 \in 1 .. 1 /\ 1 \in 1 .. 2 /\ 2 \in 1 .. 2
        /\ 1 + 1 = 2 /\ 1 + 2 = 3
    OBVIOUS
  <2>. HIDE DEF x
  <2>. QED  BY <2>1, <2>2, NewLine
<1>3. <<d>> \o (CRLF \o y) = x \o y
  BY <1>1, NewLine, Regroups
<1>. HIDE DEF x
<1>4. /\ w \in Seq(Byte) /\ Len(w) = Len(x) + Len(y)
      /\ \A i \in 1 .. Len(x) : w[i] = x[i]
      /\ \A i \in 1 .. Len(y) : w[Len(x) + i] = y[i]
  BY <1>2, Concats
<1>5. EraseFront(w, Len(x)) = y
  BY <1>2, ErasesPart
<1>6. 1 \in 1 .. 3 /\ 2 \in 1 .. 3 /\ 3 \in 1 .. 3 /\ Len(y) \in Nat
  OBVIOUS
<1>. HIDE DEF w
<1>7. Sizes(w, d, y)
  BY <1>2, <1>4, <1>5, <1>6 DEF Sizes
<1>. QED  BY <1>3, <1>7 DEF w

\* A chunk, its data and its end, and what follows.
Chunks(w, c, x) ==
    /\ \E y : Sizes(w, InHex[c.size], y)
    /\ Len(w) = 5 + Len(c.data) + Len(x) /\ Len(c.data) \in Nat /\ Len(x) \in Nat
    /\ \A j \in 1 .. Len(c.data) : w[3 + j] = c.data[j]
    /\ w[Len(c.data) + 4] = "CR" /\ w[Len(c.data) + 5] = "LF"
    /\ EraseFront(w, Len(c.data) + 5) = x

LEMMA ChunkStands ==
    ASSUME NEW c, c.size \in 0 .. 3, c.data \in Seq(Byte), NEW x \in Seq(Byte)
    PROVE  /\ ChunkBytes(c) \in Seq(Byte)
           /\ Chunks(ChunkBytes(c) \o x, c, x)
<1>. DEFINE d == InHex[c.size]
            a == c.data
            e == CRLF \o x
            y == a \o e
            w == <<d>> \o (CRLF \o y)
            n == Len(a)
<1>1. d \in DOMAIN Digit /\ <<d>> \in Seq(Byte) /\ a \in Seq(Byte)
  BY Digits, Tokens
<1>. HIDE DEF d
<1>2. e \in Seq(Byte) /\ Len(e) = 2 + Len(x) /\ Len(x) \in Nat /\ e[1] = "CR" /\ e[2] = "LF"
      /\ EraseFront(e, 2) = x
  <2>0. Len(x) \in Nat /\ 1 \in 1 .. 2 /\ 2 \in 1 .. 2
    OBVIOUS
  <2>1. e \in Seq(Byte) /\ Len(e) = Len(CRLF) + Len(x) /\ (\A i \in 1 .. Len(CRLF) : e[i] = CRLF[i])
    BY NewLine, Concats
  <2>2. EraseFront(e, Len(CRLF)) = x
    BY NewLine, ErasesPart
  <2>. HIDE DEF e
  <2>. QED  BY <2>0, <2>1, <2>2, NewLine
<1>3. ChunkBytes(c) \in Seq(Byte) /\ ChunkBytes(c) \o x = w
  <2>. DEFINE u == a \o CRLF
              v == CRLF \o u
  <2>1. ChunkBytes(c) = <<d>> \o v
    BY DEF ChunkBytes, d
  <2>0. <<d>> \in Seq(Byte) /\ a \in Seq(Byte) /\ CRLF \in Seq(Byte)
    BY <1>1, NewLine
  <2>. HIDE DEF a
  <2>2. u \in Seq(Byte)
    BY <2>0, JoinsIn, Zenon
  <2>3. u \o x = y
    BY <2>0, Regroup, Zenon DEF e
  <2>. HIDE DEF u, y
  <2>4. v \in Seq(Byte)
    BY <2>0, <2>2, JoinsIn, Zenon
  <2>5. (CRLF \o u) \o x = CRLF \o (u \o x)
    BY <2>0, <2>2, Regroup, Zenon
  <2>6. v \o x = CRLF \o y
    BY <2>3, <2>5
  <2>. HIDE DEF v
  <2>. DEFINE one == <<d>>
  <2>7. one \in Seq(Byte)
    BY <2>0
  <2>. HIDE DEF one
  <2>8. one \o v \in Seq(Byte)
    BY <2>4, <2>7, JoinsIn, Zenon
  <2>9. (one \o v) \o x = one \o (v \o x)
    BY <2>4, <2>7, Regroup, Zenon
  <2>. QED  BY <2>1, <2>6, <2>8, <2>9 DEF one
<1>. HIDE DEF e, a
<1>4. /\ y \in Seq(Byte) /\ Len(y) = n + Len(e) /\ n \in Nat
      /\ \A i \in 1 .. n : y[i] = a[i]
      /\ \A i \in 1 .. Len(e) : y[n + i] = e[i]
  <2>1. n \in Nat
    BY <1>1
  <2>. QED  BY <1>1, <1>2, <2>1, Concats
<1>5. 2 \in 0 .. Len(e) /\ 1 \in 1 .. Len(e) /\ 2 \in 1 .. Len(e)
  BY <1>2
<1>6. EraseFront(y, n + 2) = x
  <2>1. EraseFront(a \o e, Len(a) + 2) = EraseFront(e, 2)
    BY <1>1, <1>2, <1>5, ErasesPart
  <2>. QED  BY <1>2, <2>1
<1>. HIDE DEF y
<1>7. Sizes(w, d, y)
  BY <1>1, <1>4, SizeLine
<1>. HIDE DEF w, n
<1>8. Len(w) = 5 + n + Len(x)
  BY <1>2, <1>4, <1>7 DEF Sizes
<1>9. ASSUME NEW j \in 1 .. n  PROVE w[3 + j] = a[j]
  <2>1. j \in 1 .. Len(y)
    BY <1>2, <1>4
  <2>. QED  BY <1>4, <1>7, <2>1 DEF Sizes
<1>10. w[n + 4] = "CR" /\ w[n + 5] = "LF"
  <2>1. n + 1 \in 1 .. Len(y) /\ n + 2 \in 1 .. Len(y) /\ 3 + (n + 1) = n + 4 /\ 3 + (n + 2) = n + 5
    BY <1>2, <1>4
  <2>2. w[3 + (n + 1)] = y[n + 1] /\ w[3 + (n + 2)] = y[n + 2]
    BY <1>7, <2>1 DEF Sizes
  <2>3. y[n + 1] = e[1] /\ y[n + 2] = e[2]
    BY <1>4, <1>5
  <2>. QED  BY <1>2, <2>1, <2>2, <2>3
<1>11. EraseFront(w, n + 5) = x
  <2>1. w \in Seq(Byte) /\ 3 \in 0 .. Len(w) /\ n + 2 \in 0 .. (Len(w) - 3) /\ 3 + (n + 2) = n + 5
    BY <1>2, <1>4, <1>8, <1>7 DEF Sizes
  <2>2. EraseFront(EraseFront(w, 3), n + 2) = EraseFront(w, 3 + (n + 2))
    BY <2>1, EraseTwice
  <2>. QED  BY <1>6, <1>7, <2>1, <2>2 DEF Sizes
<1>12. Chunks(w, c, x)
  BY <1>2, <1>4, <1>7, <1>8, <1>9, <1>10, <1>11 DEF Chunks, d, a, n
<1>. QED  BY <1>3, <1>12

-------------------------------------------------------------------------------
(* The bytes of a request                                                      *)

ChunkSeq(r) == [i \in DOMAIN r.chunks |-> ChunkBytes(r.chunks[i])]
DataSeq(r)  == [i \in DOMAIN r.chunks |-> r.chunks[i].data]

LEMMA HeadLines ==
    ASSUME WellFormed, NEW r \in Requests
    PROVE  /\ r.line \in Lines /\ r.line \in Line
           /\ r.fields \in Seq(Fields) /\ r.fields \in Seq(Line)
           /\ r.trailer \in Seq(Fields) /\ r.trailer \in Seq(Line)
           /\ <<r.line>> \o r.fields \in Seq(Line)
           /\ SecondHost(r.fields) = {} /\ ~Has(r, "Junk")
<1>1. r.line \in Lines /\ r.fields \in Seq(Fields) /\ r.trailer \in Seq(Fields) /\ SecondHost(r.fields) = {}
  BY DEF WellFormed, Lined
<1>2. r.line \in Line /\ r.fields \in Seq(Line) /\ r.trailer \in Seq(Line)
  BY <1>1 DEF Line
<1>3. <<r.line>> \o r.fields \in Seq(Line)
  BY <1>2, LineBytesMore
<1>4. ~Has(r, "Junk")
  <2>1. "Junk" \notin Fields
    BY DEF Fields, Lengths
  <2>2. \A f \in ToSet(r.fields) : f \in Fields
    BY <1>1 DEF ToSet
  <2>. QED  BY <2>1, <2>2 DEF Has
<1>. QED  BY <1>1, <1>2, <1>3, <1>4

LEMMA ChunksOf ==
    ASSUME WellFormed, NEW r \in Requests
    PROVE  /\ Len(r.chunks) \in Nat /\ DOMAIN r.chunks = 1 .. Len(r.chunks)
           /\ \A i \in 1 .. Len(r.chunks) :
                 /\ r.chunks[i].size \in 0 .. 3 /\ r.chunks[i].data \in Seq(Byte)
                 /\ Fits(r.chunks[i]) \/ (Chunked(r) /\ Shows(r.chunks[i]))
                 /\ Chunked(r) => r.chunks[i].size > 0
                 /\ Has(r, "Host") \/ r.chunks[i].size <= DefaultMax
                 /\ ChunkSeq(r)[i] = ChunkBytes(r.chunks[i]) /\ ChunkSeq(r)[i] \in Seq(Byte)
                 /\ DataSeq(r)[i] = r.chunks[i].data /\ DataSeq(r)[i] \in Seq(Byte)
<1>. DEFINE n == Len(r.chunks)
<1>1. /\ r.chunks \in Seq(ToSet(r.chunks))
      /\ \A c \in ToSet(r.chunks) :
            /\ c.size \in 0 .. 3 /\ c.data \in Seq(ToSet(c.data))
            /\ Fits(c) \/ (Chunked(r) /\ Shows(c))
            /\ Chunked(r) => c.size > 0
            /\ Has(r, "Host") \/ c.size <= DefaultMax
  BY DEF WellFormed, Sized, Bounded
<1>2. n \in Nat /\ DOMAIN r.chunks = 1 .. n /\ \A i \in 1 .. n : r.chunks[i] \in ToSet(r.chunks)
  BY <1>1
<1>3. ASSUME NEW c \in ToSet(r.chunks)  PROVE c.data \in Seq(Byte)
  <2>1. \A b \in ToSet(c.data) : b \in Byte
    <3>1. ToSet(c.data) \subseteq UNION {ToSet(d.data) : d \in ToSet(r.chunks)}
      OBVIOUS
    <3>2. UNION {ToSet(d.data) : d \in ToSet(r.chunks)}
            \subseteq UNION {UNION {ToSet(d.data) : d \in ToSet(q.chunks)} : q \in Requests}
      OBVIOUS
    <3>. QED  BY <3>1, <3>2 DEF Byte
  <2>2. c.data \in Seq(ToSet(c.data))
    BY <1>1
  <2>. QED  BY <2>1, <2>2
<1>4. ASSUME NEW i \in 1 .. n
      PROVE  /\ ChunkSeq(r)[i] = ChunkBytes(r.chunks[i]) /\ ChunkSeq(r)[i] \in Seq(Byte)
             /\ DataSeq(r)[i] = r.chunks[i].data /\ DataSeq(r)[i] \in Seq(Byte)
  <2>1. r.chunks[i].size \in 0 .. 3 /\ r.chunks[i].data \in Seq(Byte)
    BY <1>1, <1>2, <1>3
  <2>2. <<>> \in Seq(Byte)
    BY Regroups
  <2>3. ChunkBytes(r.chunks[i]) \in Seq(Byte)
    BY <2>1, <2>2, ChunkStands
  <2>. QED  BY <1>2, <2>1, <2>3 DEF ChunkSeq, DataSeq
<1>. QED  BY <1>1, <1>2, <1>3, <1>4

LEMMA JoinedOf ==
    ASSUME WellFormed, NEW r \in Requests
    PROVE  /\ Data(r) = Joined(DataSeq(r), 0, Len(r.chunks)) /\ Data(r) \in Seq(Byte)
           /\ FlattenSeq(ChunkSeq(r)) = Joined(ChunkSeq(r), 0, Len(r.chunks))
           /\ FlattenSeq(ChunkSeq(r)) \in Seq(Byte)
<1>. DEFINE n == Len(r.chunks)
            f == DataSeq(r)
            g == ChunkSeq(r)
<1>1. n \in Nat /\ DOMAIN r.chunks = 1 .. n /\ \A i \in 1 .. n : f[i] \in Seq(Byte) /\ g[i] \in Seq(Byte)
  BY ChunksOf
<1>2. f = [i \in 1 .. n |-> f[i]] /\ g = [i \in 1 .. n |-> g[i]]
  BY <1>1 DEF DataSeq, ChunkSeq
<1>. HIDE DEF n, f, g
<1>3. f \in Seq(Seq(Byte)) /\ Len(f) = n /\ g \in Seq(Seq(Byte)) /\ Len(g) = n
  <2>. DEFINE B == Seq(Byte)
  <2>1. n \in Nat /\ \A i \in 1 .. n : f[i] \in B /\ g[i] \in B
    BY <1>1
  <2>. HIDE DEF B
  <2>2. f \in Seq(B) /\ Len(f) = n
    BY <1>2, <2>1
  <2>3. g \in Seq(B) /\ Len(g) = n
    BY <1>2, <2>1
  <2>. QED  BY <2>2, <2>3 DEF B
<1>4. Data(r) = FlattenSeq(f)
  BY DEF Data, DataSeq, f
<1>5. FlattenSeq(f) = Joined(f, 0, n) /\ FlattenSeq(g) = Joined(g, 0, n)
  BY <1>3, JoinedAll
<1>6. FlattenSeq(f) \in Seq(Byte) /\ FlattenSeq(g) \in Seq(Byte)
  BY <1>3, FlattenSeqOf
<1>. QED  BY <1>4, <1>5, <1>6 DEF n, f, g

LEMMA BytesOf ==
    ASSUME WellFormed, NEW r \in Requests
    PROVE  /\ EndBytes(r) \in Seq(Byte) /\ BodyBytes(r) \in Seq(Byte)
           /\ Bytes(r) = Block(<<r.line>> \o r.fields, BodyBytes(r)) /\ Bytes(r) \in Seq(Byte)
           /\ Len(Bytes(r)) > 0 /\ Bytes(r)[1] # "CR"
<1>. DEFINE zero == <<"0">>
            last == LineBytes(r.trailer) \o CRLF
<1>1. zero \in Seq(Byte)
  <2>1. "0" \in DOMAIN Digit
    BY DEF Digit
  <2>. QED  BY <2>1, Tokens
<1>2. EndBytes(r) \in Seq(Byte)
  <2>1. LineBytes(r.trailer) \in Seq(Byte) /\ CRLF \in Seq(Byte)
    BY HeadLines, LineBytesOf, NewLine
  <2>2. last \in Seq(Byte)
    BY <2>1, JoinsIn, Zenon
  <2>. HIDE DEF last
  <2>3. CRLF \o last \in Seq(Byte)
    BY <2>1, <2>2, JoinsIn, Zenon
  <2>. HIDE DEF zero
  <2>4. zero \o (CRLF \o last) \in Seq(Byte)
    BY <1>1, <2>3, JoinsIn, Zenon
  <2>. QED  BY <2>4 DEF EndBytes, zero, last
<1>3. BodyBytes(r) \in Seq(Byte)
  <2>1. Data(r) \in Seq(Byte) /\ FlattenSeq(ChunkSeq(r)) \in Seq(Byte)
    BY JoinedOf
  <2>2. FlattenSeq(ChunkSeq(r)) \o EndBytes(r) \in Seq(Byte)
    BY <1>2, <2>1, JoinsIn, Zenon
  <2>3. BodyBytes(r) = IF Chunked(r) THEN FlattenSeq(ChunkSeq(r)) \o EndBytes(r) ELSE Data(r)
    BY DEF BodyBytes, ChunkSeq
  <2>. QED  BY <2>1, <2>2, <2>3
<1>4. Bytes(r) = Block(<<r.line>> \o r.fields, BodyBytes(r))
  BY DEF Bytes, Block
<1>5. r.line \in Line /\ r.fields \in Seq(Line) /\ <<r.line>> \o r.fields \in Seq(Line)
      /\ Len(<<r.line>> \o r.fields) \in Nat /\ Len(BodyBytes(r)) \in Nat
  BY <1>3, HeadLines
<1>6. Blocked(Bytes(r), <<r.line>> \o r.fields, BodyBytes(r))
  BY <1>3, <1>4, <1>5, BlockOf
<1>7. Bytes(r)[1] = r.line /\ r.line # "CR"
  BY <1>3, <1>4, <1>5, BlockMore, Tokens
<1>8. Bytes(r) \in Seq(Byte) /\ Len(Bytes(r)) > 0
  BY <1>5, <1>6 DEF Blocked
<1>. QED  BY <1>2, <1>3, <1>4, <1>7, <1>8

-------------------------------------------------------------------------------
(* The requests that are still to be answered                                  *)

BytesSeq(st)     == [k \in 1 .. Len(st) |-> Bytes(st[k])]
Upcoming(st, m, n) == Joined(BytesSeq(st), m, n)

LEMMA StreamOf ==
    ASSUME WellFormed, NEW st \in Streams
    PROVE  /\ Len(st) \in Nat
           /\ \A k \in 1 .. Len(st) :
                 /\ st[k] \in Requests
                 /\ BytesSeq(st)[k] = Bytes(st[k]) /\ BytesSeq(st)[k] \in Seq(Byte)
<1>1. st \in Seq(Requests)
  BY DEF WellFormed
<1>2. Len(st) \in Nat /\ \A k \in 1 .. Len(st) : st[k] \in Requests
  BY <1>1
<1>3. \A k \in 1 .. Len(st) : Bytes(st[k]) \in Seq(Byte)
  BY <1>2, BytesOf
<1>. QED  BY <1>2, <1>3 DEF BytesSeq

LEMMA UpcomingOf ==
    ASSUME WellFormed, NEW st \in Streams, NEW n \in 0 .. Len(st), NEW m \in 0 .. n
    PROVE  /\ Upcoming(st, m, n) \in Seq(Byte) /\ Starts(Upcoming(st, m, n))
           /\ m = n => Upcoming(st, m, n) = <<>>
           /\ m < n => /\ st[m + 1] \in Requests
                       /\ Upcoming(st, m, n) = Bytes(st[m + 1]) \o Upcoming(st, m + 1, n)
                       /\ Upcoming(st, m + 1, n) \in Seq(Byte)
<1>. DEFINE f == BytesSeq(st)
            up == Upcoming(st, m, n)
            more == Upcoming(st, m + 1, n)
<1>1. Len(st) \in Nat /\ n \in Nat /\ m \in Nat
      /\ (\A k \in 1 .. n : st[k] \in Requests /\ f[k] = Bytes(st[k]) /\ f[k] \in Seq(Byte))
  <2>1. \A k \in 1 .. n : k \in 1 .. Len(st)
    OBVIOUS
  <2>. QED  BY <2>1, StreamOf
<1>. HIDE DEF f
<1>2. /\ up \in Seq(Byte)
      /\ m = n => up = <<>>
      /\ m < n => f[m + 1] \in Seq(Byte) /\ up = f[m + 1] \o more /\ more \in Seq(Byte)
  BY <1>1, JoinedBytes DEF Upcoming, f
<1>. HIDE DEF up, more
<1>3. ASSUME m < n
      PROVE  /\ st[m + 1] \in Requests /\ f[m + 1] = Bytes(st[m + 1])
             /\ Len(up) > 0 /\ up[1] # "CR"
  <2>1. m + 1 \in 1 .. n
    BY <1>1, <1>3
  <2>2. st[m + 1] \in Requests /\ f[m + 1] = Bytes(st[m + 1])
    BY <1>1, <2>1
  <2>3. f[m + 1] \in Seq(Byte) /\ Len(f[m + 1]) > 0 /\ f[m + 1][1] # "CR"
    BY <2>2, BytesOf
  <2>4. Len(up) = Len(f[m + 1]) + Len(more) /\ Len(more) \in Nat /\ Len(f[m + 1]) \in Nat
        /\ (\A i \in 1 .. Len(f[m + 1]) : up[i] = f[m + 1][i])
    BY <1>2, <1>3, Concats
  <2>5. 1 \in 1 .. Len(f[m + 1])
    BY <2>3, <2>4
  <2>. QED  BY <2>2, <2>3, <2>4, <2>5
<1>4. Starts(up)
  <2>1. m < n \/ m = n
    BY <1>1
  <2>2. CASE m = n
    BY <1>2, <2>2 DEF Starts
  <2>. QED  BY <1>2, <1>3, <2>1, <2>2 DEF Starts
<1>. QED  BY <1>2, <1>3, <1>4 DEF up, more

LEMMA UpcomingMore ==
    ASSUME WellFormed, NEW st \in Streams, NEW n \in Nat, n < Len(st), NEW m \in 0 .. n
    PROVE  /\ Bytes(st[n + 1]) \in Seq(Byte)
           /\ Upcoming(st, m, n + 1) = Upcoming(st, m, n) \o Bytes(st[n + 1])
<1>. DEFINE f == BytesSeq(st)
<1>1. n + 1 \in 1 .. (n + 1) /\ n + 1 \in 1 .. Len(st)
      /\ (\A k \in 1 .. (n + 1) : f[k] = Bytes(st[k]) /\ f[k] \in Seq(Byte))
  <2>1. Len(st) \in Nat
    BY StreamOf
  <2>2. n + 1 \in 1 .. (n + 1) /\ \A k \in 1 .. (n + 1) : k \in 1 .. Len(st)
    BY <2>1
  <2>. QED  BY <2>2, StreamOf
<1>. HIDE DEF f
<1>2. Joined(f, m, n + 1) = Joined(f, m, n) \o f[n + 1]
  BY <1>1, JoinedLast
<1>. QED  BY <1>1, <1>2 DEF Upcoming, f

-------------------------------------------------------------------------------
(* What the reader knows of a request, and its answers                         *)

Client ==
    [status : Nat, keepAlive : BOOLEAN, continue_reading : BOOLEAN, is_chunked : BOOLEAN,
     is_chunk_end : BOOLEAN, exceed : BOOLEAN, consume : BOOLEAN, max : Nat,
     content_length : Nat, close : BOOLEAN, body : Seq(Byte)]

\* What ProcessRequest() makes of a client: the answer, and whether it is kept.
AnswerOf(c) == IF c.status = 0 THEN [status |-> 200, body |-> c.body] ELSE Refusal(c.status)
KeptOf(c)   == c.keepAlive /\ ~(c.status = 0 /\ c.close)
Well(c, r)  == AnswerOf(c) \in Acceptable(r) /\ MayKeep(r, AnswerOf(c), KeptOf(c))

\* The head has been read.
JudgedOf(c, r) ==
    /\ r.line # "BAD"
    /\ c.status = HeadStatus(r) /\ c.consume = (c.status = 0)
    /\ c.close = Has(r, "Close") /\ c.is_chunked = Chunked(r)
    /\ c.max = IF Has(r, "Host") THEN MaxBody ELSE DefaultMax

\* So have i chunks.
TakenOf(c, r, i) ==
    /\ \A j \in 1 .. i : Fits(r.chunks[j])
    /\ c.exceed => Has(r, "Host") /\ (Broken(r) \/ Len(Data(r)) > c.max)
    /\ c.consume /\ ~c.exceed => c.body = Joined(DataSeq(r), 0, i) /\ Len(c.body) <= c.max
    /\ ~c.consume => c.body = <<>>

LEMMA Statuses ==
    ASSUME NEW r
    PROVE  /\ HeadStatus(r) \in {0, 400, 404, 405, 411, 501}
           /\ HeadStatus(r) = 0 => Has(r, "Host")
BY DEF HeadStatus

\* A refusal that ends the connection.
LEMMA RefusedWell ==
    ASSUME NEW c \in Client, NEW r, NEW s, c.status = s, c.keepAlive = FALSE,
           \/ s = 400 /\ (Broken(r) \/ Chunked(r))
           \/ s = 413 /\ ~Broken(r) /\ TooLong(r)
    PROVE  Well(c, r)
<1>1. AnswerOf(c) = Refusal(s) /\ Refusal(s).status = s /\ KeptOf(c) = FALSE
  BY DEF AnswerOf, KeptOf, Refusal
<1>2. CASE s = 400 /\ Broken(r)
  <2>1. Refusal(400) \in Acceptable(r)
    BY <1>2 DEF Acceptable, Due
  <2>2. MayKeep(r, Refusal(400), FALSE)
    BY <1>1, <1>2 DEF MayKeep
  <2>. QED  BY <1>1, <1>2, <2>1, <2>2 DEF Well
<1>3. CASE s = 400 /\ ~Broken(r) /\ Chunked(r)
  <2>1. Refusal(400) \in Acceptable(r)
    BY <1>3 DEF Acceptable
  <2>2. MayKeep(r, Refusal(400), FALSE)
    BY <1>1, <1>3 DEF MayKeep
  <2>. QED  BY <1>1, <1>3, <2>1, <2>2 DEF Well
<1>4. CASE s = 413 /\ ~Broken(r) /\ TooLong(r)
  <2>1. Refusal(413) \in Acceptable(r)
    BY <1>4 DEF Acceptable, Due
  <2>2. MayKeep(r, Refusal(413), FALSE)
    BY <1>1, <1>4 DEF MayKeep
  <2>. QED  BY <1>1, <1>4, <2>1, <2>2 DEF Well
<1>. QED  BY <1>2, <1>3, <1>4

\* The answer to a request that was read to its end.
LEMMA AnsweredWell ==
    ASSUME NEW c \in Client, NEW r, JudgedOf(c, r), ~Broken(r), c.keepAlive = TRUE,
           c.status = 0 => c.body = Data(r) /\ ~TooLong(r)
    PROVE  Well(c, r)
<1>1. c.status = HeadStatus(r) /\ c.close = Has(r, "Close") /\ c.close \in BOOLEAN
  BY DEF JudgedOf, Client
<1>2. CASE c.status = 0
  <2>. DEFINE a == [status |-> 200, body |-> Data(r)]
  <2>1. AnswerOf(c) = a /\ a.status = 200 /\ KeptOf(c) = ~Has(r, "Close")
    BY <1>1, <1>2 DEF AnswerOf, KeptOf
  <2>2. a \in Acceptable(r)
    BY <1>1, <1>2 DEF Acceptable, Due
  <2>3. MayKeep(r, a, ~Has(r, "Close"))
    BY <2>1 DEF MayKeep
  <2>. HIDE DEF a
  <2>. QED  BY <2>1, <2>2, <2>3 DEF Well
<1>3. CASE c.status # 0
  <2>. DEFINE s == c.status
              a == Refusal(s)
  <2>1. AnswerOf(c) = a /\ a.status = s /\ KeptOf(c) = TRUE
    BY <1>3 DEF AnswerOf, KeptOf, Refusal
  <2>2. a \in Acceptable(r)
    BY <1>1, <1>3 DEF Acceptable, Due
  <2>3. s \in {400, 404, 405, 411, 501}
    BY <1>1, <1>3, Statuses
  <2>. HIDE DEF a
  <2>4. MayKeep(r, a, TRUE)
    BY <2>1, <2>3 DEF MayKeep
  <2>. QED  BY <2>1, <2>2, <2>4 DEF Well
<1>. QED  BY <1>2, <1>3

\* The data of some chunks is part of the data of all.
LEMMA DataGrows ==
    ASSUME WellFormed, NEW r \in Requests, NEW i \in Nat, i < Len(r.chunks)
    PROVE  /\ Joined(DataSeq(r), 0, i) \in Seq(Byte)
           /\ Joined(DataSeq(r), 0, i + 1) = Joined(DataSeq(r), 0, i) \o r.chunks[i + 1].data
           /\ Len(Joined(DataSeq(r), 0, i)) + Len(r.chunks[i + 1].data) <= Len(Data(r))
<1>. DEFINE f == DataSeq(r)
            n == Len(r.chunks)
            J(k) == Joined(f, 0, k)
            m == i + 1
            T == {d \in Nat : m + d <= n => J(m + d) \in Seq(Byte) /\ Len(J(m)) <= Len(J(m + d))}
<1>1. n \in Nat /\ \A k \in 1 .. n : f[k] = r.chunks[k].data /\ f[k] \in Seq(Byte)
  BY ChunksOf
<1>0. i < n /\ n \in Nat
  BY <1>1
<1>. HIDE DEF f, n
<1>2. ASSUME NEW k \in Nat, k < n
      PROVE  /\ J(k) \in Seq(Byte) /\ f[k + 1] \in Seq(Byte)
             /\ J(k + 1) = J(k) \o f[k + 1]
  <2>1. (\A l \in 1 .. (k + 1) : f[l] \in Seq(Byte)) /\ 0 \in 0 .. k /\ k + 1 \in 1 .. n
        /\ (\A l \in 1 .. k : f[l] \in Seq(Byte))
    BY <1>1, <1>2
  <2>2. J(k + 1) = J(k) \o f[k + 1]
    BY <2>1, JoinedLast
  <2>3. J(k) \in Seq(Byte)
    BY <2>1, JoinedBytes
  <2>. QED  BY <1>1, <2>1, <2>2, <2>3
<1>. HIDE DEF J
<1>3. i < n /\ m \in Nat /\ m <= n /\ n - m \in Nat /\ m + (n - m) = n /\ m + 0 = m /\ m \in 1 .. n
  BY <1>0
<1>4. J(i) \in Seq(Byte) /\ f[m] \in Seq(Byte) /\ J(m) = J(i) \o f[m] /\ f[m] = r.chunks[m].data
  BY <1>1, <1>2, <1>3
<1>. HIDE DEF m
<1>5. J(m) \in Seq(Byte) /\ Len(J(m)) = Len(J(i)) + Len(f[m]) /\ Len(J(m)) \in Nat
  BY <1>4, Concats
<1>6. 0 \in T
  BY <1>3, <1>5
<1>7. ASSUME NEW d \in Nat, d \in T  PROVE d + 1 \in T
  <2>. SUFFICES ASSUME m + (d + 1) <= n
                PROVE  J(m + (d + 1)) \in Seq(Byte) /\ Len(J(m)) <= Len(J(m + (d + 1)))
    OBVIOUS
  <2>. DEFINE k == m + d
  <2>1. k \in Nat /\ k < n /\ k <= n /\ m + (d + 1) = k + 1
    BY <1>1, <1>3
  <2>2. J(k) \in Seq(Byte) /\ Len(J(m)) <= Len(J(k))
    BY <1>7, <2>1
  <2>. HIDE DEF k
  <2>3. f[k + 1] \in Seq(Byte) /\ J(k + 1) = J(k) \o f[k + 1]
    BY <1>2, <2>1
  <2>4. J(k + 1) \in Seq(Byte) /\ Len(J(k + 1)) = Len(J(k)) + Len(f[k + 1])
    <3>. DEFINE u == J(k)
                v == f[k + 1]
    <3>1. u \in Seq(Byte) /\ v \in Seq(Byte) /\ J(k + 1) = u \o v
      BY <2>2, <2>3
    <3>. HIDE DEF u, v
    <3>2. u \o v \in Seq(Byte) /\ Len(u \o v) = Len(u) + Len(v)
      BY <3>1, Concats
    <3>. QED  BY <3>1, <3>2 DEF u, v
  <2>5. Len(f[k + 1]) \in Nat /\ Len(J(k)) \in Nat
    BY <2>2, <2>3
  <2>. QED  BY <1>5, <2>1, <2>2, <2>4, <2>5
<1>8. n - m \in T
  <2>. HIDE DEF T
  <2>. QED  BY <1>3, <1>6, <1>7, Inductive
<1>9. Len(J(m)) <= Len(J(n))
  BY <1>3, <1>8
<1>10. J(n) = Data(r)
  BY JoinedOf DEF J, f, n
<1>. QED  BY <1>4, <1>5, <1>9, <1>10 DEF J, f, m

MeasuredOf(c, size) == [c EXCEPT !.exceed = @ \/ Len(c.body) + size > c.max]

\* A chunk more is too much only when the whole is.
LEMMA ExceedsWell ==
    ASSUME WellFormed, ReaderAssumption, NEW r \in Requests, NEW c \in Client, JudgedOf(c, r),
           NEW i \in Nat, i < Len(r.chunks), TakenOf(c, r, i),
           c.exceed \/ Len(c.body) + r.chunks[i + 1].size > c.max
    PROVE  Has(r, "Host") /\ (Broken(r) \/ Len(Data(r)) > c.max)
<1>. DEFINE k  == r.chunks[i + 1]
            in == Joined(DataSeq(r), 0, i)
<1>1. CASE c.exceed
  BY <1>1 DEF TakenOf
<1>2. CASE ~c.exceed
  <2>1. i + 1 \in 1 .. Len(r.chunks) /\ DOMAIN r.chunks = 1 .. Len(r.chunks)
    BY ChunksOf
  <2>2. /\ k.size \in 0 .. 3 /\ k.data \in Seq(Byte)
        /\ Has(r, "Host") \/ k.size <= DefaultMax
    BY <2>1, ChunksOf
  <2>3. Broken(r) \/ k.size = Len(k.data)
    BY <2>1 DEF Broken
  <2>4. in \in Seq(Byte) /\ Len(in) + Len(k.data) <= Len(Data(r))
    BY DataGrows
  <2>5. Len(in) \in Nat /\ Len(k.data) \in Nat /\ Len(Data(r)) \in Nat /\ k.size \in Nat
        /\ c.max \in Nat
    <3>1. Len(Data(r)) \in Nat
      BY JoinedOf
    <3>2. c.max \in Nat
      BY DEF Client
    <3>3. Len(in) \in Nat /\ Len(k.data) \in Nat
      <4>. HIDE DEF in, k
      <4>. QED  BY <2>2, <2>4
    <3>4. k.size \in Nat
      <4>. HIDE DEF k
      <4>. QED  BY <2>2
    <3>. QED  BY <3>1, <3>2, <3>3, <3>4
  <2>. HIDE DEF k, in
  <2>6. CASE c.consume
    <3>1. Has(r, "Host")
      <4>1. c.consume = (c.status = 0) /\ c.status = HeadStatus(r)
        BY DEF JudgedOf
      <4>2. c.status = 0
        BY <2>6, <4>1
      <4>. QED  BY <4>1, <4>2, Statuses
    <3>2. c.body = in
      BY <1>2, <2>6 DEF TakenOf, in
    <3>3. Len(in) + k.size > c.max
      BY <1>2, <3>2 DEF k
    <3>4. k.size = Len(k.data) => Len(Data(r)) > c.max
      BY <2>4, <2>5, <3>3
    <3>. QED  BY <2>3, <3>1, <3>4
  <2>7. CASE ~c.consume
    <3>1. c.body = <<>>
      BY <2>7 DEF TakenOf
    <3>2. k.size > c.max
      <4>1. Len(c.body) = 0
        BY <3>1
      <4>2. Len(c.body) + k.size > c.max
        BY <1>2 DEF k
      <4>. QED  BY <2>5, <4>1, <4>2
    <3>3. Has(r, "Host")
      <4>1. ~Has(r, "Host") => c.max = DefaultMax
        BY DEF JudgedOf
      <4>2. DefaultMax \in Nat
        BY DEF ReaderAssumption
      <4>. QED  BY <2>2, <2>5, <3>2, <4>1, <4>2
    <3>4. k.size = Len(k.data) => Len(Data(r)) > c.max
      BY <2>4, <2>5, <3>2
    <3>. QED  BY <2>3, <3>3, <3>4
  <2>. QED  BY <2>6, <2>7
<1>. QED  BY <1>1, <1>2

LEMMA TakesMore ==
    ASSUME WellFormed, ReaderAssumption, NEW r \in Requests, NEW c \in Client, JudgedOf(c, r),
           NEW i \in Nat, i < Len(r.chunks), TakenOf(c, r, i),
           NEW m, m = MeasuredOf(c, r.chunks[i + 1].size)
    PROVE  /\ m \in Client /\ JudgedOf(m, r) /\ TakenOf(m, r, i)
           /\ Fits(r.chunks[i + 1]) =>
                 /\ m.exceed \/ ~c.consume => TakenOf(m, r, i + 1)
                 /\ ~(m.exceed \/ ~c.consume) =>
                       LET b == [m EXCEPT !.body = @ \o r.chunks[i + 1].data]
                       IN  b \in Client /\ JudgedOf(b, r) /\ TakenOf(b, r, i + 1)
<1>. DEFINE k  == r.chunks[i + 1]
            in == Joined(DataSeq(r), 0, i)
            b  == [m EXCEPT !.body = @ \o k.data]
<1>1. k.size \in 0 .. 3 /\ k.data \in Seq(Byte)
  <2>1. i + 1 \in 1 .. Len(r.chunks)
    BY ChunksOf
  <2>. QED  BY <2>1, ChunksOf
<1>2. in \in Seq(Byte) /\ Joined(DataSeq(r), 0, i + 1) = in \o k.data
  BY DataGrows
<1>3. m \in Client /\ m.exceed = (c.exceed \/ Len(c.body) + k.size > c.max)
      /\ m.status = c.status /\ m.consume = c.consume /\ m.close = c.close
      /\ m.is_chunked = c.is_chunked /\ m.max = c.max /\ m.body = c.body
  BY DEF MeasuredOf, Client
<1>4. m.exceed => Has(r, "Host") /\ (Broken(r) \/ Len(Data(r)) > c.max)
  BY <1>3, ExceedsWell
<1>. HIDE DEF k, in
<1>5. JudgedOf(m, r)
  BY <1>3 DEF JudgedOf
<1>6. TakenOf(m, r, i)
  BY <1>3, <1>4 DEF TakenOf
<1>7. ASSUME Fits(k)
      PROVE  /\ m.exceed \/ ~c.consume => TakenOf(m, r, i + 1)
             /\ ~(m.exceed \/ ~c.consume) => b \in Client /\ JudgedOf(b, r) /\ TakenOf(b, r, i + 1)
  <2>1. \A j \in 1 .. (i + 1) : Fits(r.chunks[j])
    <3>1. \A j \in 1 .. (i + 1) : j \in 1 .. i \/ j = i + 1
      OBVIOUS
    <3>. QED  BY <1>7, <3>1 DEF TakenOf, k
  <2>2. ASSUME m.exceed \/ ~c.consume  PROVE TakenOf(m, r, i + 1)
    BY <1>3, <1>4, <1>6, <2>1, <2>2 DEF TakenOf
  <2>3. ASSUME ~(m.exceed \/ ~c.consume)
        PROVE  b \in Client /\ JudgedOf(b, r) /\ TakenOf(b, r, i + 1)
    <3>1. c.body = in /\ m.body = in
      BY <1>3, <2>3 DEF TakenOf, in
    <3>2. in \o k.data \in Seq(Byte) /\ Len(in \o k.data) = Len(in) + Len(k.data)
      BY <1>1, <1>2, Concats
    <3>3. /\ b \in Client /\ b.body = in \o k.data /\ b.exceed = m.exceed
          /\ b.status = c.status /\ b.consume = c.consume /\ b.close = c.close
          /\ b.is_chunked = c.is_chunked /\ b.max = c.max
      BY <1>3, <3>1, <3>2 DEF Client
    <3>4. Len(in \o k.data) <= c.max
      <4>1. ~(Len(in) + k.size > c.max) /\ k.size = Len(k.data)
        BY <1>3, <1>7, <2>3, <3>1 DEF Fits
      <4>2. Len(in) \in Nat /\ k.size \in Nat /\ c.max \in Nat
        BY <1>1, <1>2 DEF Client
      <4>. QED  BY <3>2, <4>1, <4>2
    <3>. HIDE DEF b
    <3>5. JudgedOf(b, r)
      BY <3>3 DEF JudgedOf
    <3>6. TakenOf(b, r, i + 1)
      BY <1>2, <1>4, <2>1, <2>3, <3>3, <3>4 DEF TakenOf
    <3>. QED  BY <3>3, <3>5, <3>6
  <2>. QED  BY <2>2, <2>3
<1>. QED  BY <1>3, <1>5, <1>6, <1>7 DEF k

-------------------------------------------------------------------------------
(* The head of a request                                                       *)

LEMMA LengthSaid ==
    ASSUME NEW fs \in Seq(Fields), SecondHost(fs) = {}
    PROVE  /\ Analysed(fs) = fs /\ LengthIn(fs) \in Nat
           /\ fs = <<>> => LengthIn(fs) = 0
<1>1. Analysed(fs) = fs
  BY DEF Analysed
<1>2. LengthsAt(fs) = {i \in 1 .. Len(fs) : fs[i] \in DOMAIN Lengths}
  BY <1>1 DEF LengthsAt
<1>3. CASE LengthsAt(fs) = {}
  BY <1>1, <1>3 DEF LengthIn
<1>4. CASE LengthsAt(fs) # {}
  <2>. DEFINE K == LengthsAt(fs)
              i == Min(K)
  <2>1. K \subseteq Nat /\ K # {}
    BY <1>2, <1>4
  <2>2. i \in K
    <3>. HIDE DEF K
    <3>. QED  BY <2>1, MinOf
  <2>3. fs[i] \in DOMAIN Lengths /\ fs # <<>>
    <3>. HIDE DEF i
    <3>. QED  BY <1>2, <2>2
  <2>4. Lengths[fs[i]] \in Nat
    <3>. HIDE DEF i
    <3>. QED  BY <2>3 DEF Lengths
  <2>. QED  BY <1>1, <1>4, <2>3, <2>4 DEF LengthIn
<1>. QED  BY <1>3, <1>4

\* The client after the head of a request.
EnteredOf(c, r) ==
    /\ c \in Client /\ JudgedOf(c, r)
    /\ c.keepAlive = TRUE /\ c.body = <<>> /\ c.exceed = FALSE /\ c.is_chunk_end = FALSE
    /\ c.continue_reading = c.is_chunked /\ c.content_length = Said(r)

\* HeadOf() for a client that was reset.
FreshHead(line, found, fs) ==
    LET headers == ToSet(Analysed(fs))
        status  == CheckStatus(ParseStatus(line, found, fs), line, headers)
        chunked == "Chunked" \in headers
    IN  [FreshClient EXCEPT !.status = status, !.consume = status = 0,
                    !.close = "Close" \in headers,
                    !.is_chunked = chunked, !.continue_reading = chunked,
                    !.max = IF "Host" \in headers THEN MaxBody ELSE @,
                    !.content_length = LengthIn(fs)]

LEMMA FreshTyped ==
    ASSUME ReaderAssumption
    PROVE  FreshClient \in Client
<1>1. DefaultMax \in Nat /\ <<>> \in Seq(Byte)
  BY DEF ReaderAssumption
<1>. QED  BY <1>1 DEF FreshClient, Client

LEMMA StatusOf ==
    ASSUME NEW r, NEW found, r.line \in Lines \ {"BAD"}, SecondHost(r.fields) = {},
           found = TRUE \/ ~Has(r, "Host")
    PROVE  CheckStatus(ParseStatus(r.line, found, r.fields), r.line, ToSet(r.fields)) = HeadStatus(r)
<1>. DEFINE headers == ToSet(r.fields)
            s == ParseStatus(r.line, found, r.fields)
            l == r.line
<1>1. Has(r, "Host") = ("Host" \in headers)
  BY DEF Has
<1>2. CASE ~Has(r, "Host")
  BY <1>1, <1>2 DEF CheckStatus, HeadStatus
<1>3. CASE Has(r, "Host")
  <2>1. s = IF l = "PUT" THEN 501 ELSE 0
    BY <1>1, <1>3 DEF ParseStatus
  <2>. HIDE DEF s
  <2>2. headers \cap ({"Chunked"} \cup DOMAIN Lengths) = {} <=> ~Chunked(r) /\ ~WithLength(r)
    BY DEF Chunked, WithLength, Has
  <2>3. l \in {"GET", "POST", "GONE", "DENIED", "PUT"}
    BY DEF Lines
  <2>. HIDE DEF headers
  <2>4. CheckStatus(s, l, headers) = HeadStatus(r)
    <3>1. CASE l = "PUT"
      <4>1. s = 501 /\ l # "DENIED" /\ l # "GONE" /\ l # "POST"
        BY <2>1, <3>1
      <4>. HIDE DEF l
      <4>2. CheckStatus(s, l, headers) = 501
        BY <1>1, <1>3, <4>1 DEF CheckStatus
      <4>3. HeadStatus(r) = 501
        BY <1>3, <3>1 DEF HeadStatus, l
      <4>. QED  BY <4>2, <4>3
    <3>2. CASE l = "DENIED"
      BY <1>1, <1>3, <2>1, <3>2 DEF CheckStatus, HeadStatus
    <3>3. CASE l = "GONE"
      BY <1>1, <1>3, <2>1, <3>3 DEF CheckStatus, HeadStatus
    <3>4. CASE l = "POST"
      <4>1. s = 0
        BY <2>1, <3>4
      <4>2. CASE headers \cap ({"Chunked"} \cup DOMAIN Lengths) = {}
        <5>1. CheckStatus(s, l, headers) = 411
          BY <1>1, <1>3, <3>4, <4>2 DEF CheckStatus
        <5>2. HeadStatus(r) = 411
          BY <1>3, <2>2, <3>4, <4>2 DEF HeadStatus
        <5>. QED  BY <5>1, <5>2
      <4>3. CASE headers \cap ({"Chunked"} \cup DOMAIN Lengths) # {}
        <5>1. CheckStatus(s, l, headers) = 0
          BY <1>1, <1>3, <3>4, <4>1, <4>3 DEF CheckStatus
        <5>2. HeadStatus(r) = 0
          BY <1>3, <2>2, <3>4, <4>3 DEF HeadStatus
        <5>. QED  BY <5>1, <5>2
      <4>. QED  BY <4>2, <4>3
    <3>5. CASE l = "GET"
      BY <1>1, <1>3, <2>1, <3>5 DEF CheckStatus, HeadStatus
    <3>. QED  BY <2>3, <3>1, <3>2, <3>3, <3>4, <3>5
  <2>. QED  BY <2>4 DEF s, headers
<1>. QED  BY <1>2, <1>3

LEMMA HeadTyped ==
    ASSUME NEW c \in Client, NEW status \in Nat, NEW consume \in BOOLEAN, NEW close \in BOOLEAN,
           NEW chunked \in BOOLEAN, NEW max \in Nat, NEW length \in Nat
    PROVE  [c EXCEPT !.status = status, !.consume = consume, !.close = close,
                     !.is_chunked = chunked, !.continue_reading = chunked, !.max = max,
                     !.content_length = length] \in Client
BY DEF Client

LEMMA HeadEntered ==
    ASSUME WellFormed, ReaderAssumption, NEW r \in Requests, r.line # "BAD", NEW found,
           found = TRUE \/ r.fields = <<>>
    PROVE  EnteredOf(FreshHead(r.line, found, r.fields), r)
<1>. DEFINE headers == ToSet(r.fields)
            c == FreshHead(r.line, found, r.fields)
<1>1. r.fields \in Seq(Fields) /\ SecondHost(r.fields) = {} /\ r.line \in Lines
  BY HeadLines
<1>2. Analysed(r.fields) = r.fields /\ LengthIn(r.fields) \in Nat
  BY <1>1, LengthSaid
<1>3. CheckStatus(ParseStatus(r.line, found, r.fields), r.line, headers) = HeadStatus(r)
  <2>1. r.fields = <<>> => ~Has(r, "Host")
    BY DEF Has, ToSet
  <2>. QED  BY <1>1, <2>1, StatusOf
<1>4. Has(r, "Host") = ("Host" \in headers) /\ Has(r, "Close") = ("Close" \in headers)
      /\ Chunked(r) = ("Chunked" \in headers)
  BY DEF Has, Chunked
<1>5. HeadStatus(r) \in Nat
  BY Statuses
<1>. HIDE DEF headers
<1>6. c = [FreshClient EXCEPT !.status = HeadStatus(r), !.consume = HeadStatus(r) = 0,
                    !.close = "Close" \in headers,
                    !.is_chunked = "Chunked" \in headers, !.continue_reading = "Chunked" \in headers,
                    !.max = IF "Host" \in headers THEN MaxBody ELSE @,
                    !.content_length = LengthIn(r.fields)]
  BY <1>2, <1>3 DEF FreshHead, headers
<1>. HIDE DEF c
<1>7. MaxBody \in Nat /\ DefaultMax \in Nat
  BY DEF ReaderAssumption
<1>8. c \in Client
  <2>1. FreshClient \in Client
    BY FreshTyped
  <2>2. (HeadStatus(r) = 0) \in BOOLEAN /\ ("Close" \in headers) \in BOOLEAN
        /\ ("Chunked" \in headers) \in BOOLEAN
    OBVIOUS
  <2>. DEFINE a == (HeadStatus(r) = 0)
              b == ("Close" \in headers)
              d == ("Chunked" \in headers)
              m == IF "Host" \in headers THEN MaxBody ELSE FreshClient.max
              n == LengthIn(r.fields)
  <2>3. m \in Nat /\ n \in Nat
    BY <1>2, <1>7 DEF FreshClient
  <2>4. c = [FreshClient EXCEPT !.status = HeadStatus(r), !.consume = a, !.close = b,
                     !.is_chunked = d, !.continue_reading = d, !.max = m,
                     !.content_length = n]
    BY <1>6
  <2>5. a \in BOOLEAN /\ b \in BOOLEAN /\ d \in BOOLEAN
    BY <2>2
  <2>. HIDE DEF a, b, d, m, n
  <2>. QED  BY <1>5, <2>1, <2>3, <2>4, <2>5, HeadTyped, Zenon
<1>9. /\ c.status = HeadStatus(r) /\ c.consume = (c.status = 0) /\ c.close = ("Close" \in headers)
      /\ c.is_chunked = ("Chunked" \in headers) /\ c.continue_reading = ("Chunked" \in headers)
      /\ c.max = (IF "Host" \in headers THEN MaxBody ELSE DefaultMax)
      /\ c.content_length = LengthIn(r.fields)
      /\ c.keepAlive = TRUE /\ c.body = <<>> /\ c.exceed = FALSE /\ c.is_chunk_end = FALSE
  BY <1>6 DEF FreshClient
<1>10. JudgedOf(c, r)
  BY <1>4, <1>9 DEF JudgedOf
<1>. QED  BY <1>8, <1>9, <1>10 DEF EnteredOf, Said, c

LEMMA BlockLonger ==
    ASSUME NEW fs \in Seq(Line), NEW t \in Seq(Byte), NEW y \in Seq(Byte)
    PROVE  /\ Block(fs, t) \in Seq(Byte)
           /\ Block(fs, t) \o y = Block(fs, t \o y)
<1>. DEFINE l == LineBytes(fs)
            u == CRLF \o t
<1>1. l \in Seq(Byte) /\ CRLF \in Seq(Byte)
  BY LineBytesOf, NewLine
<1>2. u \in Seq(Byte)
  BY <1>1, JoinsIn, Zenon
<1>3. u \o y = CRLF \o (t \o y)
  BY <1>1, Regroup, Zenon
<1>4. (l \o u) \o y = l \o (u \o y)
  <2>. HIDE DEF u, l
  <2>. QED  BY <1>1, <1>2, Regroup, Zenon
<1>5. l \o u \in Seq(Byte)
  <2>. HIDE DEF u, l
  <2>. QED  BY <1>1, <1>2, JoinsIn, Zenon
<1>. QED  BY <1>3, <1>4, <1>5 DEF Block

\* Where the head of the next request is in the buffer.
HeadStandsOf(b, x, r, t) ==
    /\ b[1] = r.line /\ EraseFront(b, 3) \in Seq(Byte)
    /\ EraseFront(b, 3) \o x = Block(r.fields, t)
    /\ Len(EraseFront(b, 3)) \in Nat /\ 3 * Len(r.fields) + 2 <= Len(EraseFront(b, 3))

LEMMA HeadStands ==
    ASSUME WellFormed, NEW r \in Requests, NEW next \in Seq(Byte),
           NEW b \in Seq(Byte), NEW x \in Seq(Byte), EmptyLines(b \o x, Bytes(r) \o next),
           ~NewLineAt(b, 1), Find(CRLF \o CRLF, b) # 0
    PROVE  HeadStandsOf(b, x, r, BodyBytes(r) \o next)
<1>. DEFINE w  == b \o x
            fs == <<r.line>> \o r.fields
            t  == BodyBytes(r) \o next
            p  == Bytes(r) \o next
<1>1. /\ fs \in Seq(Line) /\ r.fields \in Seq(Line) /\ r.line \in Line
      /\ BodyBytes(r) \in Seq(Byte) /\ Bytes(r) \in Seq(Byte)
      /\ Bytes(r) = Block(fs, BodyBytes(r))
  BY HeadLines, BytesOf
<1>2. t \in Seq(Byte) /\ p \in Seq(Byte) /\ w \in Seq(Byte)
  <2>1. t \in Seq(Byte)
    BY <1>1, JoinsIn, Zenon
  <2>2. p \in Seq(Byte)
    BY <1>1, JoinsIn, Zenon
  <2>3. w \in Seq(Byte)
    BY JoinsIn, Zenon
  <2>. QED  BY <2>1, <2>2, <2>3
<1>3. Agrees(b, w)
  BY Received
<1>4. p = Block(fs, t)
  <2>. DEFINE u == BodyBytes(r)
  <2>. HIDE DEF fs, u
  <2>1. u \in Seq(Byte) /\ Bytes(r) = Block(fs, u)
    BY <1>1 DEF u
  <2>2. Block(fs, u) \o next = Block(fs, u \o next)
    BY <1>1, <2>1, BlockLonger
  <2>. QED  BY <2>1, <2>2 DEF u
<1>5. fs = <<r.line>> \o r.fields /\ Len(fs) = Len(r.fields) + 1 /\ Len(r.fields) \in Nat
  BY <1>1, LineBytesMore
<1>. HIDE DEF t, p
<1>6. ~NewLineAt(w, 1)
  <2>. HIDE DEF w
  <2>1. PICK q \in Nat \ {0} : NewLineAt(b, q)
    BY FindEmptyLine
  <2>2. 2 <= Len(b) /\ 1 + 1 <= Len(b)
    <3>1. q + 1 <= Len(b)
      BY <2>1 DEF NewLineAt
    <3>2. Len(b) \in Nat
      BY <1>3 DEF Agrees
    <3>. QED  BY <3>1, <3>2
  <2>3. 1 \in Nat \ {0}
    OBVIOUS
  <2>4. NewLineAt(b, 1) <=> 1 + 1 <= Len(b) /\ NewLineAt(w, 1)
    BY <1>3, <2>3, Zenon DEF Agrees
  <2>. QED  BY <2>2, <2>4
<1>7. EmptyLines(w, p)
  BY DEF p
<1>. HIDE DEF w, fs
<1>8. w = p
  BY <1>2, <1>6, <1>7, NoneLeft, Zenon
<1>9. Blocked(w, fs, t)
  BY <1>1, <1>2, <1>4, <1>8, BlockOf
<1>10. w = b \o x
  BY DEF w
<1>11. 3 * Len(fs) + 2 <= Len(b)
  BY <1>1, <1>2, <1>9, <1>10, HeadWhole
<1>12. Block(<<r.line>> \o r.fields, t)[1] = r.line
       /\ EraseFront(Block(<<r.line>> \o r.fields, t), 3) = Block(r.fields, t)
  BY <1>1, <1>2, BlockMore
<1>13. w[1] = r.line /\ EraseFront(w, 3) = Block(r.fields, t)
  BY <1>4, <1>5, <1>8, <1>12
<1>14. 3 \in 0 .. Len(b) /\ Len(b) - 3 >= 3 * Len(r.fields) + 2 /\ 1 \in 1 .. Len(b)
  <2>1. Len(b) \in Nat
    BY <1>3 DEF Agrees
  <2>. QED  BY <1>5, <1>11, <2>1
<1>15. b[1] = w[1]
  BY <1>3, <1>14 DEF Agrees
<1>16. EraseFront(b, 3) \in Seq(Byte) /\ Len(EraseFront(b, 3)) = Len(b) - 3
  BY <1>14, Erases
<1>17. EraseFront(b, 3) \o x = EraseFront(b \o x, 3)
  BY <1>14, ErasesPart, Zenon
<1>18. Len(EraseFront(b, 3)) \in Nat
  BY <1>16
<1>. QED  BY <1>10, <1>13, <1>14, <1>15, <1>16, <1>17, <1>18 DEF HeadStandsOf, t

\* The field lines of the head are those of the request, and its body follows.
HeadTakenOf(a, x, r, t) ==
    /\ FieldLines(a) = Len(r.fields)
    /\ [i \in 1 .. FieldLines(a) |-> a[3 * i - 2]] = r.fields
    /\ EraseFront(a, 3 * FieldLines(a) + 2) \in Seq(Byte)
    /\ EraseFront(a, 3 * FieldLines(a) + 2) \o x = t
    /\ Find(CRLF \o CRLF, a) = 0 => r.fields = <<>>

LEMMA HeadTaken ==
    ASSUME WellFormed, NEW r \in Requests, NEW t \in Seq(Byte),
           NEW a \in Seq(Byte), NEW x \in Seq(Byte), a \o x = Block(r.fields, t),
           3 * Len(r.fields) + 2 <= Len(a)
    PROVE  HeadTakenOf(a, x, r, t)
<1>. DEFINE w == a \o x
            fs == r.fields
            k == Len(fs)
<1>1. fs \in Seq(Fields) /\ fs \in Seq(Line) /\ k \in Nat
  BY HeadLines
<1>2. Blocked(w, fs, t) /\ w = a \o x
  BY <1>1, BlockOf
<1>3. Agrees(a, w)
  BY Received
<1>. HIDE DEF w, fs
<1>4. k \in 0 .. k /\ 3 * k <= Len(a) /\ 3 * k + 2 \in 0 .. Len(a)
  <2>1. Len(a) \in Nat
    BY <1>3 DEF Agrees
  <2>2. 3 * k + 2 <= Len(a)
    BY DEF fs
  <2>. HIDE DEF k
  <2>. QED  BY <1>1, <2>1, <2>2
<1>5. FieldLines(a) = k
  <2>1. /\ FieldLines(a) \in 0 .. k
        /\ \A m \in 0 .. k : 3 * m <= Len(a) => m <= FieldLines(a)
    BY <1>1, <1>2, FieldLinesOf
  <2>2. k <= FieldLines(a)
    BY <1>4, <2>1
  <2>. HIDE DEF k
  <2>. QED  BY <1>1, <2>1, <2>2
<1>6. [i \in 1 .. k |-> a[3 * i - 2]] = fs
  <2>1. ASSUME NEW i \in 1 .. k  PROVE a[3 * i - 2] = fs[i]
    <3>1. w[3 * i - 2] = fs[i]
      BY <1>2 DEF Blocked
    <3>2. 3 * i - 2 \in 1 .. Len(a)
      <4>1. Len(a) \in Nat
        BY <1>3 DEF Agrees
      <4>2. 3 * k <= Len(a)
        BY <1>4
      <4>. HIDE DEF k
      <4>. QED  BY <1>1, <4>1, <4>2
    <3>3. a[3 * i - 2] = w[3 * i - 2]
      BY <1>3, <3>2 DEF Agrees
    <3>. QED  BY <3>1, <3>3
  <2>2. fs = [i \in 1 .. k |-> fs[i]]
    BY <1>1
  <2>. QED  BY <2>1, <2>2
<1>7. EraseFront(a, 3 * k + 2) \in Seq(Byte)
  BY <1>4, Erases
<1>8. EraseFront(a, 3 * k + 2) \o x = EraseFront(a \o x, 3 * k + 2)
  BY <1>4, ErasesPart, Zenon
<1>9. EraseFront(w, 3 * k + 2) = t
  BY <1>2 DEF Blocked
<1>10. fs # <<>> => Find(CRLF \o CRLF, a) # 0
  <2>1. 3 * k + 2 <= Len(a)
    BY DEF fs
  <2>. QED  BY <1>1, <1>2, <2>1, HeadFound
<1>. QED  BY <1>2, <1>5, <1>6, <1>7, <1>8, <1>9, <1>10 DEF HeadTakenOf, fs, k

-------------------------------------------------------------------------------
(* What is still to be read of a request whose head was read: p is pc, c the    *)
(* client, s what is in req_buf and still to come, next the requests behind.    *)

LengthBusy(p, c, r, s, next) ==
    /\ p \in {"wait", "length"} /\ c.body = <<>> /\ c.content_length = Len(Data(r)) /\ c.exceed = FALSE
    /\ c.continue_reading => c.content_length <= c.max
    /\ Data(r) = <<>> => EmptyLines(s, next)
    /\ Data(r) # <<>> => s = Data(r) \o next

ChunksLeft(r, i, next) == Joined(ChunkSeq(r), i, Len(r.chunks)) \o (EndBytes(r) \o next)

ChunksBusy(p, c, r, s, next) ==
    /\ p \in {"wait", "chunks"} /\ c.continue_reading
    /\ \E i \in 0 .. Len(r.chunks) : TakenOf(c, r, i) /\ s = ChunksLeft(r, i, next)

TrailerBusy(p, c, r, s, next) ==
    /\ p \in {"wait", "trailer"} /\ c.continue_reading
    /\ TakenOf(c, r, Len(r.chunks)) /\ s = Block(r.trailer, next)

BusyOf(p, c, r, s, next) ==
    /\ JudgedOf(c, r)
    /\ ~c.is_chunked => LengthBusy(p, c, r, s, next)
    /\ c.is_chunked /\ ~c.is_chunk_end => ChunksBusy(p, c, r, s, next)
    /\ c.is_chunked /\ c.is_chunk_end => TrailerBusy(p, c, r, s, next)

LEMMA NoneTaken ==
    ASSUME WellFormed, ReaderAssumption, NEW r \in Requests, NEW c, EnteredOf(c, r)
    PROVE  TakenOf(c, r, 0)
<1>1. Joined(DataSeq(r), 0, 0) = <<>>
  <2>. DEFINE f == DataSeq(r)
              n == 0
  <2>1. n \in Nat /\ 0 \in 0 .. n /\ \A k \in 1 .. n : f[k] \in Seq(Byte)
    OBVIOUS
  <2>. HIDE DEF f
  <2>2. Joined(f, 0, n) = <<>>
    BY <2>1, JoinedBytes
  <2>. QED  BY <2>2 DEF f
<1>2. c.body = <<>> /\ c.exceed = FALSE /\ c.max \in Nat
  BY DEF EnteredOf, Client
<1>3. Len(c.body) <= c.max
  BY <1>2
<1>4. \A j \in 1 .. 0 : Fits(r.chunks[j])
  OBVIOUS
<1>. QED  BY <1>1, <1>2, <1>3, <1>4 DEF TakenOf

LEMMA Entered ==
    ASSUME WellFormed, ReaderAssumption, NEW r \in Requests, NEW c, EnteredOf(c, r),
           NEW next \in Seq(Byte), NEW s,
           s = BodyBytes(r) \o next \/ (s = CRLF \o (BodyBytes(r) \o next) /\ r.fields = <<>>)
    PROVE  BusyOf(IF c.is_chunked THEN "chunks" ELSE "length", c, r, s, next)
<1>1. JudgedOf(c, r) /\ c.is_chunked = Chunked(r) /\ c.is_chunk_end = FALSE /\ c.body = <<>>
      /\ c.exceed = FALSE /\ c.content_length = Said(r) /\ c.continue_reading = c.is_chunked
  BY DEF EnteredOf, JudgedOf
<1>2. CASE Chunked(r)
  <2>. DEFINE n == Len(r.chunks)
              j == Joined(ChunkSeq(r), 0, n)
              e == EndBytes(r)
  <2>1. r.fields # <<>>
    BY <1>2 DEF Chunked, Has, ToSet
  <2>2. j \in Seq(Byte) /\ e \in Seq(Byte) /\ BodyBytes(r) = j \o e
    BY <1>2, JoinedOf, BytesOf DEF BodyBytes, ChunkSeq
  <2>3. (j \o e) \o next = j \o (e \o next)
    <3>. HIDE DEF j, e
    <3>. QED  BY <2>2, Regroup, Zenon
  <2>4. s = ChunksLeft(r, 0, next)
    <3>1. s = BodyBytes(r) \o next
      BY <2>1
    <3>. QED  BY <2>2, <2>3, <3>1 DEF ChunksLeft
  <2>5. TakenOf(c, r, 0) /\ 0 \in 0 .. n
    BY NoneTaken, ChunksOf
  <2>6. ChunksBusy("chunks", c, r, s, next)
    BY <1>1, <1>2, <2>4, <2>5 DEF ChunksBusy
  <2>. QED  BY <1>1, <1>2, <2>6 DEF BusyOf
<1>3. CASE ~Chunked(r)
  <2>1. BodyBytes(r) = Data(r) /\ Len(Data(r)) = Said(r) /\ Data(r) \in Seq(Byte)
    <3>1. Sized(r)
      BY DEF WellFormed
    <3>. QED  BY <1>3, <3>1, JoinedOf DEF BodyBytes, Sized
  <2>2. Data(r) # <<>> => s = Data(r) \o next
    <3>1. r.fields = <<>> => Said(r) = 0
      BY HeadLines, LengthSaid DEF Said
    <3>2. Data(r) # <<>> => Len(Data(r)) # 0
      BY <2>1
    <3>. QED  BY <2>1, <3>1, <3>2
  <2>3. Data(r) = <<>> => EmptyLines(s, next)
    <3>1. <<>> \o next = next
      BY Regroups
    <3>2. EmptyLines(next, next) /\ EmptyLines(CRLF \o next, next)
      BY EmptyLinesNone, EmptyLinesOne
    <3>. QED  BY <2>1, <3>1, <3>2
  <2>4. LengthBusy("length", c, r, s, next)
    BY <1>1, <1>3, <2>1, <2>2, <2>3 DEF LengthBusy
  <2>. QED  BY <1>1, <1>3, <2>4 DEF BusyOf
<1>. QED  BY <1>2, <1>3

\* recv() goes on with what the handler awaited.
LEMMA BusyWaits ==
    ASSUME NEW p, NEW q, NEW c, NEW r, NEW s, NEW next, BusyOf(p, c, r, s, next),
           \/ q = "wait"
           \/ q = (IF c.is_chunked THEN (IF c.is_chunk_end THEN "trailer" ELSE "chunks") ELSE "length")
    PROVE  BusyOf(q, c, r, s, next)
<1>1. CASE ~c.is_chunked
  <2>1. LengthBusy(q, c, r, s, next)
    BY <1>1 DEF BusyOf, LengthBusy
  <2>. QED  BY <1>1, <2>1 DEF BusyOf
<1>2. CASE c.is_chunked /\ ~c.is_chunk_end
  <2>1. ChunksBusy(q, c, r, s, next)
    BY <1>2 DEF BusyOf, ChunksBusy
  <2>. QED  BY <1>2, <2>1 DEF BusyOf
<1>3. CASE c.is_chunked /\ c.is_chunk_end
  <2>1. TrailerBusy(q, c, r, s, next)
    BY <1>3 DEF BusyOf, TrailerBusy
  <2>. QED  BY <1>3, <2>1 DEF BusyOf
<1>. QED  BY <1>1, <1>2, <1>3

\* The peer sends one request more.
LEMMA BusyMore ==
    ASSUME WellFormed, NEW p, NEW c, NEW r \in Requests, NEW s \in Seq(Byte), NEW next \in Seq(Byte),
           NEW y \in Seq(Byte), BusyOf(p, c, r, s, next)
    PROVE  BusyOf(p, c, r, s \o y, next \o y)
<1>1. CASE ~c.is_chunked
  <2>1. Data(r) \in Seq(Byte)
    BY JoinedOf
  <2>2. (Data(r) \o next) \o y = Data(r) \o (next \o y)
    BY <2>1, Regroup, Zenon
  <2>3. EmptyLines(s, next) => EmptyLines(s \o y, next \o y)
    BY EmptyLinesMore
  <2>4. LengthBusy(p, c, r, s, next)
    BY <1>1 DEF BusyOf
  <2>5. LengthBusy(p, c, r, s \o y, next \o y)
    BY <2>2, <2>3, <2>4 DEF LengthBusy
  <2>. QED  BY <1>1, <2>5 DEF BusyOf
<1>2. CASE c.is_chunked /\ ~c.is_chunk_end
  <2>1. ASSUME NEW i \in 0 .. Len(r.chunks)
        PROVE  ChunksLeft(r, i, next) \o y = ChunksLeft(r, i, next \o y)
    <3>. DEFINE n == Len(r.chunks)
                f == ChunkSeq(r)
                j == Joined(f, i, n)
                e == EndBytes(r)
                g == e \o next
    <3>1. n \in Nat /\ \A k \in 1 .. n : f[k] \in Seq(Byte)
      BY ChunksOf
    <3>2. j \in Seq(Byte)
      <4>1. i \in 0 .. n
        OBVIOUS
      <4>. HIDE DEF f, n
      <4>. QED  BY <3>1, <4>1, JoinedBytes
    <3>3. e \in Seq(Byte)
      BY BytesOf
    <3>. HIDE DEF j, e
    <3>4. g \in Seq(Byte)
      BY <3>3, JoinsIn, Zenon
    <3>5. g \o y = e \o (next \o y)
      BY <3>3, Regroup, Zenon
    <3>. HIDE DEF g
    <3>6. (j \o g) \o y = j \o (g \o y)
      BY <3>2, <3>4, Regroup, Zenon
    <3>. QED  BY <3>5, <3>6 DEF ChunksLeft, j, g, e
  <2>2. ChunksBusy(p, c, r, s, next)
    BY <1>2 DEF BusyOf
  <2>3. ChunksBusy(p, c, r, s \o y, next \o y)
    BY <2>1, <2>2 DEF ChunksBusy
  <2>. QED  BY <1>2, <2>3 DEF BusyOf
<1>3. CASE c.is_chunked /\ c.is_chunk_end
  <2>1. Block(r.trailer, next) \o y = Block(r.trailer, next \o y)
    BY HeadLines, BlockLonger
  <2>2. TrailerBusy(p, c, r, s, next)
    BY <1>3 DEF BusyOf
  <2>3. TrailerBusy(p, c, r, s \o y, next \o y)
    BY <2>1, <2>2 DEF TrailerBusy
  <2>. QED  BY <1>3, <2>3 DEF BusyOf
<1>. QED  BY <1>1, <1>2, <1>3

-------------------------------------------------------------------------------
(* The next chunk in the buffer                                                *)

\* The end of the size line, once it is there.
LEMMA SizeLineEnd ==
    ASSUME NEW d \in DOMAIN Digit, NEW w, NEW y, Sizes(w, d, y),
           NEW b \in Seq(Byte), Agrees(b, w), Find(CRLF, b) # 0
    PROVE  /\ Find(CRLF, b) = 2 /\ 3 <= Len(b)
           /\ SubSeq(b, 1, Find(CRLF, b) - 1) = <<d>>
<1>. DEFINE e == Find(CRLF, b)
<1>1. /\ e \in Nat /\ e # 0 /\ NewLineAt(b, e)
      /\ \A p \in Nat \ {0} : NewLineAt(b, p) => e <= p
  BY FindNewLine
<1>2. w[1] = d /\ w[2] = "CR" /\ w[3] = "LF" /\ Len(w) = 3 + Len(y) /\ Len(y) \in Nat
  BY DEF Sizes
<1>3. d # "CR"
  BY Tokens
<1>4. Len(b) \in Nat /\ (\A p \in 1 .. Len(b) : b[p] = w[p])
      /\ \A p \in Nat \ {0} : NewLineAt(b, p) <=> p + 1 <= Len(b) /\ NewLineAt(w, p)
  BY DEF Agrees
<1>. HIDE DEF e
<1>5. e + 1 <= Len(b) /\ NewLineAt(w, e)
  BY <1>1, <1>4
<1>6. e # 1
  BY <1>2, <1>3, <1>5 DEF NewLineAt
<1>7. 3 <= Len(b)
  BY <1>1, <1>4, <1>5, <1>6
<1>8. NewLineAt(w, 2)
  BY <1>2 DEF NewLineAt
<1>9. NewLineAt(b, 2)
  BY <1>4, <1>7, <1>8
<1>10. e <= 2
  BY <1>1, <1>9
<1>11. e = 2
  BY <1>1, <1>6, <1>10
<1>12. b[1] = d
  BY <1>2, <1>4, <1>7
<1>13. SubSeq(b, 1, 1) = <<d>>
  <2>. DEFINE u == SubSeq(b, 1, 1)
              one == <<d>>
  <2>1. u \in Seq(Byte) /\ Len(u) = 1 /\ \A j \in 1 .. 1 : u[j] = b[1 + j - 1]
    <3>1. 1 \in 1 .. Len(b) /\ 1 \in Nat /\ 1 + 1 <= Len(b) + 1 /\ 1 + 1 - 1 = 1
      BY <1>4, <1>7
    <3>. QED  BY <3>1, Part
  <2>2. one \in Seq(Byte) /\ Len(one) = 1 /\ one[1] = d
    BY Tokens
  <2>3. u[1] = d
    BY <1>12, <2>1
  <2>. HIDE DEF u, one
  <2>4. \A j \in 1 .. Len(u) : u[j] = one[j]
    BY <2>1, <2>2, <2>3
  <2>5. u = one
    BY <2>1, <2>2, <2>4, SeqEqual
  <2>. QED  BY <2>5 DEF u, one
<1>. QED  BY <1>7, <1>11, <1>13 DEF e

\* Behind the last chunk comes the trailer.
LEMMA LastStands ==
    ASSUME WellFormed, NEW r \in Requests, NEW next \in Seq(Byte),
           NEW b \in Seq(Byte), NEW x \in Seq(Byte),
           b \o x = ChunksLeft(r, Len(r.chunks), next), Find(CRLF, b) # 0
    PROVE  /\ Find(CRLF, b) = 2 /\ 3 <= Len(b)
           /\ ChunkSize(SubSeq(b, 1, Find(CRLF, b) - 1)) = 0
           /\ EraseFront(b, 3) \in Seq(Byte)
           /\ EraseFront(b, 3) \o x = Block(r.trailer, next)
<1>. DEFINE n == Len(r.chunks)
            l == LineBytes(r.trailer)
            y == Block(r.trailer, next)
            w == b \o x
            d == "0"
<1>1. d \in DOMAIN Digit /\ Digit[d] = 0
  BY DEF Digit
<1>2. y \in Seq(Byte) /\ l \in Seq(Byte) /\ CRLF \in Seq(Byte)
  BY HeadLines, BlockLonger, LineBytesOf, NewLine
<1>3. w = EndBytes(r) \o next
  <2>. DEFINE f == ChunkSeq(r)
  <2>1. n \in Nat /\ n \in 0 .. n /\ \A k \in 1 .. n : f[k] \in Seq(Byte)
    BY ChunksOf
  <2>. HIDE DEF f, n
  <2>2. Joined(f, n, n) = <<>>
    BY <2>1, JoinedBytes
  <2>3. EndBytes(r) \o next \in Seq(Byte)
    BY BytesOf, JoinsIn, Zenon
  <2>4. <<>> \o (EndBytes(r) \o next) = EndBytes(r) \o next
    BY <2>3, Regroups
  <2>. QED  BY <2>2, <2>4 DEF ChunksLeft, f, n
<1>4. EndBytes(r) \o next = <<d>> \o (CRLF \o y)
  <2>. DEFINE zero == <<d>>
              u == l \o CRLF
              v == CRLF \o u
  <2>0. zero \in Seq(Byte)
    BY <1>1, Tokens
  <2>. HIDE DEF zero, l
  <2>1. u \in Seq(Byte)
    BY <1>2, JoinsIn, Zenon
  <2>2. u \o next = l \o (CRLF \o next)
    BY <1>2, Regroup, Zenon
  <2>. HIDE DEF u
  <2>3. v \in Seq(Byte)
    BY <1>2, <2>1, JoinsIn, Zenon
  <2>4. v \o next = CRLF \o (u \o next)
    <3>1. CRLF \in Seq(Byte) /\ u \in Seq(Byte) /\ next \in Seq(Byte)
      BY <1>2, <2>1
    <3>2. (CRLF \o u) \o next = CRLF \o (u \o next)
      BY <3>1, Regroup, ZenonT(30)
    <3>. QED  BY <3>2
  <2>. HIDE DEF v
  <2>5. (zero \o v) \o next = zero \o (v \o next)
    BY <2>0, <2>3, Regroup, Zenon
  <2>6. EndBytes(r) = zero \o v
    BY DEF EndBytes, zero, v, u, l
  <2>7. y = l \o (CRLF \o next)
    BY DEF Block, l
  <2>. HIDE DEF y
  <2>. QED  BY <2>2, <2>4, <2>5, <2>6, <2>7 DEF zero
<1>. HIDE DEF y
<1>5. Sizes(w, d, y)
  <2>. HIDE DEF d, w
  <2>1. w = <<d>> \o (CRLF \o y)
    BY <1>3, <1>4
  <2>. QED  BY <1>1, <1>2, <2>1, SizeLine
<1>6. Agrees(b, w)
  BY Received
<1>7. Find(CRLF, b) = 2 /\ 3 <= Len(b) /\ SubSeq(b, 1, Find(CRLF, b) - 1) = <<d>>
  <2>. HIDE DEF d, w
  <2>. QED  BY <1>1, <1>5, <1>6, SizeLineEnd
<1>8. ChunkSize(<<d>>) = 0
  <2>. HIDE DEF d
  <2>. QED  BY <1>1, OneDigit
<1>9. 3 \in 0 .. Len(b)
  BY <1>7
<1>10. EraseFront(b, 3) \in Seq(Byte)
  BY <1>9, Erases
<1>11. EraseFront(b, 3) \o x = EraseFront(w, 3)
  BY <1>9, ErasesPart, Zenon
<1>12. EraseFront(w, 3) = y
  BY <1>5 DEF Sizes
<1>. QED  BY <1>7, <1>8, <1>10, <1>11, <1>12 DEF y

\* What the chunk k in front of the buffer b is found to be.
ChunkIn(b, x, k, left) ==
    LET size == ChunkSize(SubSeq(b, 1, Find(CRLF, b) - 1))
    IN  /\ Find(CRLF, b) = 2 /\ size = k.size /\ size > 0 /\ size \in Nat /\ Len(b) \in Nat
        /\ 5 + size <= Len(b) =>
              /\ NewLineAt(b, 4 + size) <=> Fits(k)
              /\ Fits(k) => /\ SubSeq(b, 4, 3 + size) = k.data
                            /\ EraseFront(b, 5 + size) \in Seq(Byte)
                            /\ EraseFront(b, 5 + size) \o x = left

LEMMA ChunkFound ==
    ASSUME WellFormed, NEW r \in Requests, Chunked(r), NEW next \in Seq(Byte),
           NEW i \in Nat, i < Len(r.chunks),
           NEW b \in Seq(Byte), NEW x \in Seq(Byte),
           b \o x = ChunksLeft(r, i, next), Find(CRLF, b) # 0
    PROVE  ChunkIn(b, x, r.chunks[i + 1], ChunksLeft(r, i + 1, next))
<1>. DEFINE n == Len(r.chunks)
            k == r.chunks[i + 1]
            f == ChunkSeq(r)
            e == EndBytes(r) \o next
            more == Joined(f, i + 1, n)
            left == more \o e
            w == b \o x
            d == InHex[k.size]
<1>1. /\ k.size \in 0 .. 3 /\ k.data \in Seq(Byte) /\ k.size > 0
      /\ Fits(k) \/ Shows(k)
      /\ f[i + 1] = ChunkBytes(k)
  <2>1. i + 1 \in 1 .. Len(r.chunks)
    BY ChunksOf
  <2>. QED  BY <2>1, ChunksOf
<1>2. e \in Seq(Byte)
  BY BytesOf, JoinsIn, Zenon
<1>3. /\ f[i + 1] \in Seq(Byte) /\ Joined(f, i, n) = f[i + 1] \o more /\ more \in Seq(Byte)
  <2>1. n \in Nat /\ i \in 0 .. n /\ i < n /\ \A l \in 1 .. n : f[l] \in Seq(Byte)
    BY ChunksOf
  <2>. HIDE DEF f, n
  <2>. QED  BY <2>1, JoinedBytes
<1>. HIDE DEF more, e
<1>4. left \in Seq(Byte)
  BY <1>2, <1>3, JoinsIn, Zenon
<1>5. (f[i + 1] \o more) \o e = f[i + 1] \o left
  <2>. DEFINE u == f[i + 1]
  <2>1. u \in Seq(Byte)
    BY <1>3
  <2>. HIDE DEF u
  <2>2. (u \o more) \o e = u \o (more \o e)
    BY <1>2, <1>3, <2>1, Regroup, Zenon
  <2>. QED  BY <2>2 DEF u
<1>6. w = ChunkBytes(k) \o left
  <2>1. w = Joined(f, i, n) \o e
    BY DEF ChunksLeft, e
  <2>2. f[i + 1] = ChunkBytes(k)
    <3>1. i + 1 \in 1 .. Len(r.chunks)
      BY ChunksOf
    <3>. QED  BY <3>1, ChunksOf
  <2>. HIDE DEF w, f, n, k, left
  <2>. QED  BY <1>3, <1>5, <2>1, <2>2
<1>7. left = ChunksLeft(r, i + 1, next)
  BY DEF ChunksLeft, e, more
<1>. HIDE DEF left, k, w
<1>8. Chunks(w, k, left)
  BY <1>1, <1>4, <1>6, ChunkStands
<1>9. Agrees(b, w) /\ w = b \o x
  BY Received DEF w
<1>10. d \in DOMAIN Digit /\ Digit[d] = k.size /\ k.size \in Nat
  BY <1>1, Digits
<1>11. PICK y : Sizes(w, d, y)
  BY <1>8 DEF Chunks
<1>. HIDE DEF d
<1>12. Find(CRLF, b) = 2 /\ 3 <= Len(b) /\ SubSeq(b, 1, Find(CRLF, b) - 1) = <<d>>
  BY <1>9, <1>10, <1>11, SizeLineEnd
<1>13. ChunkSize(SubSeq(b, 1, Find(CRLF, b) - 1)) = k.size
  <2>1. ChunkSize(<<d>>) = Digit[d]
    BY <1>10, OneDigit
  <2>. QED  BY <1>10, <1>12, <2>1
<1>. DEFINE s == k.size
            a == k.data
            m == Len(a)
<1>14. /\ m \in Nat /\ Len(left) \in Nat /\ Len(w) = 5 + m + Len(left)
       /\ (\A j \in 1 .. m : w[3 + j] = a[j])
       /\ w[m + 4] = "CR" /\ w[m + 5] = "LF" /\ EraseFront(w, m + 5) = left
  BY <1>8 DEF Chunks
<1>15. s \in Nat /\ s > 0 /\ Len(b) \in Nat
  BY <1>1, <1>9 DEF Agrees
<1>16. /\ \A p \in 1 .. Len(b) : b[p] = w[p]
       /\ \A p \in Nat \ {0} : NewLineAt(b, p) <=> p + 1 <= Len(b) /\ NewLineAt(w, p)
  BY <1>9 DEF Agrees
<1>17. Fits(k) <=> s = m
  BY DEF Fits
<1>18. Shows(k) => s < m /\ a[s + 1] # "CR"
  BY DEF Shows
<1>19. Fits(k) \/ Shows(k)
  BY <1>1
<1>20. a \in Seq(Byte)
  BY <1>1
<1>. HIDE DEF s, a, m
<1>21. ASSUME 5 + s <= Len(b)
       PROVE  /\ NewLineAt(b, 4 + s) <=> Fits(k)
              /\ Fits(k) => /\ SubSeq(b, 4, 3 + s) = a
                            /\ EraseFront(b, 5 + s) \in Seq(Byte)
                            /\ EraseFront(b, 5 + s) \o x = left
  <2>1. ASSUME Fits(k)  PROVE NewLineAt(b, 4 + s)
    <3>1. s = m /\ NewLineAt(w, 4 + s)
      BY <1>14, <1>17, <2>1 DEF NewLineAt
    <3>2. 4 + s \in Nat \ {0} /\ (4 + s) + 1 <= Len(b)
      BY <1>15, <1>21
    <3>. QED  BY <1>16, <3>1, <3>2
  <2>2. ASSUME NewLineAt(b, 4 + s)  PROVE Fits(k)
    <3>1. SUFFICES ASSUME Shows(k)  PROVE FALSE
      BY <1>19
    <3>2. s < m /\ a[s + 1] # "CR"
      BY <1>18, <3>1
    <3>3. s + 1 \in 1 .. m /\ 3 + (s + 1) = 4 + s /\ 4 + s \in 1 .. Len(b)
      BY <1>14, <1>15, <1>21, <3>2
    <3>4. w[4 + s] = a[s + 1]
      BY <1>14, <3>3
    <3>5. b[4 + s] = "CR"
      BY <2>2 DEF NewLineAt
    <3>. QED  BY <1>16, <3>2, <3>3, <3>4, <3>5
  <2>3. ASSUME Fits(k)
        PROVE  /\ SubSeq(b, 4, 3 + s) = a
               /\ EraseFront(b, 5 + s) \in Seq(Byte)
               /\ EraseFront(b, 5 + s) \o x = left
    <3>1. s = m /\ 4 \in 1 .. Len(b) /\ 4 + s <= Len(b) + 1 /\ 4 + s - 1 = 3 + s
          /\ 5 + s \in 0 .. Len(b) /\ 5 + s = m + 5
      BY <1>15, <1>17, <1>21, <2>3
    <3>. DEFINE u == SubSeq(b, 4, 3 + s)
    <3>2. u \in Seq(Byte) /\ Len(u) = s /\ \A j \in 1 .. s : u[j] = b[4 + j - 1]
      <4>1. SubSeq(b, 4, 4 + s - 1) \in Seq(Byte) /\ Len(SubSeq(b, 4, 4 + s - 1)) = s
            /\ \A j \in 1 .. s : SubSeq(b, 4, 4 + s - 1)[j] = b[4 + j - 1]
        BY <1>15, <3>1, Part
      <4>. QED  BY <3>1, <4>1
    <3>. HIDE DEF u
    <3>3. ASSUME NEW j \in 1 .. Len(u)  PROVE u[j] = a[j]
      <4>1. j \in 1 .. s /\ j \in 1 .. m /\ 4 + j - 1 = 3 + j /\ 3 + j \in 1 .. Len(b)
        BY <1>14, <1>15, <1>21, <3>1, <3>2
      <4>. QED  BY <1>14, <1>16, <3>2, <4>1
    <3>4. u = a
      BY <1>20, <3>1, <3>2, <3>3, SeqEqual DEF m
    <3>5. EraseFront(b, 5 + s) \in Seq(Byte)
      BY <3>1, Erases
    <3>6. EraseFront(b, 5 + s) \o x = EraseFront(b \o x, 5 + s)
      BY <3>1, ErasesPart, Zenon
    <3>7. EraseFront(w, 5 + s) = left
      BY <1>14, <3>1
    <3>. QED  BY <1>9, <3>4, <3>5, <3>6, <3>7 DEF u
  <2>. QED  BY <2>1, <2>2, <2>3
<1>. QED  BY <1>7, <1>12, <1>13, <1>15, <1>21 DEF ChunkIn, k, s, a

-------------------------------------------------------------------------------
(* The trailer, and how a request ends                                         *)

TrailerFound(b, x, next) ==
    LET cut == EraseFront(b, 3 * FieldLines(b))
    IN  /\ cut \in Seq(Byte)
        /\ NewLineAt(b, 1) => /\ EraseFront(b, 2) \in Seq(Byte)
                              /\ EraseFront(b, 2) \o x = next
        /\ Find(CRLF, cut) # 0 => cut \o x = CRLF \o next

LEMMA TrailerStands ==
    ASSUME WellFormed, NEW r \in Requests, NEW next \in Seq(Byte),
           NEW b \in Seq(Byte), NEW x \in Seq(Byte), b \o x = Block(r.trailer, next)
    PROVE  TrailerFound(b, x, next)
<1>. DEFINE fs == r.trailer
            k == Len(fs)
            n == FieldLines(b)
            w == b \o x
            cut == EraseFront(b, 3 * n)
<1>1. fs \in Seq(Fields) /\ fs \in Seq(Line) /\ k \in Nat
  BY HeadLines
<1>2. Blocked(w, fs, next) /\ w = b \o x
  BY <1>1, BlockOf
<1>. HIDE DEF w
<1>3. Agrees(b, w)
  BY <1>2, Received
<1>4. n \in 0 .. k /\ 3 * n <= Len(b) /\ \A m \in 0 .. k : 3 * m <= Len(b) => m <= n
  BY <1>1, <1>2, FieldLinesOf
<1>5. /\ \A j \in 1 .. k : w[3 * j - 2] = fs[j]
      /\ EraseFront(w, 3 * k) = CRLF \o next /\ EraseFront(w, 3 * k + 2) = next
  BY <1>2 DEF Blocked
<1>6. /\ Len(b) \in Nat /\ \A p \in 1 .. Len(b) : b[p] = w[p]
      /\ \A p \in Nat \ {0} : NewLineAt(b, p) <=> p + 1 <= Len(b) /\ NewLineAt(w, p)
  BY <1>3 DEF Agrees
<1>7. \A j \in 1 .. k : fs[j] # "CR"
  <2>1. ASSUME NEW j \in 1 .. k  PROVE fs[j] \in Line
    BY <1>1
  <2>. QED  BY <2>1, Tokens
<1>. HIDE DEF k, n, fs
<1>8. 3 * n \in 0 .. Len(b)
  BY <1>1, <1>4, <1>6
<1>9. cut \in Seq(Byte) /\ Len(cut) = Len(b) - 3 * n
      /\ \A i \in 1 .. (Len(b) - 3 * n) : cut[i] = b[3 * n + i]
  BY <1>8, Erases
<1>10. cut \o x = EraseFront(w, 3 * n)
  <2>1. EraseFront(b, 3 * n) \o x = EraseFront(b \o x, 3 * n)
    BY <1>8, ErasesPart, Zenon
  <2>. QED  BY <1>2, <2>1
<1>11. ASSUME NewLineAt(b, 1)
       PROVE  EraseFront(b, 2) \in Seq(Byte) /\ EraseFront(b, 2) \o x = next
  <2>1. 2 \in 0 .. Len(b) /\ w[1] = "CR" /\ 1 \in 1 .. Len(b)
    BY <1>6, <1>11 DEF NewLineAt
  <2>2. k = 0
    <3>1. SUFFICES ASSUME k # 0  PROVE FALSE
      OBVIOUS
    <3>2. 1 \in 1 .. k /\ 3 * 1 - 2 = 1
      BY <1>1, <3>1
    <3>3. w[3 * 1 - 2] = fs[1] /\ fs[1] # "CR"
      BY <1>5, <1>7, <3>2
    <3>. QED  BY <2>1, <3>2, <3>3
  <2>3. EraseFront(w, 2) = next
    <3>1. 3 * k + 2 = 2
      BY <2>2
    <3>. QED  BY <1>5, <3>1
  <2>4. EraseFront(b, 2) \in Seq(Byte)
    BY <2>1, Erases
  <2>5. EraseFront(b, 2) \o x = EraseFront(b \o x, 2)
    BY <2>1, ErasesPart, Zenon
  <2>. QED  BY <1>2, <2>3, <2>4, <2>5
<1>. HIDE DEF cut
<1>12. ASSUME Find(CRLF, cut) # 0  PROVE cut \o x = CRLF \o next
  <2>. DEFINE p == Find(CRLF, cut)
  <2>1. p \in Nat \ {0} /\ NewLineAt(cut, p)
    BY <1>9, <1>12, FindNewLine
  <2>. HIDE DEF p
  <2>2. p + 1 <= Len(cut) /\ cut[p] = "CR"
    BY <2>1 DEF NewLineAt
  <2>3. n = k
    <3>1. SUFFICES ASSUME n # k  PROVE FALSE
      OBVIOUS
    <3>2. n + 1 \in 0 .. k /\ n + 1 \in 1 .. k
      BY <1>1, <1>4, <3>1
    <3>3. ~(3 * (n + 1) <= Len(b))
      <4>1. ~(n + 1 <= n)
        BY <1>4
      <4>. QED  BY <1>4, <3>2, <4>1
    <3>4. n \in Nat /\ Len(cut) <= 2
      <4>1. n \in Nat
        BY <1>1, <1>4
      <4>. QED  BY <1>6, <1>9, <3>3, <4>1
    <3>5. p = 1 /\ 1 \in 1 .. (Len(b) - 3 * n) /\ 3 * n + 1 \in 1 .. Len(b) /\ 3 * (n + 1) - 2 = 3 * n + 1
      BY <1>6, <1>8, <1>9, <2>1, <2>2, <3>4
    <3>6. cut[1] = b[3 * n + 1] /\ b[3 * n + 1] = w[3 * n + 1]
      BY <1>6, <1>9, <3>5
    <3>7. w[3 * (n + 1) - 2] = fs[n + 1] /\ fs[n + 1] # "CR"
      BY <1>5, <1>7, <3>2
    <3>. QED  BY <2>2, <3>5, <3>6, <3>7
  <2>. QED  BY <1>5, <1>10, <2>3
<1>. QED  BY <1>9, <1>11, <1>12 DEF TrailerFound, cut, n

\* The client of a refused request.
RefusedOf(c, s) == [c EXCEPT !.status = s, !.keepAlive = FALSE]

LEMMA Refused ==
    ASSUME NEW c \in Client, NEW s \in Nat
    PROVE  /\ RefusedOf(c, s) \in Client /\ RefusedOf(c, s).status = s
           /\ ~RefusedOf(c, s).keepAlive /\ ~KeptOf(RefusedOf(c, s))
<1>1. RefusedOf(c, s) \in Client /\ RefusedOf(c, s).status = s /\ ~RefusedOf(c, s).keepAlive
  BY DEF RefusedOf, Client
<1>. QED  BY <1>1 DEF KeptOf

LEMMA RefusesWell ==
    ASSUME NEW c \in Client, NEW r, NEW s \in Nat,
           \/ s = 400 /\ (Broken(r) \/ Chunked(r))
           \/ s = 413 /\ ~Broken(r) /\ TooLong(r)
    PROVE  Well(RefusedOf(c, s), r)
<1>. DEFINE m == RefusedOf(c, s)
<1>1. m \in Client /\ m.status = s /\ m.keepAlive = FALSE
  BY DEF RefusedOf, Client
<1>. HIDE DEF m
<1>2. Well(m, r)
  BY <1>1, RefusedWell
<1>. QED  BY <1>2 DEF m

\* A request whose chunks are as long as they say is not broken.
LEMMA FitsWhole ==
    ASSUME WellFormed, NEW r \in Requests, r.line # "BAD", \A j \in 1 .. Len(r.chunks) : Fits(r.chunks[j])
    PROVE  ~Broken(r)
<1>1. DOMAIN r.chunks = 1 .. Len(r.chunks)
  BY ChunksOf
<1>2. ~Has(r, "Junk")
  BY HeadLines
<1>. QED  BY <1>1, <1>2 DEF Broken, Fits

\* FinishChunked.
LEMMA FinishedWell ==
    ASSUME WellFormed, NEW r \in Requests, NEW c \in Client, JudgedOf(c, r),
           TakenOf(c, r, Len(r.chunks)), c.keepAlive = TRUE
    PROVE  /\ c.exceed => Well(RefusedOf(c, 413), r)
           /\ ~c.exceed => Well(c, r)
<1>1. r.line # "BAD" /\ c.status = HeadStatus(r) /\ c.consume = (c.status = 0)
      /\ (Has(r, "Host") => c.max = MaxBody)
  BY DEF JudgedOf
<1>2. /\ \A j \in 1 .. Len(r.chunks) : Fits(r.chunks[j])
      /\ c.exceed => Has(r, "Host") /\ (Broken(r) \/ Len(Data(r)) > c.max)
      /\ c.consume /\ ~c.exceed => c.body = Joined(DataSeq(r), 0, Len(r.chunks)) /\ Len(c.body) <= c.max
  BY DEF TakenOf
<1>3. ~Broken(r)
  BY <1>1, <1>2, FitsWhole
<1>4. Data(r) = Joined(DataSeq(r), 0, Len(r.chunks)) /\ Len(Data(r)) \in Nat
  BY JoinedOf
<1>5. ASSUME c.exceed  PROVE Well(RefusedOf(c, 413), r)
  <2>1. TooLong(r)
    BY <1>1, <1>2, <1>3, <1>5 DEF TooLong
  <2>. QED  BY <1>3, <2>1, RefusesWell
<1>6. ASSUME ~c.exceed  PROVE Well(c, r)
  <2>1. ASSUME c.status = 0  PROVE c.body = Data(r) /\ ~TooLong(r)
    <3>1. c.body = Data(r) /\ Len(Data(r)) <= c.max
      BY <1>1, <1>2, <1>4, <1>6, <2>1
    <3>2. Has(r, "Host") /\ c.max = MaxBody
      BY <1>1, <2>1, Statuses
    <3>3. c.max \in Nat
      BY DEF Client
    <3>4. ~(Len(Data(r)) > MaxBody)
      BY <1>4, <3>1, <3>2, <3>3
    <3>. QED  BY <3>1, <3>4 DEF TooLong
  <2>. QED  BY <1>3, <2>1, AnsweredWell
<1>. QED  BY <1>5, <1>6

-------------------------------------------------------------------------------
(* A body of a known length                                                    *)

LEMMA SaidFits ==
    ASSUME WellFormed, NEW r \in Requests, r.line # "BAD", ~Chunked(r)
    PROVE  /\ ~Broken(r) /\ Len(Data(r)) = Said(r)
           /\ Has(r, "Host") \/ Said(r) <= DefaultMax
<1>1. \A j \in 1 .. Len(r.chunks) : Fits(r.chunks[j])
  BY ChunksOf
<1>2. Sized(r) /\ Bounded(r)
  BY DEF WellFormed
<1>. QED  BY <1>1, <1>2, FitsWhole DEF Sized, Bounded

\* LengthExceeded: the limit is that of the location.
LEMMA ExceededWell ==
    ASSUME WellFormed, ReaderAssumption, NEW r \in Requests, NEW c \in Client, JudgedOf(c, r), ~c.is_chunked,
           c.content_length = Len(Data(r)), ~(c.content_length <= c.max),
           NEW m, m = RefusedOf([c EXCEPT !.exceed = TRUE], 413)
    PROVE  m \in Client /\ Well(m, r) /\ ~KeptOf(m)
<1>1. r.line # "BAD" /\ ~Chunked(r) /\ c.max = IF Has(r, "Host") THEN MaxBody ELSE DefaultMax
  BY DEF JudgedOf
<1>2. ~Broken(r) /\ Len(Data(r)) = Said(r) /\ (Has(r, "Host") \/ Said(r) <= DefaultMax)
  BY <1>1, SaidFits
<1>3. Len(Data(r)) \in Nat /\ c.max \in Nat
  BY JoinedOf DEF Client
<1>4. Has(r, "Host") /\ Len(Data(r)) > MaxBody
  BY <1>1, <1>2, <1>3
<1>5. TooLong(r)
  BY <1>4 DEF TooLong
<1>. DEFINE e == [c EXCEPT !.exceed = TRUE]
<1>6. e \in Client
  BY DEF Client
<1>. HIDE DEF e
<1>7. Well(RefusedOf(e, 413), r)
  BY <1>2, <1>5, <1>6, RefusesWell
<1>8. RefusedOf(e, 413) \in Client /\ ~KeptOf(RefusedOf(e, 413))
  <2>1. 413 \in Nat
    OBVIOUS
  <2>2. RefusedOf(e, 413) \in Client
    BY <1>6, <2>1, Refused, Zenon
  <2>3. ~KeptOf(RefusedOf(e, 413))
    <3>1. ~RefusedOf(e, 413).keepAlive
      BY <1>6 DEF RefusedOf, Client
    <3>. QED  BY <3>1 DEF KeptOf
  <2>. QED  BY <2>2, <2>3
<1>. QED  BY <1>7, <1>8 DEF e

\* BodyRead: the body and nothing but the body is taken.
LEMMA BodyTaken ==
    ASSUME WellFormed, ReaderAssumption, NEW r \in Requests, NEW c \in Client, JudgedOf(c, r), ~c.is_chunked,
           c.keepAlive = TRUE, NEW next \in Seq(Byte), NEW b \in Seq(Byte), NEW x \in Seq(Byte), NEW p,
           LengthBusy(p, c, r, b \o x, next), c.content_length <= Len(b),
           c.continue_reading \/ c.content_length <= c.max,
           NEW m, m = [c EXCEPT !.continue_reading = FALSE,
                                !.body = IF c.consume THEN SubSeq(b, 1, c.content_length) ELSE @]
    PROVE  /\ m \in Client /\ Well(m, r) /\ m.keepAlive = TRUE
           /\ EraseFront(b, c.content_length) \in Seq(Byte)
           /\ EmptyLines(EraseFront(b, c.content_length) \o x, next)
<1>. DEFINE d == Data(r)
            n == c.content_length
            u == SubSeq(b, 1, n)
<1>1. r.line # "BAD" /\ ~Chunked(r) /\ c.status = HeadStatus(r) /\ c.consume = (c.status = 0)
      /\ (Has(r, "Host") => c.max = MaxBody)
  BY DEF JudgedOf
<1>2. ~Broken(r)
  BY <1>1, SaidFits
<1>3. /\ n = Len(d) /\ c.body = <<>> /\ n <= c.max
      /\ d = <<>> => EmptyLines(b \o x, next)
      /\ d # <<>> => b \o x = d \o next
  BY DEF LengthBusy
<1>4. d \in Seq(Byte) /\ n \in Nat /\ n \in 0 .. Len(b) /\ Len(b) \in Nat /\ c.max \in Nat
  BY <1>3, JoinedOf DEF Client
<1>5. EraseFront(b, n) \in Seq(Byte) /\ EraseFront(b, n) \o x = EraseFront(b \o x, n)
  <2>1. EraseFront(b, n) \in Seq(Byte)
    BY <1>4, Erases
  <2>2. EraseFront(b, n) \o x = EraseFront(b \o x, n)
    BY <1>4, ErasesPart, Zenon
  <2>. QED  BY <2>1, <2>2
<1>. HIDE DEF d, n
<1>6. u = d
  <2>1. CASE d = <<>>
    <3>1. n = 0
      BY <1>3, <2>1
    <3>. QED  BY <2>1, <3>1
  <2>2. CASE d # <<>>
    <3>1. n > 0 /\ 1 \in 1 .. Len(b) /\ 1 + n <= Len(b) + 1 /\ 1 + n - 1 = n
      BY <1>3, <1>4, <2>2
    <3>2. u \in Seq(Byte) /\ Len(u) = n /\ \A j \in 1 .. n : u[j] = b[1 + j - 1]
      <4>1. SubSeq(b, 1, 1 + n - 1) \in Seq(Byte) /\ Len(SubSeq(b, 1, 1 + n - 1)) = n
            /\ \A j \in 1 .. n : SubSeq(b, 1, 1 + n - 1)[j] = b[1 + j - 1]
        BY <1>4, <3>1, Part
      <4>. QED  BY <3>1, <4>1
    <3>3. \A j \in 1 .. n : (b \o x)[j] = b[j]
      BY <1>4, Concats
    <3>4. \A j \in 1 .. n : (d \o next)[j] = d[j]
      BY <1>3, <1>4, Concats
    <3>. HIDE DEF u
    <3>5. ASSUME NEW j \in 1 .. Len(u)  PROVE u[j] = d[j]
      <4>1. j \in 1 .. n /\ 1 + j - 1 = j
        BY <3>2
      <4>. QED  BY <1>3, <2>2, <3>2, <3>3, <3>4, <4>1
    <3>6. Len(u) = Len(d)
      BY <1>3, <3>2
    <3>. QED  BY <1>4, <3>2, <3>5, <3>6, SeqEqual
  <2>. QED  BY <2>1, <2>2
<1>7. EmptyLines(EraseFront(b, n) \o x, next)
  <2>1. CASE d = <<>>
    <3>1. n = 0 /\ EraseFront(b, 0) = b
      BY <1>3, <2>1, Erases
    <3>. QED  BY <1>3, <2>1, <3>1
  <2>2. CASE d # <<>>
    <3>1. EraseFront(d \o next, Len(d)) = next
      BY <1>4, ErasesPart, Zenon
    <3>2. EraseFront(b \o x, n) = next
      BY <1>3, <2>2, <3>1
    <3>. QED  BY <1>5, <3>2, EmptyLinesNone
  <2>. QED  BY <2>1, <2>2
<1>8. m = [c EXCEPT !.continue_reading = FALSE, !.body = IF c.consume THEN d ELSE c.body]
  BY <1>6 DEF n
<1>9. m \in Client /\ m.keepAlive = TRUE /\ m.status = c.status /\ m.close = c.close /\ m.consume = c.consume
      /\ m.is_chunked = c.is_chunked /\ m.max = c.max /\ (c.consume => m.body = d)
  BY <1>4, <1>8 DEF Client
<1>10. JudgedOf(m, r)
  BY <1>9 DEF JudgedOf
<1>11. ASSUME m.status = 0  PROVE m.body = Data(r) /\ ~TooLong(r)
  <2>1. c.consume
    BY <1>1, <1>9, <1>11
  <2>2. Has(r, "Host") /\ c.max = MaxBody
    <3>1. HeadStatus(r) = 0
      BY <1>1, <1>9, <1>11
    <3>2. Has(r, "Host")
      BY <3>1, Statuses
    <3>. QED  BY <1>1, <3>2
  <2>3. ~(Len(d) > MaxBody)
    BY <1>3, <1>4, <2>2
  <2>. QED  BY <1>9, <2>1, <2>3 DEF TooLong, d
<1>12. Well(m, r)
  BY <1>2, <1>9, <1>10, <1>11, AnsweredWell
<1>. QED  BY <1>5, <1>7, <1>9, <1>12 DEF n

-------------------------------------------------------------------------------
(* The state                                                                   *)

Answer   == [status : Nat, body : Seq(Byte)]
Rest     == buf \o wire
Answered == Len(answers)
Asked    == stream[Answered + 1]
Pending(m) == Upcoming(stream, m, sent)

Reading == pc \in {"chunks", "trailer", "length"} \/ (pc = "wait" /\ clt.continue_reading)
Resting == pc = "head" \/ (pc = "wait" /\ ~clt.continue_reading)

Types ==
    /\ stream \in Streams /\ sent \in 0 .. Len(stream)
    /\ answers \in Seq(Answer) /\ Answered <= sent
    /\ wire \in Seq(Byte) /\ buf \in Seq(Byte) /\ clt \in Client
    /\ pc \in {"wait", "head", "chunks", "trailer", "length", "answer", "closed"}
    /\ pc \notin {"answer", "closed"} => clt.keepAlive

\* Between two requests the client is reset and the next request is next.
Idle ==
    Resting => /\ clt = FreshClient
               /\ EmptyLines(Rest, Pending(Answered))
               /\ pc = "head" => ~NewLineAt(buf, 1)

\* So it is when a request was answered.
Kept == pc = "answer" /\ clt.keepAlive => EmptyLines(Rest, Pending(Answered))

\* Within a request, the rest of it is next.
Busy ==
    Reading => /\ Answered < sent
               /\ BusyOf(pc, clt, Asked, Rest, Pending(Answered + 1))

Inv == Types /\ Idle /\ Kept /\ Busy

Step == [Exchange!ExchangeNext]_(Exchange!exchange)

LEMMA SameAnswers ==
    /\ \A r : Exchange!Acceptable(r) = Acceptable(r)
    /\ \A r, a, k : Exchange!MayKeep(r, a, k) <=> MayKeep(r, a, k)
<1>1. \A r, f : Exchange!Has(r, f) <=> Has(r, f)
  BY DEF Exchange!Has, Has, Exchange!ToSet, ToSet
<1>2. \A r : Exchange!Chunked(r) <=> Chunked(r)
  BY <1>1 DEF Exchange!Chunked, Chunked
<1>3. \A r : Exchange!Data(r) = Data(r)
  BY DEF Exchange!Data, Data, Exchange!FlattenSeq, FlattenSeq
<1>4. \A r : Exchange!HeadStatus(r) = HeadStatus(r)
  <2>1. \A r : Exchange!WithLength(r) <=> WithLength(r)
    BY <1>1 DEF Exchange!WithLength, WithLength, Exchange!Lengths, Lengths
  <2>. QED  BY <1>1, <1>2, <2>1 DEF Exchange!HeadStatus, HeadStatus
<1>5. \A r : Exchange!TooLong(r) <=> TooLong(r)
  BY <1>1, <1>3 DEF Exchange!TooLong, TooLong
<1>6. \A r : Exchange!Broken(r) <=> Broken(r)
  BY <1>1 DEF Exchange!Broken, Broken
<1>7. \A s : Exchange!Refusal(s) = Refusal(s)
  BY DEF Exchange!Refusal, Refusal
<1>8. \A r : Exchange!Due(r) = Due(r)
  BY <1>3, <1>4, <1>5, <1>6, <1>7 DEF Exchange!Due, Due
<1>9. \A r : Exchange!Acceptable(r) = Acceptable(r)
  BY <1>2, <1>7, <1>8 DEF Exchange!Acceptable, Acceptable
<1>10. \A r, a, k : Exchange!MayKeep(r, a, k) <=> MayKeep(r, a, k)
  BY <1>1, <1>2, <1>6 DEF Exchange!MayKeep, MayKeep
<1>. QED  BY <1>9, <1>10

\* What the invariant says in one place.
LEMMA Setting ==
    ASSUME WellFormed, Inv
    PROVE  /\ sent \in Nat /\ Answered \in Nat /\ Answered + 1 \in Nat
           /\ Rest \in Seq(Byte) /\ Pending(Answered) \in Seq(Byte) /\ Starts(Pending(Answered))
           /\ Answered < sent =>
                 /\ Asked \in Requests
                 /\ Pending(Answered + 1) \in Seq(Byte)
                 /\ Pending(Answered) = Bytes(Asked) \o Pending(Answered + 1)
<1>1. /\ stream \in Streams /\ sent \in 0 .. Len(stream) /\ answers \in Seq(Answer) /\ Answered <= sent
      /\ wire \in Seq(Byte) /\ buf \in Seq(Byte)
  BY DEF Inv, Types
<1>2. Answered \in Nat
  BY <1>1 DEF Answered
<1>3. sent \in Nat /\ Answered \in 0 .. sent
  <2>1. Len(stream) \in Nat
    BY <1>1, StreamOf
  <2>. QED  BY <1>1, <1>2, <2>1
<1>4. Rest \in Seq(Byte)
  BY <1>1, JoinsIn, Zenon DEF Rest
<1>5. /\ Upcoming(stream, Answered, sent) \in Seq(Byte) /\ Starts(Upcoming(stream, Answered, sent))
      /\ Answered < sent =>
            /\ stream[Answered + 1] \in Requests
            /\ Upcoming(stream, Answered, sent) = Bytes(stream[Answered + 1]) \o Upcoming(stream, Answered + 1, sent)
            /\ Upcoming(stream, Answered + 1, sent) \in Seq(Byte)
  BY <1>1, <1>3, UpcomingOf
<1>. QED  BY <1>2, <1>3, <1>4, <1>5 DEF Pending, Asked

\* The client of a request whose head was read is typed, and the request is sent.
LEMMA Starting ==
    ASSUME WellFormed, ReaderAssumption, Init
    PROVE  Inv /\ Exchange!ExchangeInit
<1>1. clt = FreshClient /\ clt \in Client /\ clt.keepAlive = TRUE /\ clt.continue_reading = FALSE
  <2>1. clt = FreshClient
    BY DEF Init
  <2>2. clt \in Client
    BY <2>1, FreshTyped
  <2>. QED  BY <2>1, <2>2 DEF FreshClient
<1>2. stream \in Streams /\ sent = 0 /\ wire = <<>> /\ buf = <<>> /\ pc = "wait" /\ answers = <<>>
  BY DEF Init
<1>3. Len(stream) \in Nat /\ Answered = 0
  BY <1>2, StreamOf DEF Answered
<1>4. Types
  BY <1>1, <1>2, <1>3 DEF Types
<1>5. EmptyLines(Rest, Pending(Answered))
  <2>1. 0 \in 0 .. Len(stream) /\ 0 \in 0 .. 0
    BY <1>3
  <2>2. Upcoming(stream, 0, 0) = <<>>
    BY <1>2, <2>1, UpcomingOf
  <2>3. Rest = <<>>
    BY <1>2 DEF Rest
  <2>4. EmptyLines(<<>>, <<>>)
    <3>1. <<>> \in Seq(Byte)
      OBVIOUS
    <3>. QED  BY <3>1, EmptyLinesNone
  <2>. QED  BY <1>2, <1>3, <2>2, <2>3, <2>4 DEF Pending
<1>6. Idle /\ Kept /\ Busy
  BY <1>1, <1>2, <1>5 DEF Idle, Kept, Busy, Resting, Reading
<1>7. Exchange!ExchangeInit
  BY <1>1, <1>2 DEF Exchange!ExchangeInit
<1>. QED  BY <1>4, <1>6, <1>7 DEF Inv

-------------------------------------------------------------------------------
(* The three ways a step goes on                                               *)

\* The connection stays between two requests.
LEMMA Remains ==
    ASSUME WellFormed, ReaderAssumption, Inv, UNCHANGED <<peer, answers>>,
           clt.keepAlive, clt' = FreshClient, buf' \in Seq(Byte), wire' \in Seq(Byte),
           pc' \in {"wait", "head"}, EmptyLines(buf' \o wire', Pending(Answered)),
           pc' = "head" => ~NewLineAt(buf', 1)
    PROVE  Inv' /\ Step
<1>1. clt' \in Client /\ clt'.keepAlive = TRUE /\ clt'.continue_reading = FALSE
  <2>1. clt' \in Client
    BY FreshTyped
  <2>. QED  BY <2>1 DEF FreshClient
<1>2. stream' = stream /\ sent' = sent /\ answers' = answers
  BY DEF peer
<1>3. Types'
  BY <1>1, <1>2 DEF Inv, Types, Answered
<1>4. Idle'
  BY <1>2 DEF Idle, Rest, Pending, Answered
<1>5. Kept' /\ Busy'
  BY <1>1 DEF Kept, Busy, Reading
<1>6. clt'.keepAlive = clt.keepAlive
  BY <1>1 DEF Inv, Types, Client
<1>7. Step
  BY <1>2, <1>6 DEF Step, Exchange!exchange
<1>. QED  BY <1>3, <1>4, <1>5, <1>7 DEF Inv

\* The request goes on.
LEMMA Proceeds ==
    ASSUME WellFormed, Inv, UNCHANGED <<peer, answers>>, Answered < sent,
           clt.keepAlive, clt' \in Client, clt'.keepAlive, buf' \in Seq(Byte), wire' \in Seq(Byte),
           pc' \in {"wait", "chunks", "trailer", "length"}, pc' = "wait" => clt'.continue_reading,
           BusyOf(pc', clt', Asked, buf' \o wire', Pending(Answered + 1))
    PROVE  Inv' /\ Step
<1>2. stream' = stream /\ sent' = sent /\ answers' = answers
  BY DEF peer
<1>3. Types'
  BY <1>2 DEF Inv, Types, Answered
<1>4. Idle' /\ Kept'
  BY DEF Idle, Resting, Kept
<1>5. Busy'
  BY <1>2 DEF Busy, Rest, Pending, Answered, Asked
<1>6. clt'.keepAlive = clt.keepAlive
  BY DEF Inv, Types, Client
<1>7. Step
  BY <1>2, <1>6 DEF Step, Exchange!exchange
<1>. QED  BY <1>3, <1>4, <1>5, <1>7 DEF Inv

\* The request is answered.
LEMMA Replies ==
    ASSUME WellFormed, Inv, Answered < sent, pc \notin {"answer", "closed"},
           NEW c \in Client, Process(c), Well(c, Asked), buf' \in Seq(Byte),
           KeptOf(c) => EmptyLines(buf' \o wire, Pending(Answered + 1))
    PROVE  Inv' /\ Step
<1>. DEFINE a == AnswerOf(c)
            k == KeptOf(c)
<1>1. /\ pc' = "answer" /\ clt' = [c EXCEPT !.keepAlive = k] /\ answers' = Append(answers, a)
      /\ stream' = stream /\ sent' = sent /\ wire' = wire
  BY DEF Process, KeptOf, AnswerOf, peer
<1>2. a \in Answer
  <2>1. c.status \in Nat /\ c.body \in Seq(Byte)
    BY DEF Client
  <2>2. CASE c.status = 0
    BY <2>1, <2>2 DEF AnswerOf, Answer
  <2>3. CASE c.status # 0
    <3>1. <<>> \in Seq(Byte)
      OBVIOUS
    <3>. QED  BY <2>1, <2>3, <3>1 DEF AnswerOf, Answer, Refusal
  <2>. QED  BY <2>2, <2>3
<1>3. k \in BOOLEAN
  BY DEF KeptOf
<1>. HIDE DEF a, k
<1>4. clt' \in Client /\ (clt'.keepAlive <=> k)
  BY <1>1, <1>3 DEF Client
<1>5. answers \in Seq(Answer) /\ Answered \in Nat /\ sent \in Nat
  BY Setting DEF Inv, Types
<1>6. answers' \in Seq(Answer) /\ Answered' = Answered + 1
  BY <1>1, <1>2, <1>5 DEF Answered
<1>7. Types'
  <2>1. Answered + 1 <= sent
    BY <1>5
  <2>. QED  BY <1>1, <1>4, <1>6, <2>1 DEF Inv, Types
<1>8. Idle' /\ Busy'
  BY <1>1 DEF Idle, Resting, Busy, Reading
<1>9. Kept'
  <2>1. k => EmptyLines(buf' \o wire, Pending(Answered + 1))
    BY DEF k
  <2>. QED  BY <1>1, <1>4, <1>6, <2>1 DEF Kept, Rest, Pending
<1>10. clt.keepAlive
  BY DEF Inv, Types
<1>11. a \in Acceptable(Asked) /\ MayKeep(Asked, a, k)
  BY DEF Well, a, k
<1>12. MayKeep(Asked, a, clt'.keepAlive)
  <2>1. clt'.keepAlive = k
    BY <1>3, <1>4 DEF Client
  <2>. QED  BY <1>11, <2>1
<1>13. Exchange!AnswerRequest
  <2>1. a \in Exchange!Acceptable(Asked) /\ Exchange!MayKeep(Asked, a, clt'.keepAlive)
    BY <1>11, <1>12, SameAnswers
  <2>2. clt'.keepAlive \in BOOLEAN
    BY <1>4 DEF Client
  <2>. QED  BY <1>1, <1>10, <2>1, <2>2 DEF Exchange!AnswerRequest, Asked, Answered
<1>14. Step
  BY <1>13 DEF Step, Exchange!ExchangeNext
<1>. QED  BY <1>7, <1>8, <1>9, <1>14 DEF Inv

\* With an error that ends the connection, what follows does not matter.
LEMMA RefusesWith ==
    ASSUME WellFormed, Inv, Answered < sent, pc \notin {"answer", "closed"},
           NEW c \in Client, NEW s \in Nat, Refuse(c, s), Well(RefusedOf(c, s), Asked), buf' \in Seq(Byte)
    PROVE  Inv' /\ Step
<1>. DEFINE m == RefusedOf(c, s)
<1>1. m \in Client
  BY DEF RefusedOf, Client
<1>2. ~KeptOf(m)
  <2>1. ~m.keepAlive
    BY DEF RefusedOf, Client
  <2>. QED  BY <2>1 DEF KeptOf
<1>3. Process(m) /\ Well(m, Asked)
  BY DEF Refuse, RefusedOf
<1>. HIDE DEF m
<1>. QED  BY <1>1, <1>2, <1>3, Replies

-------------------------------------------------------------------------------
(* The peer and recv()                                                         *)

LEMMA OnSend ==
    ASSUME WellFormed, Inv, Send
    PROVE  Inv' /\ Step
<1>. DEFINE y == Bytes(stream[sent + 1])
<1>1. /\ sent < Len(stream) /\ sent' = sent + 1 /\ wire' = wire \o y
      /\ stream' = stream /\ buf' = buf /\ pc' = pc /\ clt' = clt /\ answers' = answers
      /\ (Pipelined \/ Len(answers) = sent)
  BY DEF Send
<1>2. /\ sent \in Nat /\ Answered \in Nat /\ Rest \in Seq(Byte) /\ Pending(Answered) \in Seq(Byte)
      /\ Answered < sent => Asked \in Requests /\ Pending(Answered + 1) \in Seq(Byte)
  BY Setting
<1>3. stream \in Streams /\ wire \in Seq(Byte) /\ buf \in Seq(Byte) /\ Answered <= sent
  BY DEF Inv, Types
<1>4. Len(stream) \in Nat
  BY <1>3, StreamOf
<1>5. ASSUME NEW m \in 0 .. sent
      PROVE  y \in Seq(Byte) /\ Upcoming(stream, m, sent + 1) = Upcoming(stream, m, sent) \o y
  BY <1>1, <1>2, <1>3, UpcomingMore
<1>6. y \in Seq(Byte)
  <2>1. 0 \in 0 .. sent
    BY <1>2
  <2>. QED  BY <1>5, <2>1
<1>. HIDE DEF y
<1>7. wire \o y \in Seq(Byte)
  BY <1>3, <1>6, JoinsIn, Zenon
<1>8. Rest' = Rest \o y
  <2>1. (buf \o wire) \o y = buf \o (wire \o y)
    BY <1>3, <1>6, Regroup, Zenon
  <2>. QED  BY <1>1, <2>1 DEF Rest
<1>9. Answered' = Answered
  BY <1>1 DEF Answered
<1>10. Pending(Answered)' = Pending(Answered) \o y
  <2>1. Answered \in 0 .. sent
    BY <1>2, <1>3
  <2>. QED  BY <1>1, <1>5, <1>9, <2>1 DEF Pending
<1>11. Types'
  <2>1. sent + 1 \in 0 .. Len(stream) /\ Answered <= sent + 1
    BY <1>1, <1>2, <1>3, <1>4
  <2>. QED  BY <1>1, <1>7, <1>9, <2>1 DEF Inv, Types
<1>12. EmptyLines(Rest, Pending(Answered)) => EmptyLines(Rest \o y, Pending(Answered) \o y)
  BY <1>2, <1>6, EmptyLinesMore
<1>13. Idle'
  <2>1. SUFFICES ASSUME Resting'
                 PROVE  /\ clt' = FreshClient /\ EmptyLines(Rest', Pending(Answered)')
                        /\ pc' = "head" => ~NewLineAt(buf', 1)
    BY DEF Idle
  <2>2. clt = FreshClient /\ EmptyLines(Rest, Pending(Answered)) /\ (pc = "head" => ~NewLineAt(buf, 1))
    BY <1>1, <2>1 DEF Inv, Idle, Resting
  <2>. QED  BY <1>1, <1>8, <1>10, <1>12, <2>2
<1>14. Kept'
  <2>1. SUFFICES ASSUME pc = "answer" /\ clt.keepAlive
                 PROVE  EmptyLines(Rest', Pending(Answered)')
    BY <1>1 DEF Kept
  <2>2. EmptyLines(Rest, Pending(Answered))
    BY <2>1 DEF Inv, Kept
  <2>. QED  BY <1>8, <1>10, <1>12, <2>2
<1>15. Busy'
  <2>1. SUFFICES ASSUME Reading
                 PROVE  /\ Answered < sent + 1
                        /\ BusyOf(pc, clt, Asked, Rest \o y, Pending(Answered + 1)')
    BY <1>1, <1>8, <1>9 DEF Busy, Reading, Asked
  <2>2. Answered < sent /\ BusyOf(pc, clt, Asked, Rest, Pending(Answered + 1))
    BY <2>1 DEF Inv, Busy
  <2>3. Pending(Answered + 1)' = Pending(Answered + 1) \o y
    <3>1. Answered + 1 \in 0 .. sent
      BY <1>2, <2>2
    <3>. QED  BY <1>1, <1>5, <1>9, <3>1 DEF Pending
  <2>4. BusyOf(pc, clt, Asked, Rest \o y, Pending(Answered + 1) \o y)
    BY <1>2, <1>6, <2>2, BusyMore
  <2>5. Answered < sent + 1
    BY <1>2, <2>2
  <2>. QED  BY <2>3, <2>4, <2>5
<1>16. Step
  <2>1. Exchange!SendRequest
    BY <1>1 DEF Exchange!SendRequest, Exchange!MaySend
  <2>. QED  BY <2>1 DEF Step, Exchange!ExchangeNext
<1>. QED  BY <1>11, <1>13, <1>14, <1>15, <1>16 DEF Inv

LEMMA OnRecv ==
    ASSUME WellFormed, ReaderAssumption, Inv, Recv
    PROVE  Inv' /\ Step
<1>1. /\ sent \in Nat /\ Answered \in Nat /\ Rest \in Seq(Byte) /\ Pending(Answered) \in Seq(Byte)
      /\ Starts(Pending(Answered))
  BY Setting
<1>2. wire \in Seq(Byte) /\ buf \in Seq(Byte) /\ clt \in Client
  BY DEF Inv, Types
<1>3. pc = "wait" /\ clt' = clt /\ UNCHANGED <<peer, answers>>
  BY DEF Recv
<1>4. clt.keepAlive
  BY <1>3 DEF Inv, Types
<1>5. PICK n \in 1 .. Min({MaxRecv, Len(wire)}) :
          /\ buf' = IF clt.continue_reading THEN buf \o SubSeq(wire, 1, n)
                    ELSE Stripped(buf \o SubSeq(wire, 1, n))
          /\ wire' = EraseFront(wire, n)
  BY DEF Recv
<1>6. n \in 1 .. Len(wire)
  <2>. DEFINE K == {MaxRecv, Len(wire)}
  <2>1. Len(wire) \in Nat /\ MaxRecv \in Nat
    BY <1>2 DEF ReaderAssumption
  <2>2. K \subseteq Nat /\ K # {} /\ Len(wire) \in K
    BY <2>1
  <2>. HIDE DEF K
  <2>3. Min(K) \in K /\ \A x \in K : Min(K) <= x
    BY <2>2, MinOf
  <2>4. Min(K) \in Nat /\ Min(K) <= Len(wire)
    BY <2>2, <2>3
  <2>5. n \in 1 .. Min(K)
    BY DEF K
  <2>. QED  BY <2>1, <2>4, <2>5
<1>. DEFINE u == SubSeq(wire, 1, n)
            t == buf \o u
            v == EraseFront(wire, n)
<1>7. u \in Seq(Byte) /\ t \o v = Rest
  BY <1>2, <1>6, Moved DEF Rest
<1>8. v \in Seq(Byte)
  <2>1. n \in 0 .. Len(wire)
    BY <1>6
  <2>. QED  BY <1>2, <2>1, Erases
<1>9. t \in Seq(Byte)
  <2>. HIDE DEF u
  <2>. QED  BY <1>2, <1>7, JoinsIn, Zenon
<1>. HIDE DEF t, u
<1>10. buf' = (IF clt.continue_reading THEN t ELSE Stripped(t)) /\ wire' = v
  BY <1>5 DEF t, u
<1>. HIDE DEF v
<1>11. CASE ~clt.continue_reading
  <2>1. pc' = "head"
    BY <1>11 DEF Recv
  <2>2. clt = FreshClient /\ EmptyLines(Rest, Pending(Answered))
    BY <1>3, <1>11 DEF Inv, Idle, Resting
  <2>3. EmptyLines(t \o v, Pending(Answered))
    BY <1>7, <2>2
  <2>4. /\ Stripped(t) \in Seq(Byte)
        /\ EmptyLines(Stripped(t) \o v, Pending(Answered))
        /\ ~NewLineAt(Stripped(t), 1)
    BY <1>1, <1>8, <1>9, <2>3, StripsPart
  <2>. QED  BY <1>3, <1>4, <1>8, <1>10, <1>11, <2>1, <2>2, <2>4, Remains
<1>12. CASE clt.continue_reading
  <2>1. pc' = IF clt.is_chunked THEN (IF clt.is_chunk_end THEN "trailer" ELSE "chunks") ELSE "length"
    <3>1. clt.is_chunked \in BOOLEAN
      BY <1>2 DEF Client
    <3>. QED  BY <1>12, <3>1 DEF Recv
  <2>2. Answered < sent /\ BusyOf(pc, clt, Asked, Rest, Pending(Answered + 1))
    BY <1>3, <1>12 DEF Inv, Busy, Reading
  <2>3. BusyOf(pc', clt', Asked, buf' \o wire', Pending(Answered + 1))
    <3>1. buf' \o wire' = Rest
      BY <1>7, <1>10, <1>12
    <3>. QED  BY <1>3, <2>1, <2>2, <3>1, BusyWaits
  <2>4. pc' \in {"wait", "chunks", "trailer", "length"} /\ pc' # "wait"
    BY <2>1
  <2>5. buf' \in Seq(Byte) /\ wire' \in Seq(Byte) /\ clt' \in Client /\ clt'.keepAlive
    BY <1>2, <1>3, <1>4, <1>8, <1>9, <1>10, <1>12
  <2>. QED  BY <1>3, <1>4, <2>2, <2>3, <2>4, <2>5, Proceeds
<1>. QED  BY <1>11, <1>12

-------------------------------------------------------------------------------
(* The head                                                                    *)

LEMMA OnHeadAwaited ==
    ASSUME WellFormed, ReaderAssumption, Inv, HeadAwaited
    PROVE  Inv' /\ Step
<1>1. pc = "head" /\ pc' = "wait" /\ clt' = clt /\ UNCHANGED <<peer, answers>> /\ wire' = wire /\ buf' = buf
  BY DEF HeadAwaited, InHead, Await
<1>2. clt = FreshClient /\ EmptyLines(Rest, Pending(Answered))
  BY <1>1 DEF Inv, Idle, Resting
<1>3. wire \in Seq(Byte) /\ buf \in Seq(Byte) /\ clt.keepAlive
  BY <1>1 DEF Inv, Types
<1>4. EmptyLines(buf' \o wire', Pending(Answered))
  BY <1>1, <1>2 DEF Rest
<1>. QED  BY <1>1, <1>2, <1>3, <1>4, Remains

\* A head that is whole is the head of the next request.
LEMMA HeadNext ==
    ASSUME WellFormed, Inv, pc = "head", Find(CRLF \o CRLF, buf) # 0
    PROVE  /\ Answered < sent /\ clt = FreshClient
           /\ HeadStandsOf(buf, wire, Asked, BodyBytes(Asked) \o Pending(Answered + 1))
<1>1. clt = FreshClient /\ EmptyLines(Rest, Pending(Answered)) /\ ~NewLineAt(buf, 1)
  BY DEF Inv, Idle, Resting
<1>2. wire \in Seq(Byte) /\ buf \in Seq(Byte) /\ stream \in Streams /\ sent \in 0 .. Len(stream) /\ Answered <= sent
  BY DEF Inv, Types
<1>3. /\ sent \in Nat /\ Answered \in Nat /\ Rest \in Seq(Byte)
      /\ Answered < sent =>
            /\ Asked \in Requests /\ Pending(Answered + 1) \in Seq(Byte)
            /\ Pending(Answered) = Bytes(Asked) \o Pending(Answered + 1)
  BY Setting
<1>4. Answered < sent
  <2>1. SUFFICES ASSUME ~(Answered < sent)  PROVE FALSE
    OBVIOUS
  <2>2. Answered = sent /\ Answered \in 0 .. sent
    BY <1>2, <1>3, <2>1
  <2>3. Pending(Answered) = <<>>
    BY <1>2, <2>2, UpcomingOf DEF Pending
  <2>4. PICK q \in Nat \ {0} : NewLineAt(buf, q)
    BY <1>2, FindEmptyLine
  <2>5. Len(buf) \in Nat /\ Len(wire) \in Nat
    BY <1>2
  <2>6. 2 <= Len(buf)
    <3>1. q + 1 <= Len(buf)
      BY <2>4 DEF NewLineAt
    <3>. QED  BY <2>5, <3>1
  <2>7. Agrees(buf, Rest)
    BY <1>2, Received DEF Rest
  <2>8. ~NewLineAt(Rest, 1)
    <3>1. 1 \in Nat \ {0} /\ 1 + 1 <= Len(buf)
      BY <2>6
    <3>2. NewLineAt(buf, 1) <=> 1 + 1 <= Len(buf) /\ NewLineAt(Rest, 1)
      BY <2>7, <3>1, Zenon DEF Agrees
    <3>. QED  BY <1>1, <3>1, <3>2
  <2>9. Rest = <<>>
    <3>1. <<>> \in Seq(Byte) /\ EmptyLines(Rest, <<>>)
      BY <1>1, <2>3
    <3>. QED  BY <1>3, <2>8, <3>1, NoneLeft, Zenon
  <2>10. Len(buf) <= Len(Rest)
    BY <2>7 DEF Agrees
  <2>. QED  BY <2>6, <2>9, <2>10
<1>5. EmptyLines(buf \o wire, Bytes(Asked) \o Pending(Answered + 1))
  BY <1>1, <1>3, <1>4 DEF Rest
<1>6. HeadStandsOf(buf, wire, Asked, BodyBytes(Asked) \o Pending(Answered + 1))
  BY <1>1, <1>2, <1>3, <1>4, <1>5, HeadStands
<1>. QED  BY <1>1, <1>4, <1>6

LEMMA OnLineRejected ==
    ASSUME WellFormed, Inv, LineRejected
    PROVE  Inv' /\ Step
<1>1. pc = "head" /\ Find(CRLF \o CRLF, buf) # 0 /\ buf[1] \notin Lines \ {"BAD"} /\ Refuse(clt, 400) /\ buf' = buf
  BY DEF LineRejected, InHead
<1>2. /\ Answered < sent
      /\ HeadStandsOf(buf, wire, Asked, BodyBytes(Asked) \o Pending(Answered + 1))
  BY <1>1, HeadNext
<1>3. Asked \in Requests
  BY <1>2, Setting
<1>4. Asked.line = "BAD"
  <2>1. buf[1] = Asked.line
    BY <1>2 DEF HeadStandsOf
  <2>2. Asked.line \in Lines
    BY <1>3, HeadLines
  <2>. QED  BY <1>1, <2>1, <2>2
<1>5. Broken(Asked)
  BY <1>4 DEF Broken
<1>6. clt \in Client /\ buf \in Seq(Byte) /\ 400 \in Nat
  BY DEF Inv, Types
<1>7. Well(RefusedOf(clt, 400), Asked)
  BY <1>5, <1>6, RefusesWell
<1>8. pc \notin {"answer", "closed"} /\ buf' \in Seq(Byte)
  BY <1>1, <1>6
<1>. QED  BY <1>1, <1>2, <1>6, <1>7, <1>8, RefusesWith

\* The head is taken for what it is.
LEMMA OnHead ==
    ASSUME WellFormed, ReaderAssumption, Inv, LineTaken, NEW c, HeadDone(c), NEW found,
           found = TRUE \/ Asked.fields = <<>>,
           c = HeadOf(buf[1], found, Asked.fields), buf' \in Seq(Byte),
           NEW s, s = BodyBytes(Asked) \o Pending(Answered + 1), s \in Seq(Byte),
           buf' \o wire = s \/ (buf' \o wire = CRLF \o s /\ Asked.fields = <<>>)
    PROVE  Inv' /\ Step
<1>1. pc = "head" /\ Find(CRLF \o CRLF, buf) # 0 /\ buf[1] # "BAD"
  BY DEF LineTaken, InHead
<1>2. /\ Answered < sent /\ clt = FreshClient
      /\ HeadStandsOf(buf, wire, Asked, BodyBytes(Asked) \o Pending(Answered + 1))
  BY <1>1, HeadNext
<1>3. Asked \in Requests /\ Pending(Answered + 1) \in Seq(Byte)
  BY <1>2, Setting
<1>4. buf[1] = Asked.line
  BY <1>2 DEF HeadStandsOf
<1>5. c = FreshHead(Asked.line, found, Asked.fields)
  BY <1>2, <1>4 DEF HeadOf, FreshHead
<1>6. EnteredOf(c, Asked)
  BY <1>1, <1>3, <1>4, <1>5, HeadEntered
<1>7. c \in Client /\ c.keepAlive = TRUE
  BY <1>6 DEF EnteredOf
<1>8. /\ clt' = c /\ pc' = IF c.is_chunked THEN "chunks" ELSE "length"
      /\ wire' = wire /\ UNCHANGED <<peer, answers>>
  BY DEF HeadDone
<1>. DEFINE w == buf' \o wire
            next == Pending(Answered + 1)
            r == Asked
<1>9. w = BodyBytes(r) \o next \/ (w = CRLF \o (BodyBytes(r) \o next) /\ r.fields = <<>>)
  OBVIOUS
<1>10. r \in Requests /\ next \in Seq(Byte) /\ EnteredOf(c, r)
  BY <1>3, <1>6
<1>. HIDE DEF w, next, r
<1>11. BusyOf(IF c.is_chunked THEN "chunks" ELSE "length", c, r, w, next)
  BY <1>9, <1>10, Entered
<1>12. BusyOf(pc', clt', Asked, buf' \o wire', Pending(Answered + 1))
  BY <1>8, <1>11 DEF w, next, r
<1>13. wire \in Seq(Byte) /\ clt.keepAlive
  BY <1>1 DEF Inv, Types
<1>14. pc' \in {"wait", "chunks", "trailer", "length"} /\ pc' # "wait"
  BY <1>8
<1>15. wire' \in Seq(Byte) /\ clt' \in Client /\ clt'.keepAlive
  BY <1>7, <1>8, <1>13
<1>. QED  BY <1>2, <1>8, <1>12, <1>13, <1>14, <1>15, Proceeds

\* What is behind the request line.
LEMMA Behind ==
    ASSUME WellFormed, Inv, LineTaken, NEW s, s = BodyBytes(Asked) \o Pending(Answered + 1)
    PROVE  /\ s \in Seq(Byte) /\ Asked \in Requests
           /\ After \in Seq(Byte) /\ After \o wire = Block(Asked.fields, s)
           /\ FieldLines(After) = Len(Asked.fields)
           /\ [i \in 1 .. FieldLines(After) |-> After[3 * i - 2]] = Asked.fields
           /\ EraseFront(After, 3 * FieldLines(After) + 2) \in Seq(Byte)
           /\ EraseFront(After, 3 * FieldLines(After) + 2) \o wire = s
           /\ Find(CRLF \o CRLF, After) = 0 => Asked.fields = <<>>
<1>1. pc = "head" /\ Find(CRLF \o CRLF, buf) # 0
  BY DEF LineTaken, InHead
<1>2. /\ Answered < sent
      /\ HeadStandsOf(buf, wire, Asked, s)
  BY <1>1, HeadNext
<1>3. Asked \in Requests /\ Pending(Answered + 1) \in Seq(Byte)
  BY <1>2, Setting
<1>4. s \in Seq(Byte)
  <2>1. BodyBytes(Asked) \in Seq(Byte)
    BY <1>3, BytesOf
  <2>. QED  BY <1>3, <2>1, JoinsIn, Zenon
<1>5. wire \in Seq(Byte)
  BY DEF Inv, Types
<1>6. /\ After \in Seq(Byte) /\ After \o wire = Block(Asked.fields, s)
      /\ 3 * Len(Asked.fields) + 2 <= Len(After)
  BY <1>2 DEF HeadStandsOf, After
<1>. DEFINE a == After
            r == Asked
<1>. HIDE DEF a, r
<1>7. a \in Seq(Byte) /\ r \in Requests /\ a \o wire = Block(r.fields, s) /\ 3 * Len(r.fields) + 2 <= Len(a)
  BY <1>3, <1>6 DEF a, r
<1>8. HeadTakenOf(a, wire, r, s)
  BY <1>4, <1>5, <1>7, HeadTaken
<1>. QED  BY <1>3, <1>4, <1>6, <1>8 DEF HeadTakenOf, a, r

LEMMA OnHeadRead ==
    ASSUME WellFormed, ReaderAssumption, Inv, HeadRead
    PROVE  Inv' /\ Step
<1>. DEFINE k == FieldLines(After)
            fs == [i \in 1 .. k |-> After[3 * i - 2]]
            s == BodyBytes(Asked) \o Pending(Answered + 1)
            c == HeadOf(buf[1], TRUE, fs)
<1>1. LineTaken /\ buf' = EraseFront(After, 3 * k + 2) /\ HeadDone(c)
  BY DEF HeadRead
<1>2. s \in Seq(Byte) /\ fs = Asked.fields /\ EraseFront(After, 3 * k + 2) \in Seq(Byte)
      /\ EraseFront(After, 3 * k + 2) \o wire = s
  BY <1>1, Behind
<1>3. c = HeadOf(buf[1], TRUE, Asked.fields)
  BY <1>2
<1>. HIDE DEF c, fs, k
<1>4. buf' \in Seq(Byte) /\ buf' \o wire = s
  BY <1>1, <1>2
<1>. QED  BY <1>1, <1>2, <1>3, <1>4, OnHead

LEMMA OnHeadBare ==
    ASSUME WellFormed, ReaderAssumption, Inv, HeadBare
    PROVE  Inv' /\ Step
<1>. DEFINE s == BodyBytes(Asked) \o Pending(Answered + 1)
            c == HeadOf(buf[1], FALSE, <<>>)
<1>1. LineTaken /\ Find(CRLF \o CRLF, After) = 0 /\ buf' = After /\ HeadDone(c)
  BY DEF HeadBare
<1>2. s \in Seq(Byte) /\ Asked.fields = <<>> /\ After \in Seq(Byte) /\ After \o wire = Block(Asked.fields, s)
  BY <1>1, Behind
<1>3. c = HeadOf(buf[1], FALSE, Asked.fields)
  BY <1>2
<1>4. After \o wire = CRLF \o s
  <2>. HIDE DEF s
  <2>1. <<>> \in Seq(Line)
    OBVIOUS
  <2>2. LineBytes(<<>>) = <<>>
    BY <2>1, LineBytesOf
  <2>3. CRLF \o s \in Seq(Byte)
    BY <1>2, NewLine, JoinsIn, Zenon
  <2>4. <<>> \o (CRLF \o s) = CRLF \o s
    BY <2>3, Regroups
  <2>5. Block(<<>>, s) = CRLF \o s
    BY <2>2, <2>4 DEF Block
  <2>. QED  BY <1>2, <2>5
<1>. HIDE DEF c
<1>5. buf' \in Seq(Byte) /\ buf' \o wire = CRLF \o s
  BY <1>1, <1>2, <1>4
<1>. QED  BY <1>1, <1>2, <1>3, <1>5, OnHead

-------------------------------------------------------------------------------
(* A chunked body                                                              *)

\* What is known when a chunk is looked for.
LEMMA Chunky ==
    ASSUME WellFormed, Inv, pc = "chunks"
    PROVE  /\ Answered < sent /\ Asked \in Requests /\ Pending(Answered + 1) \in Seq(Byte)
           /\ clt \in Client /\ clt.keepAlive /\ clt.continue_reading /\ clt.is_chunked /\ ~clt.is_chunk_end
           /\ Chunked(Asked) /\ JudgedOf(clt, Asked) /\ buf \in Seq(Byte) /\ wire \in Seq(Byte)
           /\ \E i \in 0 .. Len(Asked.chunks) :
                 TakenOf(clt, Asked, i) /\ buf \o wire = ChunksLeft(Asked, i, Pending(Answered + 1))
<1>1. clt \in Client /\ clt.keepAlive /\ buf \in Seq(Byte) /\ wire \in Seq(Byte)
  BY DEF Inv, Types
<1>2. Answered < sent /\ BusyOf(pc, clt, Asked, Rest, Pending(Answered + 1))
  BY DEF Inv, Busy, Reading
<1>3. Asked \in Requests /\ Pending(Answered + 1) \in Seq(Byte)
  BY <1>2, Setting
<1>4. clt.is_chunked /\ ~clt.is_chunk_end
  <2>1. ~clt.is_chunked => FALSE
    BY <1>2 DEF BusyOf, LengthBusy
  <2>2. clt.is_chunked /\ clt.is_chunk_end => FALSE
    BY <1>2 DEF BusyOf, TrailerBusy
  <2>. QED  BY <2>1, <2>2
<1>5. ChunksBusy(pc, clt, Asked, Rest, Pending(Answered + 1)) /\ JudgedOf(clt, Asked)
  BY <1>2, <1>4 DEF BusyOf
<1>6. Chunked(Asked)
  BY <1>4, <1>5 DEF JudgedOf
<1>. QED  BY <1>1, <1>2, <1>3, <1>4, <1>5, <1>6 DEF ChunksBusy, Rest

LEMMA OnSizeAwaited ==
    ASSUME WellFormed, Inv, SizeAwaited
    PROVE  Inv' /\ Step
<1>1. pc = "chunks" /\ pc' = "wait" /\ clt' = clt /\ buf' = buf /\ wire' = wire /\ UNCHANGED <<peer, answers>>
  BY DEF SizeAwaited, InChunks, Await
<1>2. BusyOf(pc, clt, Asked, Rest, Pending(Answered + 1))
  BY <1>1 DEF Inv, Busy, Reading
<1>3. BusyOf(pc', clt', Asked, buf' \o wire', Pending(Answered + 1))
  BY <1>1, <1>2, BusyWaits DEF Rest
<1>4. Answered < sent /\ clt \in Client /\ clt.keepAlive /\ clt.continue_reading
      /\ buf \in Seq(Byte) /\ wire \in Seq(Byte)
  BY <1>1, Chunky
<1>. QED  BY <1>1, <1>3, <1>4, Proceeds

\* The chunk in front of the buffer, once its size line is there.
LEMMA Fronted ==
    ASSUME WellFormed, Inv, pc = "chunks", LineEnd # 0
    PROVE  \E i \in 0 .. Len(Asked.chunks) :
              /\ TakenOf(clt, Asked, i) /\ buf \o wire = ChunksLeft(Asked, i, Pending(Answered + 1))
              /\ i = Len(Asked.chunks) =>
                    /\ Size = 0 /\ Before = 3 /\ 3 <= Len(buf) /\ EraseFront(buf, 3) \in Seq(Byte)
                    /\ EraseFront(buf, 3) \o wire = Block(Asked.trailer, Pending(Answered + 1))
              /\ i < Len(Asked.chunks) =>
                    /\ Before = 3 /\ Size > 0 /\ Size \in Nat
                    /\ ChunkIn(buf, wire, Asked.chunks[i + 1], ChunksLeft(Asked, i + 1, Pending(Answered + 1)))
<1>. DEFINE r == Asked
            next == Pending(Answered + 1)
            n == Len(r.chunks)
<1>1. r \in Requests /\ next \in Seq(Byte) /\ Chunked(r) /\ buf \in Seq(Byte) /\ wire \in Seq(Byte)
  BY Chunky
<1>2. PICK i \in 0 .. n : TakenOf(clt, r, i) /\ buf \o wire = ChunksLeft(r, i, next)
  BY Chunky
<1>3. n \in Nat
  BY <1>1, ChunksOf
<1>4. Find(CRLF, buf) # 0
  BY DEF LineEnd
<1>. HIDE DEF r, next
<1>5. ASSUME i = n
      PROVE  /\ Size = 0 /\ Before = 3 /\ 3 <= Len(buf) /\ EraseFront(buf, 3) \in Seq(Byte)
             /\ EraseFront(buf, 3) \o wire = Block(r.trailer, next)
  <2>1. /\ Find(CRLF, buf) = 2 /\ 3 <= Len(buf)
        /\ ChunkSize(SubSeq(buf, 1, Find(CRLF, buf) - 1)) = 0
        /\ EraseFront(buf, 3) \in Seq(Byte)
        /\ EraseFront(buf, 3) \o wire = Block(r.trailer, next)
    BY <1>1, <1>2, <1>4, <1>5, LastStands
  <2>. QED  BY <2>1 DEF Size, Before, LineEnd
<1>6. ASSUME i < n
      PROVE  /\ Before = 3 /\ Size > 0 /\ Size \in Nat
             /\ ChunkIn(buf, wire, r.chunks[i + 1], ChunksLeft(r, i + 1, next))
  <2>1. i \in Nat /\ i < Len(r.chunks)
    BY <1>3, <1>6
  <2>2. ChunkIn(buf, wire, r.chunks[i + 1], ChunksLeft(r, i + 1, next))
    BY <1>1, <1>2, <1>4, <2>1, ChunkFound
  <2>3. Find(CRLF, buf) = 2 /\ Size > 0 /\ Size \in Nat
    BY <2>2 DEF ChunkIn, Size, LineEnd
  <2>4. Before = 3
    BY <2>3 DEF Before, LineEnd
  <2>. QED  BY <2>2, <2>3, <2>4
<1>. QED  BY <1>2, <1>5, <1>6 DEF r, next

LEMMA OnLastChunk ==
    ASSUME WellFormed, Inv, LastChunk
    PROVE  Inv' /\ Step
<1>. DEFINE r == Asked
            next == Pending(Answered + 1)
            n == Len(r.chunks)
<1>1. /\ pc = "chunks" /\ LineEnd # 0 /\ Size = 0 /\ buf' = EraseFront(buf, Before)
      /\ clt' = [clt EXCEPT !.is_chunk_end = TRUE]
      /\ pc' = IF buf' = <<>> THEN "wait" ELSE "trailer"
      /\ UNCHANGED <<peer, answers>> /\ wire' = wire
  BY DEF LastChunk, InChunks
<1>2. /\ Answered < sent /\ r \in Requests
      /\ clt \in Client /\ clt.keepAlive /\ clt.continue_reading /\ clt.is_chunked
      /\ JudgedOf(clt, r) /\ wire \in Seq(Byte)
  BY <1>1, Chunky
<1>3. /\ TakenOf(clt, r, n) /\ EraseFront(buf, 3) \in Seq(Byte) /\ Before = 3
      /\ EraseFront(buf, 3) \o wire = Block(r.trailer, next)
  <2>1. PICK i \in 0 .. n :
           /\ TakenOf(clt, r, i)
           /\ i = n => /\ Size = 0 /\ Before = 3 /\ EraseFront(buf, 3) \in Seq(Byte)
                       /\ EraseFront(buf, 3) \o wire = Block(r.trailer, next)
           /\ i < n => Size > 0
    BY <1>1, Fronted
  <2>2. n \in Nat
    BY <1>2, ChunksOf
  <2>3. i = n
    BY <1>1, <2>1, <2>2
  <2>. QED  BY <2>1, <2>3
<1>4. /\ clt' \in Client /\ clt'.keepAlive /\ clt'.continue_reading /\ clt'.is_chunked /\ clt'.is_chunk_end
      /\ clt'.status = clt.status /\ clt'.consume = clt.consume /\ clt'.close = clt.close
      /\ clt'.is_chunked = clt.is_chunked /\ clt'.max = clt.max /\ clt'.body = clt.body
      /\ clt'.exceed = clt.exceed
  BY <1>1, <1>2 DEF Client
<1>. HIDE DEF n, r, next
<1>5. JudgedOf(clt', r) /\ TakenOf(clt', r, n)
  BY <1>2, <1>3, <1>4 DEF JudgedOf, TakenOf
<1>6. buf' \in Seq(Byte) /\ buf' \o wire' = Block(r.trailer, next) /\ wire' \in Seq(Byte)
  BY <1>1, <1>2, <1>3
<1>7. pc' \in {"wait", "trailer"}
  BY <1>1
<1>8. BusyOf(pc', clt', r, buf' \o wire', next)
  BY <1>4, <1>5, <1>6, <1>7 DEF BusyOf, TrailerBusy, n
<1>9. BusyOf(pc', clt', Asked, buf' \o wire', Pending(Answered + 1)) /\ Answered < sent
  BY <1>2, <1>8 DEF r, next
<1>. QED  BY <1>1, <1>2, <1>4, <1>6, <1>7, <1>9, Proceeds

\* What Measured and what follows make of the client.
LEMMA Measures ==
    ASSUME WellFormed, ReaderAssumption, Inv, pc = "chunks", LineEnd # 0, Size > 0
    PROVE  /\ Measured \in Client /\ Measured.keepAlive = clt.keepAlive
           /\ Measured.continue_reading = clt.continue_reading
           /\ Measured.is_chunked = clt.is_chunked /\ Measured.is_chunk_end = clt.is_chunk_end
           /\ \E i \in Nat :
                 LET k == Asked.chunks[i + 1]
                     b == [Measured EXCEPT !.body = @ \o k.data]
                 IN  /\ i < Len(Asked.chunks) /\ Before = 3 /\ Size \in Nat
                     /\ buf \o wire = ChunksLeft(Asked, i, Pending(Answered + 1))
                     /\ JudgedOf(Measured, Asked) /\ TakenOf(Measured, Asked, i)
                     /\ ChunkIn(buf, wire, k, ChunksLeft(Asked, i + 1, Pending(Answered + 1)))
                     /\ Fits(k) =>
                           /\ Measured.exceed \/ ~clt.consume => TakenOf(Measured, Asked, i + 1)
                           /\ ~(Measured.exceed \/ ~clt.consume) =>
                                 b \in Client /\ JudgedOf(b, Asked) /\ TakenOf(b, Asked, i + 1)
<1>. DEFINE r == Asked
            next == Pending(Answered + 1)
            n == Len(r.chunks)
<1>1. /\ r \in Requests /\ clt \in Client /\ JudgedOf(clt, r)
  BY Chunky
<1>2. PICK i \in 0 .. n :
         /\ TakenOf(clt, r, i) /\ buf \o wire = ChunksLeft(r, i, next)
         /\ i = n => Size = 0
         /\ i < n => /\ Before = 3 /\ Size > 0 /\ Size \in Nat
                     /\ ChunkIn(buf, wire, r.chunks[i + 1], ChunksLeft(r, i + 1, next))
  BY Fronted
<1>3. n \in Nat /\ i \in Nat /\ i < n
  <2>1. n \in Nat
    BY <1>1, ChunksOf
  <2>. QED  BY <1>2, <2>1
<1>. DEFINE k == r.chunks[i + 1]
<1>4. Size = k.size
  BY <1>2, <1>3 DEF ChunkIn, Size, LineEnd
<1>5. Measured = MeasuredOf(clt, k.size)
  BY <1>4 DEF Measured, MeasuredOf
<1>6. /\ Measured.keepAlive = clt.keepAlive /\ Measured.continue_reading = clt.continue_reading
      /\ Measured.is_chunked = clt.is_chunked /\ Measured.is_chunk_end = clt.is_chunk_end
  BY <1>1 DEF Measured, Client
<1>. DEFINE m == Measured
            b == [m EXCEPT !.body = @ \o k.data]
<1>. HIDE DEF r, m, n
<1>7. m = MeasuredOf(clt, r.chunks[i + 1].size) /\ i < Len(r.chunks)
  BY <1>3, <1>5 DEF m, n
<1>8. /\ m \in Client /\ JudgedOf(m, r) /\ TakenOf(m, r, i)
      /\ Fits(r.chunks[i + 1]) =>
            /\ m.exceed \/ ~clt.consume => TakenOf(m, r, i + 1)
            /\ ~(m.exceed \/ ~clt.consume) =>
                  LET d == [m EXCEPT !.body = @ \o r.chunks[i + 1].data]
                  IN  d \in Client /\ JudgedOf(d, r) /\ TakenOf(d, r, i + 1)
  BY <1>1, <1>2, <1>3, <1>7, TakesMore
<1>. QED  BY <1>2, <1>3, <1>6, <1>8 DEF m, r, n

\* A client that has taken i chunks goes on.
LEMMA ChunksGoOn ==
    ASSUME NEW c, NEW r, c.is_chunked, ~c.is_chunk_end, c.continue_reading, JudgedOf(c, r),
           NEW i \in 0 .. Len(r.chunks), TakenOf(c, r, i),
           NEW next, NEW s, s = ChunksLeft(r, i, next), NEW p \in {"wait", "chunks"}
    PROVE  BusyOf(p, c, r, s, next)
<1>1. ChunksBusy(p, c, r, s, next)
  BY DEF ChunksBusy
<1>. QED  BY <1>1 DEF BusyOf

LEMMA OnChunkAwaited ==
    ASSUME WellFormed, ReaderAssumption, Inv, ChunkAwaited
    PROVE  Inv' /\ Step
<1>1. /\ pc = "chunks" /\ LineEnd # 0 /\ Size > 0 /\ pc' = "wait" /\ clt' = Measured /\ buf' = buf
      /\ wire' = wire /\ UNCHANGED <<peer, answers>>
  BY DEF ChunkAwaited, InChunks, Await
<1>2. /\ Answered < sent /\ Asked \in Requests /\ clt.keepAlive /\ clt.continue_reading
      /\ clt.is_chunked /\ ~clt.is_chunk_end /\ buf \in Seq(Byte) /\ wire \in Seq(Byte)
  BY <1>1, Chunky
<1>3. /\ Measured \in Client /\ Measured.keepAlive /\ Measured.continue_reading
      /\ Measured.is_chunked /\ ~Measured.is_chunk_end
  BY <1>1, <1>2, Measures
<1>4. PICK i \in Nat :
         /\ i < Len(Asked.chunks) /\ buf \o wire = ChunksLeft(Asked, i, Pending(Answered + 1))
         /\ JudgedOf(Measured, Asked) /\ TakenOf(Measured, Asked, i)
  BY <1>1, Measures
<1>5. i \in 0 .. Len(Asked.chunks)
  <2>1. Len(Asked.chunks) \in Nat
    BY <1>2, ChunksOf
  <2>. QED  BY <1>4, <2>1
<1>6. BusyOf("wait", Measured, Asked, buf \o wire, Pending(Answered + 1))
  BY <1>3, <1>4, <1>5, ChunksGoOn
<1>7. BusyOf(pc', clt', Asked, buf' \o wire', Pending(Answered + 1))
  BY <1>1, <1>6
<1>. QED  BY <1>1, <1>2, <1>3, <1>7, Proceeds

LEMMA OnChunkRejected ==
    ASSUME WellFormed, ReaderAssumption, Inv, ChunkRejected
    PROVE  Inv' /\ Step
<1>1. /\ pc = "chunks" /\ LineEnd # 0 /\ Size > 0 /\ Len(buf) >= Entire /\ buf' = buf
      /\ Refuse(Measured, 400)
  BY DEF ChunkRejected, InChunks
<1>2. /\ Answered < sent /\ Chunked(Asked) /\ buf \in Seq(Byte)
  BY <1>1, Chunky
<1>3. Measured \in Client /\ 400 \in Nat
  BY <1>1, Measures
<1>4. Well(RefusedOf(Measured, 400), Asked)
  BY <1>2, <1>3, RefusesWell
<1>5. pc \notin {"answer", "closed"} /\ buf' \in Seq(Byte)
  BY <1>1, <1>2
<1>. QED  BY <1>1, <1>2, <1>3, <1>4, <1>5, RefusesWith

LEMMA OnChunkRead ==
    ASSUME WellFormed, ReaderAssumption, Inv, ChunkRead
    PROVE  Inv' /\ Step
<1>. DEFINE r == Asked
            next == Pending(Answered + 1)
            m == Measured
<1>1. /\ pc = "chunks" /\ LineEnd # 0 /\ Size > 0
      /\ Len(buf) >= Entire /\ NewLineAt(buf, Before + Size + 1)
      /\ clt' = IF m.exceed \/ ~clt.consume THEN m
                ELSE [m EXCEPT !.body = @ \o SubSeq(buf, Before + 1, Before + Size)]
      /\ buf' = EraseFront(buf, Entire)
      /\ wire' = wire /\ pc' = pc /\ UNCHANGED <<peer, answers>>
  BY DEF ChunkRead, InChunks
<1>2. /\ Answered < sent /\ r \in Requests /\ clt.keepAlive /\ clt.continue_reading
      /\ clt.is_chunked /\ ~clt.is_chunk_end /\ wire \in Seq(Byte)
  BY <1>1, Chunky
<1>3. /\ m \in Client /\ m.keepAlive /\ m.continue_reading /\ m.is_chunked /\ ~m.is_chunk_end
  BY <1>1, <1>2, Measures
<1>4. PICK i \in Nat :
         LET k == r.chunks[i + 1]
             b == [m EXCEPT !.body = @ \o k.data]
         IN  /\ i < Len(r.chunks) /\ Before = 3 /\ Size \in Nat
             /\ ChunkIn(buf, wire, k, ChunksLeft(r, i + 1, next))
             /\ JudgedOf(m, r)
             /\ Fits(k) =>
                   /\ m.exceed \/ ~clt.consume => TakenOf(m, r, i + 1)
                   /\ ~(m.exceed \/ ~clt.consume) =>
                         b \in Client /\ JudgedOf(b, r) /\ TakenOf(b, r, i + 1)
  BY <1>1, Measures
<1>. DEFINE k == r.chunks[i + 1]
            b == [m EXCEPT !.body = @ \o k.data]
            left == ChunksLeft(r, i + 1, next)
<1>. HIDE DEF r, next, m
<1>5. Entire = 5 + Size /\ Before + Size + 1 = 4 + Size /\ Before + 1 = 4 /\ Before + Size = 3 + Size
  BY <1>4 DEF Entire
<1>. HIDE DEF k
<1>6. /\ ChunkIn(buf, wire, k, left) /\ Size \in Nat
      /\ Fits(k) =>
            /\ m.exceed \/ ~clt.consume => TakenOf(m, r, i + 1)
            /\ ~(m.exceed \/ ~clt.consume) =>
                  b \in Client /\ JudgedOf(b, r) /\ TakenOf(b, r, i + 1)
  BY <1>4 DEF k
<1>. HIDE DEF left, b
<1>7. 5 + Size <= Len(buf)
  <2>1. Len(buf) \in Nat
    BY <1>6 DEF ChunkIn
  <2>2. Len(buf) >= 5 + Size
    BY <1>1, <1>5
  <2>. QED  BY <1>6, <2>1, <2>2
<1>8. /\ NewLineAt(buf, 4 + Size) <=> Fits(k)
      /\ Fits(k) => /\ SubSeq(buf, 4, 3 + Size) = k.data
                    /\ EraseFront(buf, 5 + Size) \in Seq(Byte)
                    /\ EraseFront(buf, 5 + Size) \o wire = left
  BY <1>6, <1>7 DEF ChunkIn, Size, LineEnd
<1>9. Fits(k) /\ SubSeq(buf, Before + 1, Before + Size) = k.data
      /\ buf' \in Seq(Byte) /\ buf' \o wire = left
  BY <1>1, <1>5, <1>8
<1>10. clt' = IF m.exceed \/ ~clt.consume THEN m ELSE b
  BY <1>1, <1>9 DEF b
<1>11. /\ b.keepAlive = m.keepAlive /\ b.continue_reading = m.continue_reading
       /\ b.is_chunked = m.is_chunked /\ b.is_chunk_end = m.is_chunk_end
  BY <1>3 DEF b, Client
<1>12. /\ clt' \in Client /\ clt'.keepAlive /\ clt'.continue_reading /\ clt'.is_chunked /\ ~clt'.is_chunk_end
       /\ JudgedOf(clt', r) /\ TakenOf(clt', r, i + 1)
  <2>1. CASE m.exceed \/ ~clt.consume
    BY <1>3, <1>4, <1>6, <1>9, <1>10, <2>1
  <2>2. CASE ~(m.exceed \/ ~clt.consume)
    <3>1. clt' = b
      BY <1>10, <2>2
    <3>2. b \in Client /\ JudgedOf(b, r) /\ TakenOf(b, r, i + 1)
      BY <1>6, <1>9, <2>2
    <3>. QED  BY <1>3, <1>11, <3>1, <3>2
  <2>. QED  BY <2>1, <2>2
<1>13. i + 1 \in 0 .. Len(r.chunks)
  <2>1. Len(r.chunks) \in Nat
    BY <1>2, ChunksOf
  <2>. QED  BY <1>4, <2>1
<1>14. buf' \o wire' = left /\ wire' \in Seq(Byte)
  BY <1>1, <1>2, <1>9
<1>15. BusyOf("chunks", clt', r, buf' \o wire', next)
  BY <1>12, <1>13, <1>14, ChunksGoOn DEF left
<1>16. BusyOf(pc', clt', Asked, buf' \o wire', Pending(Answered + 1)) /\ Answered < sent
  BY <1>1, <1>2, <1>15 DEF r, next
<1>. QED  BY <1>1, <1>2, <1>9, <1>12, <1>14, <1>16, Proceeds

-------------------------------------------------------------------------------
(* The trailer                                                                 *)

LEMMA AtTrailer ==
    ASSUME WellFormed, Inv, pc = "trailer"
    PROVE  /\ Answered < sent /\ Asked \in Requests /\ Pending(Answered + 1) \in Seq(Byte)
           /\ clt \in Client /\ clt.keepAlive = TRUE /\ Chunked(Asked) /\ JudgedOf(clt, Asked)
           /\ TakenOf(clt, Asked, Len(Asked.chunks))
           /\ Trailed \in Seq(Byte)
           /\ NewLineAt(buf, 1) => /\ EraseFront(buf, 2) \in Seq(Byte)
                                   /\ EmptyLines(EraseFront(buf, 2) \o wire, Pending(Answered + 1))
           /\ Find(CRLF, Trailed) # 0 => EmptyLines(Trailed \o wire, Pending(Answered + 1))
<1>. DEFINE r == Asked
            next == Pending(Answered + 1)
<1>1. clt \in Client /\ clt.keepAlive = TRUE /\ buf \in Seq(Byte) /\ wire \in Seq(Byte)
  BY DEF Inv, Types, Client
<1>2. Answered < sent /\ BusyOf(pc, clt, r, Rest, next)
  BY DEF Inv, Busy, Reading
<1>3. r \in Requests /\ next \in Seq(Byte)
  BY <1>2, Setting
<1>. HIDE DEF r, next
<1>4. TrailerBusy(pc, clt, r, Rest, next) /\ JudgedOf(clt, r) /\ clt.is_chunked
  <2>1. ~clt.is_chunked => FALSE
    BY <1>2 DEF BusyOf, LengthBusy
  <2>2. clt.is_chunked /\ ~clt.is_chunk_end => FALSE
    BY <1>2 DEF BusyOf, ChunksBusy
  <2>. QED  BY <1>2, <2>1, <2>2 DEF BusyOf
<1>5. Chunked(r)
  BY <1>4 DEF JudgedOf
<1>6. TakenOf(clt, r, Len(r.chunks)) /\ buf \o wire = Block(r.trailer, next)
  BY <1>4 DEF TrailerBusy, Rest
<1>7. /\ Trailed \in Seq(Byte)
      /\ NewLineAt(buf, 1) => /\ EraseFront(buf, 2) \in Seq(Byte)
                              /\ EraseFront(buf, 2) \o wire = next
      /\ Find(CRLF, Trailed) # 0 => Trailed \o wire = CRLF \o next
  <2>1. TrailerFound(buf, wire, next)
    BY <1>1, <1>3, <1>6, TrailerStands
  <2>. QED  BY <2>1 DEF TrailerFound, Trailed
<1>8. EmptyLines(next, next) /\ EmptyLines(CRLF \o next, next)
  BY <1>3, EmptyLinesNone, EmptyLinesOne
<1>. QED  BY <1>1, <1>2, <1>3, <1>4, <1>5, <1>6, <1>7, <1>8 DEF r, next

LEMMA OnFinish ==
    ASSUME WellFormed, Inv, pc = "trailer", FinishChunked, buf' \in Seq(Byte),
           EmptyLines(buf' \o wire, Pending(Answered + 1))
    PROVE  Inv' /\ Step
<1>1. /\ Answered < sent /\ Asked \in Requests /\ clt \in Client /\ clt.keepAlive = TRUE
      /\ JudgedOf(clt, Asked) /\ TakenOf(clt, Asked, Len(Asked.chunks))
  BY AtTrailer
<1>. DEFINE r == Asked
<1>. HIDE DEF r
<1>2. /\ clt.exceed => Well(RefusedOf(clt, 413), r)
      /\ ~clt.exceed => Well(clt, r)
  BY <1>1, FinishedWell DEF r
<1>3. pc \notin {"answer", "closed"} /\ 413 \in Nat
  OBVIOUS
<1>4. CASE clt.exceed
  <2>1. Refuse(clt, 413) /\ Well(RefusedOf(clt, 413), Asked)
    BY <1>2, <1>4 DEF FinishChunked, r
  <2>. QED  BY <1>1, <1>3, <2>1, RefusesWith
<1>5. CASE ~clt.exceed
  <2>1. Process(clt) /\ Well(clt, Asked)
    BY <1>2, <1>5 DEF FinishChunked, r
  <2>. QED  BY <1>1, <1>3, <2>1, Replies
<1>. QED  BY <1>4, <1>5

LEMMA OnTrailerEnds ==
    ASSUME WellFormed, Inv, TrailerEnds
    PROVE  Inv' /\ Step
<1>1. pc = "trailer" /\ NewLineAt(buf, 1) /\ buf' = EraseFront(buf, 2) /\ FinishChunked
  BY DEF TrailerEnds, InTrailer
<1>2. buf' \in Seq(Byte) /\ EmptyLines(buf' \o wire, Pending(Answered + 1))
  BY <1>1, AtTrailer
<1>. QED  BY <1>1, <1>2, OnFinish

LEMMA OnTrailerCut ==
    ASSUME WellFormed, Inv, TrailerCut
    PROVE  Inv' /\ Step
<1>1. pc = "trailer" /\ Find(CRLF, Trailed) # 0 /\ buf' = Trailed /\ FinishChunked
  BY DEF TrailerCut, InTrailer
<1>2. buf' \in Seq(Byte) /\ EmptyLines(buf' \o wire, Pending(Answered + 1))
  BY <1>1, AtTrailer
<1>. QED  BY <1>1, <1>2, OnFinish

LEMMA OnTrailerRefused ==
    ASSUME WellFormed, Inv, TrailerRefused
    PROVE  Inv' /\ Step
<1>1. pc = "trailer" /\ buf' = Trailed /\ Refuse(clt, 400)
  BY DEF TrailerRefused, InTrailer
<1>2. Answered < sent /\ clt \in Client /\ Chunked(Asked) /\ Trailed \in Seq(Byte) /\ 400 \in Nat
  BY <1>1, AtTrailer
<1>3. Well(RefusedOf(clt, 400), Asked)
  BY <1>2, RefusesWell
<1>4. pc \notin {"answer", "closed"} /\ buf' \in Seq(Byte)
  BY <1>1, <1>2
<1>. QED  BY <1>1, <1>2, <1>3, <1>4, RefusesWith

-------------------------------------------------------------------------------
(* A body of a known length                                                    *)

LEMMA AtLength ==
    ASSUME WellFormed, Inv, pc = "length"
    PROVE  /\ Answered < sent /\ Asked \in Requests /\ Pending(Answered + 1) \in Seq(Byte)
           /\ clt \in Client /\ clt.keepAlive = TRUE /\ ~clt.is_chunked /\ JudgedOf(clt, Asked)
           /\ buf \in Seq(Byte) /\ wire \in Seq(Byte)
           /\ LengthBusy(pc, clt, Asked, buf \o wire, Pending(Answered + 1))
<1>1. clt \in Client /\ clt.keepAlive = TRUE /\ buf \in Seq(Byte) /\ wire \in Seq(Byte)
  BY DEF Inv, Types, Client
<1>2. Answered < sent /\ BusyOf(pc, clt, Asked, Rest, Pending(Answered + 1))
  BY DEF Inv, Busy, Reading
<1>3. Asked \in Requests /\ Pending(Answered + 1) \in Seq(Byte)
  BY <1>2, Setting
<1>4. ~clt.is_chunked
  <2>1. clt.is_chunked /\ clt.is_chunk_end => FALSE
    BY <1>2 DEF BusyOf, TrailerBusy
  <2>2. clt.is_chunked /\ ~clt.is_chunk_end => FALSE
    BY <1>2 DEF BusyOf, ChunksBusy
  <2>. QED  BY <2>1, <2>2
<1>. QED  BY <1>1, <1>2, <1>3, <1>4 DEF BusyOf, Rest

LEMMA OnLengthExceeded ==
    ASSUME WellFormed, ReaderAssumption, Inv, LengthExceeded
    PROVE  Inv' /\ Step
<1>. DEFINE e == [clt EXCEPT !.exceed = TRUE]
            m == RefusedOf(e, 413)
            r == Asked
<1>1. pc = "length" /\ ~(clt.content_length <= clt.max) /\ Refuse(e, 413) /\ buf' = buf
  BY DEF LengthExceeded, InLength, Allowed
<1>2. /\ Answered < sent /\ r \in Requests /\ clt \in Client /\ ~clt.is_chunked /\ JudgedOf(clt, r)
      /\ buf \in Seq(Byte) /\ clt.content_length = Len(Data(r))
  BY <1>1, AtLength DEF LengthBusy
<1>. HIDE DEF r
<1>3. Well(m, r)
  BY <1>1, <1>2, ExceededWell
<1>4. e \in Client
  <2>1. clt \in Client
    BY <1>2
  <2>. QED  BY <2>1 DEF Client
<1>. HIDE DEF e
<1>5. pc \notin {"answer", "closed"} /\ buf' \in Seq(Byte) /\ Well(RefusedOf(e, 413), Asked)
  BY <1>1, <1>2, <1>3 DEF r
<1>6. 413 \in Nat
  OBVIOUS
<1>. QED  BY <1>1, <1>2, <1>4, <1>5, <1>6, RefusesWith

LEMMA OnBodyAwaited ==
    ASSUME WellFormed, ReaderAssumption, Inv, BodyAwaited
    PROVE  Inv' /\ Step
<1>. DEFINE e == [clt EXCEPT !.continue_reading = TRUE]
            r == Asked
            next == Pending(Answered + 1)
<1>1. /\ pc = "length" /\ (clt.continue_reading \/ clt.content_length <= clt.max)
      /\ clt.content_length > Len(buf)
      /\ clt' = e /\ pc' = "wait" /\ buf' = buf /\ wire' = wire /\ UNCHANGED <<peer, answers>>
  BY DEF BodyAwaited, InLength, Allowed, Await
<1>2. /\ Answered < sent /\ r \in Requests /\ clt \in Client /\ clt.keepAlive = TRUE
      /\ ~clt.is_chunked /\ JudgedOf(clt, r) /\ buf \in Seq(Byte) /\ wire \in Seq(Byte)
      /\ LengthBusy(pc, clt, r, buf \o wire, next)
  BY <1>1, AtLength
<1>. HIDE DEF r, next
<1>3. /\ e \in Client /\ e.keepAlive = TRUE /\ e.continue_reading /\ ~e.is_chunked
      /\ e.status = clt.status /\ e.consume = clt.consume /\ e.close = clt.close
      /\ e.is_chunked = clt.is_chunked /\ e.max = clt.max /\ e.body = clt.body
      /\ e.exceed = clt.exceed /\ e.content_length = clt.content_length
  BY <1>2 DEF Client
<1>. HIDE DEF e
<1>4. JudgedOf(e, r)
  BY <1>2, <1>3 DEF JudgedOf
<1>5. LengthBusy("wait", e, r, buf \o wire, next)
  <2>1. clt.content_length <= clt.max
    BY <1>1, <1>2 DEF LengthBusy
  <2>. QED  BY <1>2, <1>3, <2>1 DEF LengthBusy
<1>6. BusyOf("wait", e, r, buf \o wire, next)
  BY <1>3, <1>4, <1>5 DEF BusyOf
<1>7. BusyOf(pc', clt', Asked, buf' \o wire', Pending(Answered + 1)) /\ Answered < sent
  BY <1>1, <1>2, <1>6 DEF r, next
<1>. QED  BY <1>1, <1>2, <1>3, <1>7, Proceeds

LEMMA OnBodyRead ==
    ASSUME WellFormed, ReaderAssumption, Inv, BodyRead
    PROVE  Inv' /\ Step
<1>. DEFINE n == clt.content_length
            m == [clt EXCEPT !.continue_reading = FALSE,
                             !.body = IF clt.consume THEN SubSeq(buf, 1, n) ELSE @]
            r == Asked
            next == Pending(Answered + 1)
<1>1. /\ pc = "length" /\ (clt.continue_reading \/ clt.content_length <= clt.max)
      /\ clt.content_length <= Len(buf) /\ buf' = EraseFront(buf, n) /\ Process(m)
  BY DEF BodyRead, InLength, Allowed
<1>2. /\ Answered < sent /\ r \in Requests /\ next \in Seq(Byte) /\ clt \in Client /\ clt.keepAlive = TRUE
      /\ ~clt.is_chunked /\ JudgedOf(clt, r) /\ buf \in Seq(Byte) /\ wire \in Seq(Byte)
      /\ LengthBusy(pc, clt, r, buf \o wire, next)
  BY <1>1, AtLength
<1>. HIDE DEF r, next
<1>3. /\ m \in Client /\ Well(m, r)
      /\ EraseFront(buf, n) \in Seq(Byte)
      /\ EmptyLines(EraseFront(buf, n) \o wire, next)
  BY <1>1, <1>2, BodyTaken
<1>. HIDE DEF m, n
<1>4. /\ pc \notin {"answer", "closed"} /\ buf' \in Seq(Byte) /\ Answered < sent /\ Well(m, Asked)
      /\ EmptyLines(buf' \o wire, Pending(Answered + 1))
  BY <1>1, <1>2, <1>3 DEF r, next
<1>. QED  BY <1>1, <1>3, <1>4, Replies

-------------------------------------------------------------------------------
(* The response is sent                                                        *)

LEMMA OnAnswerSent ==
    ASSUME WellFormed, ReaderAssumption, Inv, AnswerSent
    PROVE  Inv' /\ Step
<1>1. pc = "answer" /\ UNCHANGED <<peer, answers>> /\ wire' = wire /\ buf' = buf
      /\ wire \in Seq(Byte) /\ buf \in Seq(Byte)
  BY DEF AnswerSent, Inv, Types
<1>2. CASE clt.keepAlive
  <2>1. pc' = "wait" /\ clt' = FreshClient
    BY <1>2 DEF AnswerSent
  <2>2. EmptyLines(buf' \o wire', Pending(Answered))
    BY <1>1, <1>2 DEF Inv, Kept, Rest
  <2>. QED  BY <1>1, <1>2, <2>1, <2>2, Remains
<1>3. CASE ~clt.keepAlive
  <2>1. pc' = "closed" /\ clt' = clt /\ stream' = stream /\ sent' = sent /\ answers' = answers
    BY <1>1, <1>3 DEF AnswerSent, peer
  <2>2. Types'
    BY <1>1, <2>1 DEF Inv, Types, Answered
  <2>3. Idle' /\ Kept' /\ Busy'
    BY <2>1 DEF Idle, Resting, Kept, Busy, Reading
  <2>4. Step
    BY <2>1 DEF Step, Exchange!exchange
  <2>. QED  BY <2>2, <2>3, <2>4 DEF Inv
<1>. QED  BY <1>2, <1>3

-------------------------------------------------------------------------------
(* Theorems                                                                    *)

LEMMA OnNext ==
    ASSUME WellFormed, ReaderAssumption, Inv, [Next]_vars
    PROVE  Inv' /\ Step
<1>1. CASE UNCHANGED vars
  <2>1. Inv'
    BY <1>1 DEF vars, Inv, Types, Idle, Kept, Busy, Resting, Reading, Rest, Pending, Answered, Asked
  <2>2. Step
    BY <1>1 DEF vars, Step, Exchange!exchange
  <2>. QED  BY <2>1, <2>2
<1>2. CASE Send
  BY <1>2, OnSend
<1>3. CASE Recv
  BY <1>3, OnRecv
<1>4. CASE HeadAwaited
  BY <1>4, OnHeadAwaited
<1>5. CASE LineRejected
  BY <1>5, OnLineRejected
<1>6. CASE HeadRead
  BY <1>6, OnHeadRead
<1>7. CASE HeadBare
  BY <1>7, OnHeadBare
<1>8. CASE SizeAwaited
  BY <1>8, OnSizeAwaited
<1>9. CASE LastChunk
  BY <1>9, OnLastChunk
<1>10. CASE ChunkAwaited
  BY <1>10, OnChunkAwaited
<1>11. CASE ChunkRejected
  BY <1>11, OnChunkRejected
<1>12. CASE ChunkRead
  BY <1>12, OnChunkRead
<1>13. CASE TrailerEnds
  BY <1>13, OnTrailerEnds
<1>14. CASE TrailerRefused
  BY <1>14, OnTrailerRefused
<1>15. CASE TrailerCut
  BY <1>15, OnTrailerCut
<1>16. CASE LengthExceeded
  BY <1>16, OnLengthExceeded
<1>17. CASE BodyAwaited
  BY <1>17, OnBodyAwaited
<1>18. CASE BodyRead
  BY <1>18, OnBodyRead
<1>19. CASE AnswerSent
  BY <1>19, OnAnswerSent
<1>. QED
  BY <1>1, <1>2, <1>3, <1>4, <1>5, <1>6, <1>7, <1>8, <1>9, <1>10, <1>11, <1>12, <1>13, <1>14,
     <1>15, <1>16, <1>17, <1>18, <1>19 DEF Next, Handler

\* The invariant says that the stream is in step.
LEMMA InStep ==
    ASSUME WellFormed, Inv
    PROVE  InSync
<1>. DEFINE f == BytesSeq(stream)
            next == FlattenSeq([i \in 1 .. (sent - Len(answers)) |-> Bytes(stream[Len(answers) + i])])
<1>1. SUFFICES ASSUME pc = "answer", clt.keepAlive
               PROVE  Stripped(buf \o wire) = next
  BY DEF InSync
<1>2. EmptyLines(Rest, Pending(Answered))
  BY <1>1 DEF Inv, Kept
<1>3. Rest \in Seq(Byte) /\ Starts(Pending(Answered)) /\ Answered \in Nat /\ sent \in Nat
  BY Setting
<1>4. Stripped(Rest) = Pending(Answered)
  BY <1>2, <1>3, StripsTo
<1>5. stream \in Streams /\ sent \in 0 .. Len(stream) /\ Answered <= sent
  BY DEF Inv, Types
<1>6. Len(stream) \in Nat /\ \A k \in 1 .. Len(stream) : f[k] = Bytes(stream[k])
  BY <1>5, StreamOf
<1>. HIDE DEF f
<1>7. ASSUME NEW j \in 1 .. (sent - Answered)
      PROVE  f[Answered + j] = Bytes(stream[Answered + j])
  <2>1. Answered + j \in 1 .. Len(stream)
    BY <1>3, <1>5, <1>6
  <2>. QED  BY <1>6, <2>1
<1>8. [j \in 1 .. (sent - Answered) |-> f[Answered + j]]
         = [j \in 1 .. (sent - Answered) |-> Bytes(stream[Answered + j])]
  BY <1>7
<1>9. Pending(Answered) = next
  BY <1>8 DEF Pending, Upcoming, Joined, Answered, f
<1>. QED  BY <1>4, <1>9 DEF Rest

\* Of streams of well-formed requests, whatever pieces they come in: the client, the
\* buffer and the bytes to come always say which request is read and how far
\* (main.cpp:243-521).
THEOREM ReaderInvariant ==
    ASSUME WellFormed
    PROVE  Spec => []Inv
<1>1. Init => Inv
  BY Starting, ReaderAssumption
<1>2. Inv /\ [Next]_vars => Inv'
  BY OnNext, ReaderAssumption
<1>. QED  BY <1>1, <1>2, PTL DEF Spec

\* A connection that is kept is in step: behind the empty lines, exactly the requests that
\* were sent and not answered are left (main.cpp:398-518).
THEOREM KeepsInSync ==
    ASSUME WellFormed
    PROVE  Spec => []InSync
<1>1. Inv => InSync
  BY InStep
<1>. QED  BY <1>1, ReaderInvariant, PTL

\* The reader implements the exchange: each request is answered once, in order, with an
\* answer it may get (main.cpp:243-521).
THEOREM Exchanges ==
    ASSUME WellFormed
    PROVE  Spec => ImplementsExchange
<1>1. Init => Exchange!ExchangeInit
  BY Starting, ReaderAssumption
<1>2. Inv /\ [Next]_vars => [Exchange!ExchangeNext]_(Exchange!exchange)
  BY OnNext, ReaderAssumption DEF Step
<1>. QED  BY <1>1, <1>2, ReaderInvariant, PTL DEF Spec, ImplementsExchange, Exchange!ExchangeSpec
===============================================================================

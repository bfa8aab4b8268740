-------------------------- MODULE ConfigurationProofs --------------------------
(***************************************************************************)
(* Theorems of ConfigText, ServerSockets and LocationCache.                *)
(*                                                                         *)
(* The text: what the queries find in a file that has been read is what is *)
(* in force there by the text.  The queries look outward from a block,     *)
(* through the levels around it; the text is read inward.  Each block adds *)
(* one level to those around it, in both.  What is opened inside a block   *)
(* is closed before the block, and so the locations of a block are its     *)
(* directives in the order of the file: of locations nested once at most   *)
(* the search gets the first of the longest match.                         *)
(*                                                                         *)
(* The sockets and the cache, for any file and whatever the system         *)
(* refuses: nothing is lost on the way to listening sockets, these lead to *)
(* every server block of the file, and behind the descriptors and the      *)
(* cache every client has what the file gives to its request.              *)
(***************************************************************************)
EXTENDS ConfigText, LocationCache, DirectivesProofs

-------------------------------------------------------------------------------
(* Values none twice, in parts                                                 *)

\* y begins with x.
Begins(x, y) == Len(x) <= Len(y) /\ \A i \in 1 .. Len(x) : y[i] = x[i]

\* What is added to nothing.
LEMMA AddsToNone ==
    ASSUME NEW V, NEW seq \in Seq(V), NEW added, Adds(added, <<>>, seq), NEW k \in 0 .. Len(seq)
    PROVE  added[k] \in Seq(V) /\ ToSet(added[k]) = Firsts(seq, k)
<1>1. ASSUME NEW none \in Seq(V), Adds(added, none, seq)
      PROVE  added[k] \in Seq(V) /\ ToSet(added[k]) = ToSet(none) \cup Firsts(seq, k)
  BY <1>1, AddsValues
<1>2. <<>> \in Seq(V) /\ ToSet(<<>>) = {}
  BY DEF ToSet
<1>. QED  BY <1>1, <1>2

\* What is added stays where it is.
LEMMA AddsBegin ==
    ASSUME NEW V, NEW seq \in Seq(V), NEW added, Adds(added, <<>>, seq), NEW k \in 0 .. Len(seq)
    PROVE  Begins(added[k], added[Len(seq)])
<1>. DEFINE n == Len(seq)
            T == {i \in Nat : i <= n => Begins(added[n - i], added[n])}
<1>1. n \in Nat /\ \A i \in 0 .. n : added[i] \in Seq(V)
  <2>1. ASSUME NEW i \in 0 .. n  PROVE added[i] \in Seq(V)
    BY AddsToNone
  <2>. QED  BY <2>1
<1>2. 0 \in T
  BY <1>1 DEF Begins
<1>3. ASSUME NEW i \in Nat, i \in T  PROVE i + 1 \in T
  <2>. SUFFICES ASSUME i + 1 <= n  PROVE Begins(added[n - (i + 1)], added[n])
    OBVIOUS
  <2>. DEFINE j == n - (i + 1)
  <2>1. j \in 0 .. n /\ j < n /\ j + 1 = n - i /\ j + 1 \in 1 .. n /\ j + 1 \in 0 .. n
    BY <1>1
  <2>2. added[j + 1] = Once(added[j], seq[j + 1])
    BY <2>1 DEF Adds
  <2>. DEFINE x == added[j]
              v == seq[j + 1]
              y == Append(x, v)
              z == added[n]
  <2>3. x \in Seq(V) /\ v \in V /\ z \in Seq(V)
    BY <1>1, <2>1
  <2>4. added[j + 1] = x \/ added[j + 1] = y
    BY <2>2 DEF Once
  <2>5. Begins(added[j + 1], z)
    BY <1>3, <2>1
  <2>. HIDE DEF x, v, z, j
  <2>6. Begins(y, z) => Begins(x, z)
    <3>1. /\ Len(x) \in Nat /\ Len(z) \in Nat /\ Len(y) = Len(x) + 1
          /\ \A k1 \in 1 .. Len(x) : k1 \in 1 .. Len(y) /\ y[k1] = x[k1]
      BY <2>3
    <3>. HIDE DEF y
    <3>. QED  BY <3>1 DEF Begins
  <2>. QED  BY <2>4, <2>5, <2>6 DEF j, x, z
<1>4. \A i \in Nat : i \in T
  <2>. HIDE DEF T
  <2>. QED  BY <1>2, <1>3, Inductive
<1>5. n - k \in Nat /\ n - k <= n /\ n - (n - k) = k
  BY <1>1
<1>6. n - k \in T
  <2>. HIDE DEF T
  <2>. QED  BY <1>4, <1>5
<1>. QED  BY <1>5, <1>6

OnceOf(seq) == FoldLeft(Once, <<>>, seq)

\* Taking out of the second part what is there twice already changes nothing.
LEMMA OnceOfParts ==
    ASSUME NEW V, NEW u \in Seq(V), NEW w \in Seq(V)
    PROVE  /\ OnceOf(w) \in Seq(V)
           /\ OnceOf(u \o OnceOf(w)) = OnceOf(u \o w)
<1>. DEFINE o == OnceOf(w)
            l == Len(u)
            n == Len(w)
<1>1. PICK c : Adds(c, <<>>, w) /\ o = c[n]
  BY OnceSteps DEF OnceOf
<1>2. /\ n \in Nat /\ l \in Nat /\ o \in Seq(V)
      /\ \A j \in 0 .. n : c[j] \in Seq(V) /\ ToSet(c[j]) = Firsts(w, j)
                           /\ Begins(c[j], o)
  <2>1. n \in Nat /\ l \in Nat /\ n \in 0 .. n
    OBVIOUS
  <2>2. ASSUME NEW j \in 0 .. n
        PROVE  c[j] \in Seq(V) /\ ToSet(c[j]) = Firsts(w, j) /\ Begins(c[j], o)
    <3>1. c[j] \in Seq(V) /\ ToSet(c[j]) = Firsts(w, j)
      BY <1>1, AddsToNone
    <3>2. Begins(c[j], o)
      BY <1>1, AddsBegin
    <3>. QED  BY <2>1, <3>1, <3>2
  <2>. HIDE DEF o, n
  <2>. QED  BY <1>1, <2>1, <2>2
<1>. DEFINE m  == Len(o)
            uw == u \o w
            uo == u \o o
<1>. HIDE DEF o
<1>3. /\ m \in Nat /\ uw \in Seq(V) /\ Len(uw) = l + n /\ uo \in Seq(V) /\ Len(uo) = l + m
      /\ \A i \in 1 .. l : uw[i] = u[i] /\ uo[i] = u[i]
      /\ \A j \in 1 .. n : uw[l + j] = w[j]
      /\ \A j \in 1 .. m : uo[l + j] = o[j]
  BY <1>2
<1>. HIDE DEF uw, uo
<1>4. PICK a : Adds(a, <<>>, uw) /\ OnceOf(uw) = a[Len(uw)]
  BY <1>3, OnceSteps DEF OnceOf
<1>5. PICK d : Adds(d, <<>>, uo) /\ OnceOf(uo) = d[Len(uo)]
  BY <1>3, OnceSteps DEF OnceOf
<1>. HIDE DEF l, n, m
<1>6. \A i \in 0 .. (l + n) : i < l + n => a[i + 1] = Once(a[i], uw[i + 1])
  BY <1>3, <1>4 DEF Adds
<1>7. \A i \in 0 .. (l + m) : i < l + m => d[i + 1] = Once(d[i], uo[i + 1])
  BY <1>3, <1>5 DEF Adds
<1>8. a[l] = d[l]
  <2>. DEFINE T == {i \in Nat : i <= l => a[i] = d[i]}
  <2>1. 0 \in T
    BY <1>4, <1>5 DEF Adds
  <2>2. ASSUME NEW i \in Nat, i \in T  PROVE i + 1 \in T
    <3>. SUFFICES ASSUME i + 1 <= l  PROVE a[i + 1] = d[i + 1]
      OBVIOUS
    <3>1. /\ i \in 0 .. (l + n) /\ i < l + n /\ i \in 0 .. (l + m) /\ i < l + m
          /\ i + 1 \in 1 .. l /\ i <= l
      BY <1>2, <1>3
    <3>. QED  BY <1>3, <1>6, <1>7, <2>2, <3>1
  <2>3. l \in T
    <3>. HIDE DEF T
    <3>. QED  BY <1>2, <2>1, <2>2, Inductive
  <2>4. l <= l
    BY <1>2
  <2>. QED  BY <2>3, <2>4
<1>9. \A i \in Nat : i <= n => a[l + i] = d[l + Len(c[i])]
  <2>. DEFINE T == {i \in Nat : i <= n => a[l + i] = d[l + Len(c[i])]}
  <2>1. 0 \in T
    <3>1. c[0] = <<>> /\ l + 0 = l /\ Len(<<>>) = 0
      BY <1>1, <1>2 DEF Adds
    <3>. QED  BY <1>8, <3>1
  <2>2. ASSUME NEW i \in Nat, i \in T  PROVE i + 1 \in T
    <3>. SUFFICES ASSUME i + 1 <= n  PROVE a[l + (i + 1)] = d[l + Len(c[i + 1])]
      OBVIOUS
    <3>. DEFINE v == w[i + 1]
                k == Len(c[i])
                x == c[i]
                y == Append(x, v)
    <3>1. /\ i \in 0 .. n /\ i < n /\ i + 1 \in 1 .. n /\ i + 1 \in 0 .. n
          /\ l + (i + 1) = (l + i) + 1 /\ l + i \in 0 .. (l + n) /\ l + i < l + n
      BY <1>2
    <3>2. a[(l + i) + 1] = Once(a[l + i], v)
      <4>1. uw[(l + i) + 1] = v
        BY <1>3, <3>1
      <4>. QED  BY <1>6, <3>1, <4>1
    <3>3. c[i + 1] = Once(x, v)
      BY <1>1, <3>1 DEF Adds, n
    <3>4. /\ x \in Seq(V) /\ k \in Nat /\ ToSet(x) = Firsts(w, i) /\ v \in V
      BY <1>2, <3>1 DEF n
    <3>5. a[l + i] = d[l + k]
      BY <2>2, <3>1
    <3>. HIDE DEF v, x, k
    <3>6. CASE v \in ToSet(x)
      <4>1. c[i + 1] = x
        BY <3>3, <3>6 DEF Once
      <4>2. v \in ToSet(a[l + i])
        <5>1. PICK j \in 1 .. i : v = w[j]
          BY <3>4, <3>6 DEF Firsts
        <5>2. j \in 1 .. n /\ l + j \in 1 .. (l + i)
          BY <1>2, <3>1
        <5>3. uw[l + j] = v
          BY <1>3, <5>1, <5>2
        <5>4. ToSet(a[l + i]) = Firsts(uw, l + i)
          BY <1>3, <1>4, <3>1, AddsToNone
        <5>. QED  BY <5>2, <5>3, <5>4 DEF Firsts
      <4>3. a[(l + i) + 1] = a[l + i]
        BY <3>2, <4>2 DEF Once
      <4>. QED  BY <3>1, <3>5, <4>1, <4>3 DEF x, k
    <3>7. CASE v \notin ToSet(x)
      <4>1. c[i + 1] = y
        BY <3>3, <3>7 DEF Once
      <4>2. Len(y) = k + 1 /\ y[k + 1] = v
        BY <3>4 DEF k, x
      <4>. HIDE DEF y
      <4>3. k + 1 <= m /\ o[k + 1] = v
        <5>1. Begins(y, o)
          BY <1>2, <3>1, <4>1
        <5>. QED  BY <3>4, <4>2, <5>1 DEF Begins, m
      <4>4. /\ l + k \in 0 .. (l + m) /\ l + k < l + m /\ k + 1 \in 1 .. m
            /\ (l + k) + 1 = l + (k + 1)
        BY <1>2, <1>3, <3>4, <4>3
      <4>5. d[(l + k) + 1] = Once(d[l + k], v)
        BY <1>3, <1>7, <4>3, <4>4
      <4>. QED  BY <3>1, <3>2, <3>5, <4>1, <4>2, <4>4, <4>5
    <3>. QED  BY <3>6, <3>7
  <2>. HIDE DEF T
  <2>3. \A i \in Nat : i \in T
    BY <2>1, <2>2, Inductive
  <2>. QED  BY <2>3 DEF T
<1>10. a[l + n] = d[l + m]
  <2>1. n <= n /\ Len(c[n]) = m
    BY <1>1, <1>2 DEF m
  <2>. QED  BY <1>2, <1>9, <2>1
<1>. QED  BY <1>2, <1>3, <1>4, <1>5, <1>10 DEF uw, uo, o

-------------------------------------------------------------------------------
(* One level around the others                                                 *)

\* What closest_directive() and collect_directives() make of the levels.
Inner(levels) ==
    LET found == {k \in DOMAIN levels : levels[k] # <<>>}
    IN  IF found = {} THEN NoValue ELSE Last(levels[Min(found)]).value
AllOf(levels) == FlattenSeq([k \in DOMAIN levels |-> Reverse(Values(levels[k]))])

LEMMA QueriesOf ==
    ASSUME NEW bs, NEW b, NEW type
    PROVE  /\ Closest(bs, b, type) = Inner(Levels(bs, b, type))
           /\ Collected(bs, b, type) = OnceOf(AllOf(Levels(bs, b, type)))
BY DEF Closest, Inner, Collected, AllOf, OnceOf, Once, FoldLeft, MapThenFoldSet

LEMMA InnerOut ==
    ASSUME NEW S, NEW x \in Seq(S), NEW outer \in Seq(Seq(S))
    PROVE  Inner(<<x>> \o outer) = IF x # <<>> THEN Last(x).value ELSE Inner(outer)
<1>. DEFINE more == <<x>> \o outer
            n    == Len(outer)
            F    == {k \in DOMAIN more : more[k] # <<>>}
            G    == {k \in DOMAIN outer : outer[k] # <<>>}
<1>1. /\ n \in Nat /\ DOMAIN more = 1 .. (n + 1) /\ DOMAIN outer = 1 .. n
      /\ more[1] = x /\ \A k \in 1 .. n : more[k + 1] = outer[k]
  BY JoinOf
<1>2. /\ Inner(more) = IF F = {} THEN NoValue ELSE Last(more[Min(F)]).value
      /\ Inner(outer) = IF G = {} THEN NoValue ELSE Last(outer[Min(G)]).value
  BY DEF Inner
<1>. HIDE DEF more
<1>3. /\ F \subseteq Nat /\ G \subseteq Nat /\ (1 \in F <=> x # <<>>)
      /\ \A k \in 1 .. n : k + 1 \in F <=> k \in G
      /\ \A k \in F : k = 1 \/ (k - 1 \in 1 .. n /\ (k - 1) + 1 = k)
      /\ \A k \in F : 1 <= k
      /\ \A k \in G : k \in 1 .. n
  BY <1>1
<1>. HIDE DEF F, G
<1>4. CASE x # <<>>
  <2>1. Min(F) \in F /\ Min(F) <= 1
    BY <1>3, <1>4, MinOf
  <2>2. Min(F) = 1
    <3>1. ASSUME NEW m \in F, m <= 1  PROVE m = 1
      BY <1>3, <3>1
    <3>. QED  BY <2>1, <3>1
  <2>. QED  BY <1>1, <1>2, <1>3, <1>4, <2>2 DEF more
<1>5. CASE x = <<>> /\ G = {}
  <2>1. F = {}
    BY <1>3, <1>5
  <2>. QED  BY <1>2, <1>5, <2>1 DEF more
<1>6. CASE x = <<>> /\ G # {}
  <2>1. Min(G) \in G /\ \A k \in G : Min(G) <= k
    BY <1>3, <1>6, MinOf
  <2>2. Min(G) + 1 \in F /\ Min(G) \in 1 .. n
    BY <1>3, <2>1
  <2>3. Min(F) \in F /\ \A k \in F : Min(F) <= k
    BY <1>3, <2>2, MinOf
  <2>4. Min(F) - 1 \in G /\ Min(F) \in Nat
    BY <1>3, <1>6, <2>3
  <2>5. Min(F) <= Min(G) + 1 /\ Min(G) <= Min(F) - 1
    BY <2>1, <2>2, <2>3, <2>4
  <2>6. Min(F) = Min(G) + 1
    BY <1>3, <2>2, <2>4, <2>5
  <2>. QED  BY <1>1, <1>2, <1>6, <2>2, <2>6 DEF more
<1>. QED  BY <1>4, <1>5, <1>6

LEMMA AllOut ==
    ASSUME NEW S, NEW V, \A d \in S : d.value \in V, NEW x \in Seq(S), NEW outer \in Seq(Seq(S))
    PROVE  /\ AllOf(outer) \in Seq(V) /\ Reverse(Values(x)) \in Seq(V)
           /\ AllOf(<<x>> \o outer) = Reverse(Values(x)) \o AllOf(outer)
<1>. DEFINE more == <<x>> \o outer
            n    == Len(outer)
            rv(k) == Reverse(Values(k))
            u    == [k \in DOMAIN outer |-> rv(outer[k])]
            v    == [k \in DOMAIN more |-> rv(more[k])]
<1>1. /\ n \in Nat /\ DOMAIN more = 1 .. (n + 1) /\ DOMAIN outer = 1 .. n
      /\ more[1] = x /\ \A k \in 1 .. n : more[k + 1] = outer[k] /\ outer[k] \in Seq(S)
      /\ more \in Seq(Seq(S))
  BY JoinOf
<1>2. rv(x) \in Seq(V) /\ \A k \in 1 .. n : rv(outer[k]) \in Seq(V)
  BY <1>1, ReverseValues
<1>. HIDE DEF more, rv
<1>3. /\ u \in Seq(Seq(V)) /\ Len(u) = n /\ \A k \in 1 .. n : u[k] = rv(outer[k])
  BY <1>1, <1>2
<1>4. v = <<rv(x)>> \o u
  <2>. DEFINE w == <<rv(x)>> \o u
  <2>1. /\ w \in Seq(Seq(V)) /\ Len(w) = n + 1 /\ w[1] = rv(x)
        /\ \A k \in 1 .. n : w[k + 1] = u[k]
    <3>. HIDE DEF u
    <3>. QED  BY <1>2, <1>3, JoinOf
  <2>. HIDE DEF w, u
  <2>2. \A k \in 1 .. (n + 1) : k = 1 \/ (k - 1 \in 1 .. n /\ (k - 1) + 1 = k)
    BY <1>1
  <2>3. ASSUME NEW k \in 1 .. (n + 1)  PROVE rv(more[k]) = w[k]
    <3>1. CASE k = 1
      BY <1>1, <2>1, <3>1
    <3>2. ASSUME NEW j \in 1 .. n, k = j + 1  PROVE rv(more[k]) = w[k]
      BY <1>1, <1>3, <2>1, <3>2
    <3>. QED  BY <2>2, <3>1, <3>2
  <2>4. w = [k \in 1 .. (n + 1) |-> w[k]]
    BY <2>1
  <2>5. v = w
    <3>1. v = [k \in 1 .. (n + 1) |-> rv(more[k])]
      BY <1>1
    <3>. QED  BY <2>3, <2>4, <3>1
  <2>. QED  BY <2>5 DEF w
<1>5. AllOf(more) = FlattenSeq(v) /\ AllOf(outer) = FlattenSeq(u)
  BY DEF AllOf, rv
<1>. HIDE DEF u, v
<1>6. FlattenSeq(v) = rv(x) \o FlattenSeq(u) /\ FlattenSeq(u) \in Seq(V)
  BY <1>2, <1>3, <1>4, FlattenOut, FlattenSeqOf
<1>. QED  BY <1>2, <1>5, <1>6 DEF more, rv

\* All directives of a file.
DirectivesOf(bs) == UNION {ToSet(bs[b].items) : b \in DOMAIN bs}

\* What is in force behind the first m directives of a block: those of them, and the
\* levels around it.
FirstLevel(bs, b, m, type) == OfType(SubSeq(bs[b].items, 1, m), type)
LevelsAt(bs, b, m, type)   == [Levels(bs, b, type) EXCEPT ![1] = FirstLevel(bs, b, m, type)]
Outer(bs, b, type) ==
    IF bs[b].parent = NoBlock THEN <<>>
    ELSE LevelsAt(bs, bs[b].parent, bs[b].index, type)

LEMMA LevelsSeq ==
    ASSUME NEW bs, Parsed(bs), NEW b \in DOMAIN bs, NEW type
    PROVE  /\ Levels(bs, b, type) \in Seq(Seq(DirectivesOf(bs)))
           /\ Len(Levels(bs, b, type)) = Len(Chain(bs, b))
           /\ Levels(bs, b, type)[1] = OfType(bs[b].items, type)
           /\ \A m \in 0 .. Len(bs[b].items) :
                 FirstLevel(bs, b, m, type) \in Seq(DirectivesOf(bs))
<1>. DEFINE levels == Levels(bs, b, type)
            chain  == Chain(bs, b)
            n      == Len(chain)
            D      == DirectivesOf(bs)
<1>1. /\ chain \in Seq(DOMAIN bs) /\ n \in Nat /\ n > 0 /\ chain[1] = b
      /\ DOMAIN chain = 1 .. n /\ \A k \in 1 .. n : chain[k] \in DOMAIN bs
  BY ChainIsAround DEF Around
<1>2. DOMAIN levels = 1 .. n /\ \A k \in 1 .. n : levels[k] \in Seq(ToSet(bs[chain[k]].items))
  BY LevelsOf
<1>3. levels[1] = OfType(bs[b].items, type)
  <2>1. 1 \in DOMAIN chain
    BY <1>1
  <2>. HIDE DEF chain
  <2>. QED  BY <1>1, <2>1 DEF Levels, chain
<1>4. levels = [k \in 1 .. n |-> levels[k]]
  <2>. HIDE DEF n
  <2>. QED  BY <1>2 DEF Levels
<1>. HIDE DEF levels, chain, n, D
<1>5. \A c \in DOMAIN bs : ToSet(bs[c].items) \subseteq D
  BY DEF D, DirectivesOf
<1>6. \A k \in 1 .. n : levels[k] \in Seq(D)
  <2>1. ASSUME NEW k \in 1 .. n  PROVE levels[k] \in Seq(D)
    <3>1. ToSet(bs[chain[k]].items) \subseteq D /\ levels[k] \in Seq(ToSet(bs[chain[k]].items))
      BY <1>1, <1>2, <1>5
    <3>. QED  BY <3>1
  <2>. QED  BY <2>1
<1>7. levels \in Seq(Seq(D)) /\ Len(levels) = n
  BY <1>1, <1>4, <1>6
<1>8. ASSUME NEW m \in 0 .. Len(bs[b].items)
      PROVE  FirstLevel(bs, b, m, type) \in Seq(D)
  <2>. DEFINE items == bs[b].items
              S     == ToSet(items)
  <2>1. items \in Seq(S) /\ S \subseteq D
    BY <1>5 DEF Parsed
  <2>. HIDE DEF items, S
  <2>2. SubSeq(items, 1, m) \in Seq(S)
    BY <2>1, <1>8 DEF items
  <2>3. OfType(SubSeq(items, 1, m), type) \in Seq(S)
    BY <2>2, OfTypeSeq
  <2>. QED  BY <2>1, <2>3 DEF FirstLevel, items
<1>. QED  BY <1>3, <1>7, <1>8 DEF levels, n, chain, D

LEMMA LevelsWhole ==
    ASSUME NEW bs, Parsed(bs), NEW b \in DOMAIN bs, NEW type
    PROVE  LevelsAt(bs, b, Len(bs[b].items), type) = Levels(bs, b, type)
<1>1. bs[b].items \in Seq(ToSet(bs[b].items))
  BY DEF Parsed
<1>2. SubSeq(bs[b].items, 1, Len(bs[b].items)) = bs[b].items
  BY <1>1
<1>. DEFINE levels == Levels(bs, b, type)
<1>3. levels \in Seq(Seq(DirectivesOf(bs))) /\ levels[1] = FirstLevel(bs, b, Len(bs[b].items), type)
  BY <1>2, LevelsSeq DEF FirstLevel
<1>. HIDE DEF levels
<1>4. [levels EXCEPT ![1] = levels[1]] = levels
  BY <1>3
<1>. QED  BY <1>3, <1>4 DEF LevelsAt, levels

\* A block adds one level to those around it.
LEMMA LevelsOut ==
    ASSUME NEW bs, Parsed(bs), NEW b \in DOMAIN bs, NEW type,
           NEW m \in 0 .. Len(bs[b].items)
    PROVE  /\ Outer(bs, b, type) \in Seq(Seq(DirectivesOf(bs)))
           /\ LevelsAt(bs, b, m, type) = <<FirstLevel(bs, b, m, type)>> \o Outer(bs, b, type)
<1>. DEFINE D      == DirectivesOf(bs)
            levels == Levels(bs, b, type)
            x      == FirstLevel(bs, b, m, type)
            at     == LevelsAt(bs, b, m, type)
            out    == Outer(bs, b, type)
            chain  == Chain(bs, b)
            n      == Len(chain)
            p      == bs[b].parent
<1>1. /\ chain \in Seq(DOMAIN bs) /\ n \in Nat /\ n > 0 /\ chain[1] = b
      /\ chain = <<b>> \o (IF p = NoBlock THEN <<>> ELSE Chain(bs, p))
  <2>1. Around(bs, b)
    BY ChainIsAround
  <2>2. Chain(bs, b) = <<b>> \o (IF bs[b].parent = NoBlock THEN <<>> ELSE Chain(bs, bs[b].parent))
    BY ChainStep
  <2>3. chain \in Seq(DOMAIN bs) /\ n > 0 /\ chain[1] = b
    BY <2>1 DEF Around
  <2>4. n \in Nat
    <3>. HIDE DEF chain
    <3>. QED  BY <2>3
  <2>. QED  BY <2>2, <2>3, <2>4
<1>2. levels \in Seq(Seq(D)) /\ Len(levels) = n /\ x \in Seq(D)
  BY LevelsSeq
<1>3. /\ at \in Seq(Seq(D)) /\ Len(at) = n /\ at[1] = x
      /\ \A k \in 1 .. n : k # 1 => at[k] = levels[k]
  <2>1. at = [levels EXCEPT ![1] = x]
    BY DEF LevelsAt
  <2>. HIDE DEF at, levels, x, D, n
  <2>. QED  BY <1>1, <1>2, <2>1
<1>4. CASE p = NoBlock
  <2>1. chain = <<b>>
    <3>. HIDE DEF p, chain
    <3>1. chain = <<b>> \o <<>>
      BY <1>1, <1>4
    <3>. QED  BY <3>1
  <2>2. n = 1
    BY <2>1
  <2>. DEFINE one == <<x>> \o <<>>
  <2>3. one \in Seq(Seq(D)) /\ Len(one) = 1 /\ one[1] = x
    <3>. HIDE DEF x, D
    <3>. QED  BY <1>2
  <2>4. out = <<>>
    BY <1>4 DEF Outer
  <2>. HIDE DEF one, at, n, D, x
  <2>5. at = one
    BY <1>3, <2>2, <2>3
  <2>. QED  BY <2>4, <2>5 DEF one, at, D, x
<1>5. CASE p # NoBlock
  <2>. DEFINE up    == Chain(bs, p)
              i     == bs[b].index
              there == Levels(bs, p, type)
              y     == FirstLevel(bs, p, i, type)
              r     == Len(up)
  <2>1. p \in DOMAIN bs /\ i \in 0 .. Len(bs[p].items)
    <3>1. bs \in Seq(ToSet(bs)) /\ p \in 0 .. (b - 1)
      BY DEF Parsed
    <3>. QED  BY <1>5, <3>1 DEF Parsed, NoBlock
  <2>2. /\ up \in Seq(DOMAIN bs) /\ r \in Nat /\ r > 0 /\ up[1] = p /\ DOMAIN up = 1 .. r
    <3>. HIDE DEF p
    <3>. QED  BY <2>1, ChainIsAround DEF Around
  <2>3. there \in Seq(Seq(D)) /\ Len(there) = r /\ y \in Seq(D)
    <3>. HIDE DEF p, i
    <3>. QED  BY <2>1, LevelsSeq
  <2>4. /\ out \in Seq(Seq(D)) /\ Len(out) = r /\ out[1] = y
        /\ \A k \in 1 .. r : k # 1 => out[k] = there[k]
    <3>1. out = [there EXCEPT ![1] = y]
      BY <1>5 DEF Outer, LevelsAt
    <3>. HIDE DEF out, there, y, r, D
    <3>. QED  BY <2>2, <2>3, <3>1
  <2>5. /\ n = r + 1 /\ DOMAIN chain = 1 .. n /\ chain[1] = b
        /\ \A k \in 1 .. r : chain[k + 1] = up[k]
    <3>1. chain = <<b>> \o up
      BY <1>1, <1>5
    <3>. HIDE DEF chain, up, p
    <3>2. /\ Len(<<b>> \o up) = r + 1 /\ DOMAIN (<<b>> \o up) = 1 .. (r + 1)
          /\ (<<b>> \o up)[1] = b /\ \A k \in 1 .. r : (<<b>> \o up)[k + 1] = up[k]
      BY <2>2, JoinOf
    <3>. QED  BY <3>1, <3>2
  <2>6. ASSUME NEW k \in 1 .. r  PROVE at[k + 1] = out[k]
    <3>1. /\ k + 1 \in 1 .. n /\ k + 1 # 1 /\ (k + 1) - 1 = k /\ k \in 1 .. n /\ r \in Nat
      BY <2>2, <2>5
    <3>2. at[k + 1] = OfType(SubSeq(bs[up[k]].items, 1, bs[chain[k]].index), type)
      <4>1. at[k + 1] = levels[k + 1]
        BY <1>3, <3>1
      <4>2. levels[k + 1] = OfType(SubSeq(bs[chain[k + 1]].items, 1, bs[chain[k]].index), type)
        <5>. HIDE DEF chain
        <5>. QED  BY <2>5, <3>1 DEF Levels, chain
      <4>. QED  BY <2>5, <4>1, <4>2
    <3>3. CASE k = 1
      BY <2>2, <2>4, <2>5, <3>2, <3>3 DEF FirstLevel
    <3>4. CASE k # 1
      <4>1. k - 1 \in 1 .. r /\ (k - 1) + 1 = k
        BY <2>2, <3>4
      <4>2. chain[k] = up[k - 1]
        BY <2>5, <4>1
      <4>3. there[k] = OfType(SubSeq(bs[up[k]].items, 1, bs[up[k - 1]].index), type)
        <5>. HIDE DEF up, p
        <5>. QED  BY <2>2, <3>4 DEF Levels, up
      <4>. QED  BY <2>4, <3>2, <3>4, <4>2, <4>3
    <3>. QED  BY <3>3, <3>4
  <2>. DEFINE more == <<x>> \o out
  <2>7. /\ more \in Seq(Seq(D)) /\ Len(more) = r + 1 /\ more[1] = x
        /\ \A k \in 1 .. r : more[k + 1] = out[k]
    <3>. HIDE DEF x, out, D, r
    <3>. QED  BY <1>2, <2>4, JoinOf
  <2>. HIDE DEF more, at, out, x, D, n, r
  <2>8. \A k \in 1 .. (r + 1) : k = 1 \/ \E j \in 1 .. r : k = j + 1
    <3>1. \A k \in 1 .. (r + 1) : k = 1 \/ (k - 1 \in 1 .. r /\ k = (k - 1) + 1)
      BY <2>2
    <3>. QED  BY <3>1
  <2>9. \A k \in 1 .. (r + 1) : at[k] = more[k]
    <3>1. ASSUME NEW k \in 1 .. (r + 1)  PROVE at[k] = more[k]
      <4>1. CASE k = 1
        BY <1>3, <2>7, <4>1
      <4>2. ASSUME NEW j \in 1 .. r, k = j + 1  PROVE at[k] = more[k]
        BY <2>6, <2>7, <4>2
      <4>. QED  BY <2>8, <4>1, <4>2
    <3>. QED  BY <3>1
  <2>10. at = more
    BY <1>3, <2>5, <2>7, <2>9
  <2>. QED  BY <2>4, <2>10 DEF more, at, out, x, D
<1>. QED  BY <1>4, <1>5

\* What holds in a block behind some of its directives, of what holds around it.
Forced(roots, indexes, around) ==
    [root  |-> IF roots # <<>> THEN Last(roots).value ELSE around.root,
     index |-> OnceOf(Reverse(Values(indexes)) \o around.index)]
ForceAt(bs, at, b, m) ==
    Forced(FirstLevel(bs, b, m, "root"), FirstLevel(bs, b, m, "index"), at[b])
Nothing == [root |-> NoValue, index |-> <<>>]

\* What is known where each block is opened is what holds there.
Settled(bs, at) ==
    \A b \in DOMAIN bs :
        at[b] = IF bs[b].parent = NoBlock THEN Nothing
                ELSE ForceAt(bs, at, bs[b].parent, bs[b].index)

\* What the queries find behind the first m directives of a block.
FoundAt(bs, b, m) ==
    [root  |-> Inner(LevelsAt(bs, b, m, "root")),
     index |-> OnceOf(AllOf(LevelsAt(bs, b, m, "index")))]

LEMMA FoundNothing ==
    Inner(<<>>) = NoValue /\ OnceOf(AllOf(<<>>)) = <<>>
<1>1. Inner(<<>>) = NoValue
  <2>1. {k \in DOMAIN <<>> : <<>>[k] # <<>>} = {}
    OBVIOUS
  <2>. QED  BY <2>1 DEF Inner
<1>2. AllOf(<<>>) = <<>>
  <2>1. [k \in DOMAIN <<>> |-> Reverse(Values(<<>>[k]))] = <<>>
    OBVIOUS
  <2>. QED  BY <2>1 DEF AllOf, FlattenSeq
<1>3. OnceOf(<<>>) = <<>>
  <2>1. <<>> \in Seq({}) /\ Len(<<>>) = 0
    OBVIOUS
  <2>2. PICK added : Adds(added, <<>>, <<>>) /\ FoldLeft(Once, <<>>, <<>>) = added[Len(<<>>)]
    BY <2>1, OnceSteps
  <2>. QED  BY <2>1, <2>2 DEF OnceOf, Adds
<1>. QED  BY <1>1, <1>2, <1>3

\* One level out: what is found is what holds, when what is found around the block is
\* what holds around it.
LEMMA FoundOut ==
    ASSUME NEW bs, Parsed(bs), NEW at, NEW b \in DOMAIN bs, NEW m \in 0 .. Len(bs[b].items),
           at[b] = [root  |-> Inner(Outer(bs, b, "root")),
                    index |-> OnceOf(AllOf(Outer(bs, b, "index")))]
    PROVE  FoundAt(bs, b, m) = ForceAt(bs, at, b, m)
<1>. DEFINE S == DirectivesOf(bs)
            V == {d.value : d \in S}
            x == FirstLevel(bs, b, m, "root")
            y == FirstLevel(bs, b, m, "index")
            ox == Outer(bs, b, "root")
            oy == Outer(bs, b, "index")
            lx == LevelsAt(bs, b, m, "root")
            ly == LevelsAt(bs, b, m, "index")
<1>1. ASSUME NEW type
      PROVE  /\ FirstLevel(bs, b, m, type) \in Seq(S) /\ Outer(bs, b, type) \in Seq(Seq(S))
             /\ LevelsAt(bs, b, m, type) = <<FirstLevel(bs, b, m, type)>> \o Outer(bs, b, type)
  BY LevelsSeq, LevelsOut
<1>2. /\ x \in Seq(S) /\ y \in Seq(S) /\ ox \in Seq(Seq(S)) /\ oy \in Seq(Seq(S))
      /\ lx = <<x>> \o ox /\ ly = <<y>> \o oy
  BY <1>1
<1>3. \A d \in S : d.value \in V
  OBVIOUS
<1>4. FoundAt(bs, b, m) = [root |-> Inner(lx), index |-> OnceOf(AllOf(ly))]
  BY DEF FoundAt
<1>5. ForceAt(bs, at, b, m) = Forced(x, y, at[b])
  BY DEF ForceAt
<1>6. at[b].root = Inner(ox) /\ at[b].index = OnceOf(AllOf(oy))
  OBVIOUS
<1>. HIDE DEF S, V, x, y, ox, oy, lx, ly
<1>7. Inner(lx) = IF x # <<>> THEN Last(x).value ELSE Inner(ox)
  BY <1>2, InnerOut
<1>8. /\ AllOf(oy) \in Seq(V) /\ Reverse(Values(y)) \in Seq(V)
      /\ AllOf(ly) = Reverse(Values(y)) \o AllOf(oy)
  <2>1. /\ AllOf(oy) \in Seq(V) /\ Reverse(Values(y)) \in Seq(V)
        /\ AllOf(<<y>> \o oy) = Reverse(Values(y)) \o AllOf(oy)
    BY <1>2, <1>3, AllOut
  <2>. QED  BY <1>2, <2>1
<1>9. OnceOf(AllOf(ly)) = OnceOf(Reverse(Values(y)) \o OnceOf(AllOf(oy)))
  BY <1>8, OnceOfParts
<1>. QED  BY <1>4, <1>5, <1>6, <1>7, <1>9 DEF Forced

\* The queries find what holds.
LEMMA FoundIsForced ==
    ASSUME NEW bs, Parsed(bs), NEW at, Settled(bs, at),
           NEW b \in DOMAIN bs, NEW m \in 0 .. Len(bs[b].items)
    PROVE  FoundAt(bs, b, m) = ForceAt(bs, at, b, m)
<1>. DEFINE P(c) == \A i \in 0 .. Len(bs[c].items) : FoundAt(bs, c, i) = ForceAt(bs, at, c, i)
            T    == {n \in Nat : \A c \in DOMAIN bs : c <= n => P(c)}
<1>1. DOMAIN bs = 1 .. Len(bs) /\ Len(bs) \in Nat
  BY DEF Parsed
<1>2. 0 \in T
  BY <1>1
<1>3. ASSUME NEW n \in Nat, n \in T  PROVE n + 1 \in T
  <2>1. ASSUME NEW c \in DOMAIN bs, c <= n + 1  PROVE P(c)
    <3>1. CASE c <= n
      BY <1>3, <3>1
    <3>2. CASE c = n + 1
      <4>. DEFINE p == bs[c].parent
                  i == bs[c].index
      <4>1. at[c] = [root  |-> Inner(Outer(bs, c, "root")),
                     index |-> OnceOf(AllOf(Outer(bs, c, "index")))]
        <5>1. CASE p = NoBlock
          <6>1. Outer(bs, c, "root") = <<>> /\ Outer(bs, c, "index") = <<>>
            BY <5>1 DEF Outer
          <6>2. at[c] = Nothing
            BY <5>1 DEF Settled
          <6>. QED  BY <6>1, <6>2, FoundNothing DEF Nothing
        <5>2. CASE p # NoBlock
          <6>1. p \in 0 .. (c - 1) /\ i \in 0 .. Len(bs[p].items)
            BY <5>2 DEF Parsed
          <6>2. p \in DOMAIN bs /\ p <= n
            BY <1>1, <3>2, <5>2, <6>1 DEF NoBlock
          <6>3. FoundAt(bs, p, i) = ForceAt(bs, at, p, i)
            BY <1>3, <6>1, <6>2
          <6>4. at[c] = ForceAt(bs, at, p, i)
            BY <5>2 DEF Settled
          <6>5. /\ Outer(bs, c, "root") = LevelsAt(bs, p, i, "root")
                /\ Outer(bs, c, "index") = LevelsAt(bs, p, i, "index")
            BY <5>2 DEF Outer
          <6>. QED  BY <6>3, <6>4, <6>5 DEF FoundAt
        <5>. QED  BY <5>1, <5>2
      <4>. QED  BY <4>1, FoundOut
    <3>. QED  BY <1>1, <2>1, <3>1, <3>2
  <2>. HIDE DEF P
  <2>. QED  BY <2>1
<1>4. \A n \in Nat : n \in T
  <2>. HIDE DEF T
  <2>. QED  BY <1>2, <1>3, Inductive
<1>5. b \in Nat /\ b <= b /\ b \in T
  BY <1>1, <1>4
<1>. QED  BY <1>5

Kinds == {"http", "server", "location"}
Item  == [type : Kinds \cup {"root", "index"}, value : Given \cup Nat]
Block == [kind : Kinds, match : Matches \cup {<<>>}, parent : Nat, index : Nat,
          items : Seq(Item)]

\* The http block and those opened in it, one in the other.
OpenedInv ==
    /\ opened \in Seq(Nat) /\ Len(opened) > 0 /\ opened[1] = 1
    /\ \A k \in 1 .. Len(opened) :
          opened[k] \in DOMAIN blocks /\ blocks[opened[k]].parent = NoBlock
    /\ \A j, k \in 1 .. Len(opened) : j < k => opened[j] < opened[k]

\* A block that is closed is in one that was opened before it.
ClosedInv ==
    \A b \in DOMAIN blocks :
        (\E k \in 1 .. Len(opened) : opened[k] = b)
        \/ /\ blocks[b].parent \in 1 .. (b - 1)
           /\ blocks[b].index \in 0 .. Len(blocks[blocks[b].parent].items)
           /\ atOpening[b] = ForceAt(blocks, atOpening, blocks[b].parent, blocks[b].index)

\* What held where an open block was opened is what holds there now.
KnownInv ==
    /\ atOpening[1] = Nothing
    /\ \A k \in 1 .. Len(opened) : k > 1 =>
          atOpening[opened[k]] =
              ForceAt(blocks, atOpening, opened[k - 1], Len(blocks[opened[k - 1]].items))

TextInv ==
    /\ blocks \in Seq(Block) /\ atOpening \in Seq(ToSet(atOpening))
    /\ Len(atOpening) = Len(blocks)
    /\ OpenedInv /\ ClosedInv /\ KnownInv

-------------------------------------------------------------------------------
(* What a step leaves                                                          *)

\* The blocks are still there, with at least the directives they had, and what was
\* known is known.
Grows(bs, at, bs2, at2) ==
    \A b \in DOMAIN bs :
        /\ b \in DOMAIN bs2 /\ at2[b] = at[b]
        /\ Len(bs[b].items) <= Len(bs2[b].items)
        /\ \A m \in 0 .. Len(bs[b].items) : SubSeq(bs2[b].items, 1, m) = SubSeq(bs[b].items, 1, m)

LEMMA ForceKept ==
    ASSUME NEW bs, NEW at, NEW bs2, NEW at2, Grows(bs, at, bs2, at2),
           NEW b \in DOMAIN bs, NEW m \in 0 .. Len(bs[b].items)
    PROVE  ForceAt(bs2, at2, b, m) = ForceAt(bs, at, b, m)
<1>1. at2[b] = at[b] /\ SubSeq(bs2[b].items, 1, m) = SubSeq(bs[b].items, 1, m)
  BY DEF Grows
<1>. QED  BY <1>1 DEF ForceAt, FirstLevel

LEMMA AppendOf ==
    ASSUME NEW S, NEW s \in Seq(S), NEW x \in S
    PROVE  /\ Append(s, x) \in Seq(S) /\ Len(Append(s, x)) = Len(s) + 1
           /\ DOMAIN Append(s, x) = 1 .. (Len(s) + 1)
           /\ Append(s, x)[Len(s) + 1] = x
           /\ \A k \in 1 .. Len(s) : Append(s, x)[k] = s[k]
           /\ \A m \in 0 .. Len(s) : SubSeq(Append(s, x), 1, m) = SubSeq(s, 1, m)
<1>1. ASSUME NEW m \in 0 .. Len(s)
      PROVE  SubSeq(Append(s, x), 1, m) = SubSeq(s, 1, m)
  <2>1. /\ \A k \in 1 .. m : Append(s, x)[k] = s[k]
        /\ m <= Len(Append(s, x)) /\ m <= Len(s)
    OBVIOUS
  <2>2. /\ SubSeq(Append(s, x), 1, m) = [k \in 1 .. m |-> Append(s, x)[k]]
        /\ SubSeq(s, 1, m) = [k \in 1 .. m |-> s[k]]
    OBVIOUS
  <2>. QED  BY <2>1, <2>2
<1>. QED  BY <1>1

LEMMA BlockOf ==
    ASSUME NEW bs \in Seq(Block), NEW b \in DOMAIN bs
    PROVE  /\ bs[b] \in Block /\ bs[b].items \in Seq(Item) /\ Len(bs[b].items) \in Nat
           /\ bs[b].index \in Nat /\ bs[b].parent \in Nat
<1>1. bs[b] \in Block
  OBVIOUS
<1>. QED  BY <1>1 DEF Block

\* A step that changes no more than one block, and that by a directive behind its others.
LEMMA GrowsBy ==
    ASSUME NEW bs \in Seq(Block), NEW t \in DOMAIN bs, NEW item \in Item,
           NEW bs2 \in Seq(Block), DOMAIN bs2 = DOMAIN bs,
           bs2[t].items = Append(bs[t].items, item),
           \A b \in DOMAIN bs : b # t => bs2[b].items = bs[b].items,
           NEW at
    PROVE  Grows(bs, at, bs2, at)
<1>1. ASSUME NEW b \in DOMAIN bs
      PROVE  /\ Len(bs[b].items) <= Len(bs2[b].items)
             /\ \A m \in 0 .. Len(bs[b].items) :
                   SubSeq(bs2[b].items, 1, m) = SubSeq(bs[b].items, 1, m)
  <2>1. bs[b].items \in Seq(Item)
    BY BlockOf
  <2>2. CASE b = t
    <3>. DEFINE s == bs[b].items
    <3>1. s \in Seq(Item) /\ bs2[b].items = Append(s, item)
      BY <2>1, <2>2
    <3>. HIDE DEF s
    <3>2. /\ Len(Append(s, item)) = Len(s) + 1 /\ Len(s) \in Nat
          /\ \A m \in 0 .. Len(s) : SubSeq(Append(s, item), 1, m) = SubSeq(s, 1, m)
      BY <3>1, AppendOf
    <3>. QED  BY <3>1, <3>2 DEF s
  <2>3. CASE b # t
    <3>1. Len(bs[b].items) \in Nat
      BY <2>1
    <3>. QED  BY <2>3, <3>1
  <2>. QED  BY <2>2, <2>3
<1>. QED  BY <1>1 DEF Grows

\* A block with one more directive, and with a place in another.
LEMMA WithItem ==
    ASSUME NEW b \in Block, NEW item \in Item
    PROVE  LET b2 == [b EXCEPT !.items = Append(@, item)]
           IN  /\ b2 \in Block /\ b2.items = Append(b.items, item)
               /\ b2.parent = b.parent /\ b2.index = b.index
<1>1. b.items \in Seq(Item)
  BY DEF Block
<1>2. Append(b.items, item) \in Seq(Item)
  BY <1>1
<1>. QED  BY <1>2 DEF Block

LEMMA TopIs ==
    ASSUME TextInv
    PROVE  /\ Top = opened[Len(opened)] /\ Len(opened) \in Nat /\ Len(opened) \in 1 .. Len(opened)
           /\ Top \in DOMAIN blocks /\ Top \in Nat
           /\ DOMAIN blocks = 1 .. Len(blocks) /\ Len(blocks) \in Nat
           /\ 1 \in 1 .. Len(opened)
BY DEF TextInv, OpenedInv, Top, Last

LEMMA InitTextInv == InitText => TextInv
<1>. SUFFICES ASSUME InitText  PROVE TextInv
  OBVIOUS
<1>1. /\ blocks = <<NewBlock("http", <<>>)>> /\ opened = <<1>>
      /\ atOpening = <<Nothing>>
  BY DEF InitText, Nothing
<1>2. NewBlock("http", <<>>) \in Block /\ NewBlock("http", <<>>).parent = NoBlock
  <2>1. <<>> \in Seq(Item)
    OBVIOUS
  <2>. QED  BY <2>1 DEF NewBlock, Block, Kinds, NoBlock
<1>3. blocks \in Seq(Block) /\ atOpening \in Seq(ToSet(atOpening))
  <2>1. ToSet(atOpening) = {Nothing}
    BY <1>1 DEF ToSet
  <2>. QED  BY <1>1, <1>2, <2>1
<1>4. OpenedInv
  BY <1>1, <1>2 DEF OpenedInv
<1>5. ClosedInv
  BY <1>1 DEF ClosedInv
<1>6. KnownInv
  BY <1>1 DEF KnownInv
<1>. QED  BY <1>1, <1>3, <1>4, <1>5, <1>6 DEF TextInv

LEMMA InForceIs ==
    ASSUME TextInv, NEW b \in DOMAIN blocks
    PROVE  InForce(b) = ForceAt(blocks, atOpening, b, Len(blocks[b].items))
<1>. DEFINE items == blocks[b].items
            x == OfType(items, "root")
            y == OfType(items, "index")
            w == Reverse(Values(y)) \o atOpening[b].index
<1>1. items \in Seq(Item)
  BY BlockOf DEF TextInv
<1>2. SubSeq(items, 1, Len(items)) = items
  <2>. HIDE DEF items
  <2>. QED  BY <1>1
<1>3. x \in Seq(Item)
  BY <1>1, OfTypeSeq
<1>. HIDE DEF x, y, w
<1>4. (Values(x) = <<>> <=> x = <<>>) /\ (x # <<>> => Last(Values(x)) = Last(x).value)
  <2>1. DOMAIN x = 1 .. Len(x) /\ Len(x) \in Nat /\ (x # <<>> => Len(x) \in DOMAIN x)
    BY <1>3
  <2>2. Values(x) = [k \in 1 .. Len(x) |-> x[k].value]
    BY <2>1 DEF Values
  <2>3. Len(Values(x)) = Len(x)
    BY <2>1, <2>2
  <2>. QED  BY <1>3, <2>1, <2>2, <2>3 DEF Last
<1>5. FoldLeft(Onto, <<>>, w) = OnceOf(w)
  BY DEF OnceOf, Onto, Once, FoldLeft, MapThenFoldSet
<1>6. InForce(b) = [root |-> IF Values(x) = <<>> THEN atOpening[b].root ELSE Last(Values(x)),
                    index |-> FoldLeft(Onto, <<>>, w)]
  BY DEF InForce, x, y, w
<1>7. /\ FirstLevel(blocks, b, Len(items), "root") = x
      /\ FirstLevel(blocks, b, Len(items), "index") = y
  BY <1>2 DEF FirstLevel, x, y
<1>. QED  BY <1>4, <1>5, <1>6, <1>7 DEF ForceAt, Forced, w

\* A closed block stays as it was, and what is around it holds still.
LEMMA ClosedKept ==
    ASSUME TextInv, Grows(blocks, atOpening, blocks', atOpening'),
           NEW b \in DOMAIN blocks, ~ \E k \in 1 .. Len(opened) : opened[k] = b,
           blocks'[b].parent = blocks[b].parent, blocks'[b].index = blocks[b].index
    PROVE  /\ blocks'[b].parent \in 1 .. (b - 1)
           /\ blocks'[b].index \in 0 .. Len(blocks'[blocks'[b].parent].items)
           /\ atOpening'[b] = ForceAt(blocks', atOpening', blocks'[b].parent, blocks'[b].index)
<1>. DEFINE p == blocks[b].parent
            i == blocks[b].index
<1>1. /\ p \in 1 .. (b - 1) /\ i \in 0 .. Len(blocks[p].items)
      /\ atOpening[b] = ForceAt(blocks, atOpening, p, i)
  BY DEF TextInv, ClosedInv
<1>2. DOMAIN blocks = 1 .. Len(blocks) /\ Len(blocks) \in Nat
  BY TopIs
<1>3. p \in DOMAIN blocks
  BY <1>1, <1>2
<1>4. blocks' [b].parent = p /\ blocks'[b].index = i
  OBVIOUS
<1>. HIDE DEF p, i
<1>5. /\ Len(blocks[p].items) <= Len(blocks'[p].items) /\ atOpening'[b] = atOpening[b]
  BY <1>3 DEF Grows
<1>6. ForceAt(blocks', atOpening', p, i) = ForceAt(blocks, atOpening, p, i)
  BY <1>1, <1>3, ForceKept
<1>7. Len(blocks[p].items) \in Nat
  BY <1>3, BlockOf DEF TextInv
<1>8. i \in 0 .. Len(blocks'[p].items)
  BY <1>1, <1>5, <1>7
<1>. QED  BY <1>1, <1>4, <1>5, <1>6, <1>8

LEMMA SimpleInv ==
    ASSUME TextInv, Simple
    PROVE  TextInv'
<1>1. PICK type \in {"root", "index"}, value \in Given :
         blocks' = [blocks EXCEPT ![Top].items = Append(@, [type |-> type, value |-> value])]
  BY DEF Simple
<1>2. opened' = opened /\ atOpening' = atOpening
  BY DEF Simple
<1>. DEFINE t    == Top
            item == [type |-> type, value |-> value]
            n    == Len(opened)
<1>3. item \in Item
  BY DEF Item
<1>4. /\ t = opened[n] /\ n \in Nat /\ n \in 1 .. n /\ t \in DOMAIN blocks
      /\ DOMAIN blocks = 1 .. Len(blocks) /\ Len(blocks) \in Nat
  BY TopIs
<1>5. /\ blocks \in Seq(Block) /\ blocks[t].items \in Seq(Item) /\ blocks[t] \in Block
  BY <1>4, BlockOf DEF TextInv
<1>. HIDE DEF t, item, n
<1>. DEFINE b2 == [blocks[t] EXCEPT !.items = Append(@, item)]
<1>6. /\ b2 \in Block /\ b2.items = Append(blocks[t].items, item)
      /\ b2.parent = blocks[t].parent /\ b2.index = blocks[t].index
  BY <1>3, <1>5, WithItem
<1>7. blocks' = [blocks EXCEPT ![t] = b2]
  BY <1>1 DEF item, t
<1>. HIDE DEF b2
<1>8. /\ blocks' \in Seq(Block) /\ DOMAIN blocks' = DOMAIN blocks /\ Len(blocks') = Len(blocks)
      /\ blocks'[t] = b2 /\ \A b \in DOMAIN blocks : b # t => blocks'[b] = blocks[b]
  BY <1>4, <1>5, <1>6, <1>7
<1>9. Grows(blocks, atOpening, blocks', atOpening')
  BY <1>2, <1>3, <1>4, <1>5, <1>6, <1>8, GrowsBy
<1>10. \A b \in DOMAIN blocks : /\ blocks'[b].parent = blocks[b].parent
                                /\ blocks'[b].index = blocks[b].index
  BY <1>6, <1>8
<1>11. OpenedInv'
  BY <1>2, <1>8, <1>10 DEF TextInv, OpenedInv
<1>12. ClosedInv'
  BY <1>2, <1>4, <1>8, <1>9, <1>10, ClosedKept DEF TextInv, ClosedInv
<1>13. KnownInv'
  <2>1. ASSUME NEW k \in 1 .. n, k > 1
        PROVE  atOpening'[opened'[k]] =
                 ForceAt(blocks', atOpening', opened'[k - 1], Len(blocks'[opened'[k - 1]].items))
    <3>1. /\ k - 1 \in 1 .. n /\ k - 1 < n
      BY <1>4, <2>1
    <3>2. opened[k - 1] \in DOMAIN blocks /\ opened[k - 1] # t /\ opened[k - 1] \in Nat
      BY <1>4, <3>1 DEF TextInv, OpenedInv, n
    <3>3. blocks'[opened[k - 1]] = blocks[opened[k - 1]]
      BY <1>8, <3>2
    <3>4. atOpening[opened[k]] =
              ForceAt(blocks, atOpening, opened[k - 1], Len(blocks[opened[k - 1]].items))
      BY <2>1 DEF TextInv, KnownInv, n
    <3>5. Len(blocks[opened[k - 1]].items) \in 0 .. Len(blocks[opened[k - 1]].items)
      BY <1>5, <3>2, BlockOf
    <3>. QED  BY <1>2, <1>9, <3>2, <3>3, <3>4, <3>5, ForceKept
  <2>2. atOpening'[1] = Nothing
    BY <1>2 DEF TextInv, KnownInv
  <2>. QED  BY <1>2, <2>1, <2>2 DEF KnownInv, n
<1>14. atOpening' \in Seq(ToSet(atOpening')) /\ Len(atOpening') = Len(blocks')
  BY <1>2, <1>8 DEF TextInv
<1>. QED  BY <1>8, <1>11, <1>12, <1>13, <1>14 DEF TextInv

LEMMA OpenBlockInv ==
    ASSUME TextInv, NEW kind \in Kinds, NEW match \in Matches \cup {<<>>}, Open(kind, match)
    PROVE  TextInv'
<1>. DEFINE n  == Len(opened)
            l  == Len(blocks)
            nb == NewBlock(kind, match)
            now == InForce(Top)
<1>1. blocks' = Append(blocks, nb) /\ opened' = Append(opened, Len(blocks'))
      /\ atOpening' = Append(atOpening, now)
  BY DEF Open
<1>2. nb \in Block /\ nb.parent = NoBlock
  <2>1. <<>> \in Seq(Item)
    OBVIOUS
  <2>. QED  BY <2>1 DEF NewBlock, Block, NoBlock
<1>3. /\ Top = opened[n] /\ n \in Nat /\ n \in 1 .. n /\ Top \in DOMAIN blocks
      /\ DOMAIN blocks = 1 .. l /\ l \in Nat
  BY TopIs
<1>. HIDE DEF nb, now
<1>4. /\ blocks \in Seq(Block) /\ opened \in Seq(Nat) /\ atOpening \in Seq(ToSet(atOpening))
      /\ Len(atOpening) = l /\ opened[1] = 1
      /\ \A k \in 1 .. n : opened[k] \in 1 .. l /\ blocks[opened[k]].parent = NoBlock
      /\ \A j, k \in 1 .. n : j < k => opened[j] < opened[k]
  BY <1>3 DEF TextInv, OpenedInv
<1>5. /\ blocks' \in Seq(Block) /\ Len(blocks') = l + 1 /\ DOMAIN blocks' = 1 .. (l + 1)
      /\ blocks'[l + 1] = nb /\ \A b \in 1 .. l : blocks'[b] = blocks[b]
  <2>. HIDE DEF l
  <2>. QED  BY <1>1, <1>2, <1>4, AppendOf DEF l
<1>6. /\ opened' \in Seq(Nat) /\ Len(opened') = n + 1 /\ opened'[n + 1] = l + 1
      /\ \A k \in 1 .. n : opened'[k] = opened[k]
  <2>. HIDE DEF n, l
  <2>1. l + 1 \in Nat /\ opened' = Append(opened, l + 1)
    BY <1>1, <1>3, <1>5
  <2>. QED  BY <1>4, <2>1, AppendOf DEF n
<1>7. /\ Len(atOpening') = l + 1 /\ atOpening' \in Seq(ToSet(atOpening'))
      /\ atOpening'[l + 1] = now /\ \A b \in 1 .. l : atOpening'[b] = atOpening[b]
  <2>. DEFINE S == ToSet(atOpening) \cup {now}
              at == Append(atOpening, now)
  <2>1. atOpening \in Seq(S) /\ now \in S
    <3>1. ToSet(atOpening) \subseteq S
      OBVIOUS
    <3>. HIDE DEF S, l
    <3>2. \A k \in 1 .. Len(atOpening) : atOpening[k] \in S
      BY <1>4, <3>1
    <3>3. now \in S
      BY DEF S
    <3>. QED  BY <1>4, <3>2, <3>3
  <2>. HIDE DEF S, l
  <2>2. /\ at \in Seq(S) /\ Len(at) = l + 1 /\ at[l + 1] = now
        /\ \A b \in 1 .. l : at[b] = atOpening[b]
    BY <1>4, <2>1, AppendOf
  <2>. HIDE DEF at
  <2>3. at \in Seq(ToSet(at))
    BY <2>2 DEF ToSet
  <2>. QED  BY <1>1, <2>2, <2>3 DEF at
<1>8. ASSUME NEW b \in 1 .. l
      PROVE  /\ blocks[b].items \in Seq(Item) /\ Len(blocks[b].items) \in Nat
             /\ Len(blocks[b].items) \in 0 .. Len(blocks[b].items)
  BY <1>3, <1>4, BlockOf
<1>. HIDE DEF n, l
<1>9. Grows(blocks, atOpening, blocks', atOpening')
  <2>1. ASSUME NEW b \in 1 .. l
        PROVE  b \in 1 .. (l + 1) /\ Len(blocks[b].items) <= Len(blocks[b].items)
    BY <1>3, <1>8
  <2>. QED  BY <1>3, <1>5, <1>7, <2>1 DEF Grows
<1>10. \A k \in 1 .. (n + 1) : k = n + 1 \/ k \in 1 .. n
  BY <1>3
<1>11. OpenedInv'
  <2>1. \A k \in 1 .. (n + 1) : opened'[k] \in 1 .. (l + 1)
                                /\ blocks'[opened'[k]].parent = NoBlock
    <3>1. \A k \in 1 .. n : opened[k] \in 1 .. (l + 1)
      BY <1>3, <1>4
    <3>2. l + 1 \in 1 .. (l + 1)
      BY <1>3
    <3>. QED  BY <1>2, <1>4, <1>5, <1>6, <1>10, <3>1, <3>2
  <2>2. ASSUME NEW j \in 1 .. (n + 1), NEW k \in 1 .. (n + 1), j < k
        PROVE  opened'[j] < opened'[k]
    <3>1. j \in 1 .. n /\ j < n + 1
      BY <1>3, <2>2
    <3>2. CASE k = n + 1
      BY <1>3, <1>4, <1>6, <3>1, <3>2
    <3>3. CASE k \in 1 .. n
      BY <1>4, <1>6, <2>2, <3>1, <3>3
    <3>. QED  BY <1>10, <3>2, <3>3
  <2>3. Len(opened') > 0 /\ opened'[1] = 1
    BY <1>3, <1>4, <1>6
  <2>. QED  BY <1>5, <1>6, <2>1, <2>2, <2>3 DEF OpenedInv
<1>12. ASSUME NEW b \in 1 .. (l + 1), ~ \E k \in 1 .. (n + 1) : opened'[k] = b
       PROVE  /\ blocks'[b].parent \in 1 .. (b - 1)
              /\ blocks'[b].index \in 0 .. Len(blocks'[blocks'[b].parent].items)
              /\ atOpening'[b] = ForceAt(blocks', atOpening', blocks'[b].parent, blocks'[b].index)
  <2>1. b # l + 1
    <3>1. n + 1 \in 1 .. (n + 1)
      BY <1>3
    <3>. QED  BY <1>6, <1>12, <3>1
  <2>2. b \in 1 .. l
    BY <1>3, <2>1
  <2>3. ~ \E k \in 1 .. n : opened[k] = b
    <3>1. \A k \in 1 .. n : k \in 1 .. (n + 1)
      BY <1>3
    <3>. QED  BY <1>6, <1>12, <3>1
  <2>4. blocks'[b].parent = blocks[b].parent /\ blocks'[b].index = blocks[b].index
    BY <1>5, <2>2
  <2>. QED  BY <1>3, <1>9, <2>2, <2>3, <2>4, ClosedKept DEF n
<1>13. ClosedInv'
  BY <1>5, <1>6, <1>12 DEF ClosedInv
<1>14. ASSUME NEW k \in 1 .. (n + 1), k > 1
       PROVE  atOpening'[opened'[k]] =
                 ForceAt(blocks', atOpening', opened'[k - 1], Len(blocks'[opened'[k - 1]].items))
  <2>. DEFINE o == opened[k - 1]
  <2>1. /\ k - 1 \in 1 .. n /\ opened'[k - 1] = o /\ o \in 1 .. l /\ blocks'[o] = blocks[o]
    <3>1. k - 1 \in 1 .. n
      BY <1>3, <1>14
    <3>. QED  BY <1>4, <1>5, <1>6, <3>1
  <2>2. atOpening'[opened'[k]] = ForceAt(blocks, atOpening, o, Len(blocks[o].items))
    <3>1. CASE k = n + 1
      <4>1. o = Top
        BY <1>3, <3>1
      <4>2. now = ForceAt(blocks, atOpening, Top, Len(blocks[Top].items))
        BY <1>3, InForceIs DEF now
      <4>. QED  BY <1>6, <1>7, <3>1, <4>1, <4>2
    <3>2. CASE k \in 1 .. n
      <4>1. atOpening[opened[k]] = ForceAt(blocks, atOpening, o, Len(blocks[o].items))
        BY <1>14, <3>2 DEF TextInv, KnownInv, n
      <4>2. opened'[k] = opened[k] /\ opened[k] \in 1 .. l
        BY <1>4, <1>6, <3>2
      <4>. QED  BY <1>7, <4>1, <4>2
    <3>. QED  BY <1>10, <3>1, <3>2
  <2>. HIDE DEF o
  <2>3. ForceAt(blocks', atOpening', o, Len(blocks[o].items))
           = ForceAt(blocks, atOpening, o, Len(blocks[o].items))
    BY <1>3, <1>8, <1>9, <2>1, ForceKept
  <2>. QED  BY <2>1, <2>2, <2>3
<1>15. KnownInv'
  <2>1. 1 \in 1 .. l
    BY <1>3, TopIs DEF n
  <2>2. atOpening'[1] = Nothing
    BY <1>7, <2>1 DEF TextInv, KnownInv
  <2>. QED  BY <1>6, <1>14, <2>2 DEF KnownInv
<1>. QED  BY <1>5, <1>7, <1>11, <1>13, <1>15 DEF TextInv

LEMMA FrontOf ==
    ASSUME NEW S, NEW s \in Seq(S), Len(s) > 1
    PROVE  /\ Front(s) \in Seq(S) /\ Len(Front(s)) = Len(s) - 1
           /\ \A k \in 1 .. (Len(s) - 1) : Front(s)[k] = s[k]
           /\ Last(Front(s)) = s[Len(s) - 1]
<1>1. Front(s) = [k \in 1 .. (Len(s) - 1) |-> s[k]] /\ Len(s) \in Nat
  BY DEF Front
<1>2. Len(Front(s)) = Len(s) - 1 /\ Front(s) \in Seq(S)
  BY <1>1
<1>. QED  BY <1>1, <1>2 DEF Last

LEMMA CloseInv ==
    ASSUME TextInv, Close
    PROVE  TextInv'
<1>. DEFINE n == Len(opened)
            t == Top
            q == opened[n - 1]
            i == Len(blocks[q].items)
            item == [type |-> blocks[t].kind, value |-> t]
            bq == [blocks[q] EXCEPT !.items = Append(@, item)]
            bt == [blocks[t] EXCEPT !.parent = q, !.index = i]
<1>1. n > 1 /\ opened' = Front(opened) /\ blocks' = AddBlock(Last(opened'), t)
      /\ atOpening' = atOpening
  BY DEF Close
<1>2. /\ t = opened[n] /\ n \in Nat /\ n \in 1 .. n /\ t \in DOMAIN blocks /\ t \in Nat
      /\ DOMAIN blocks = 1 .. Len(blocks) /\ Len(blocks) \in Nat
  BY TopIs
<1>3. /\ blocks \in Seq(Block) /\ opened \in Seq(Nat) /\ opened[1] = 1
      /\ \A k \in 1 .. n : opened[k] \in DOMAIN blocks /\ blocks[opened[k]].parent = NoBlock
      /\ \A j, k \in 1 .. n : j < k => opened[j] < opened[k]
  BY DEF TextInv, OpenedInv
<1>4. n - 1 \in 1 .. n /\ n - 1 < n
  BY <1>1, <1>2
<1>5. q \in DOMAIN blocks /\ q < t /\ q \in Nat /\ q # t /\ q \in 1 .. (t - 1)
  <2>1. q \in DOMAIN blocks /\ q < t
    BY <1>2, <1>3, <1>4
  <2>. HIDE DEF q, t
  <2>. QED  BY <1>2, <2>1
<1>6. /\ opened' \in Seq(Nat) /\ Len(opened') = n - 1 /\ Last(opened') = q
      /\ \A k \in 1 .. (n - 1) : opened'[k] = opened[k]
  BY <1>1, <1>3, FrontOf
<1>. HIDE DEF t, q, n
<1>7. /\ blocks[q] \in Block /\ i \in Nat /\ blocks[t] \in Block
  BY <1>2, <1>3, <1>5, BlockOf
<1>8. item \in Item
  <2>1. blocks[t].kind \in Kinds
    BY <1>7 DEF Block
  <2>. QED  BY <1>2, <2>1 DEF Item
<1>. HIDE DEF i, item
<1>9. /\ bq \in Block /\ bq.items = Append(blocks[q].items, item)
      /\ bq.parent = blocks[q].parent /\ bq.index = blocks[q].index
  BY <1>7, <1>8, WithItem
<1>10. bt \in Block /\ bt.items = blocks[t].items /\ bt.parent = q /\ bt.index = i
  <2>1. ASSUME NEW b \in Block
        PROVE  LET b2 == [b EXCEPT !.parent = q, !.index = i]
               IN  b2 \in Block /\ b2.items = b.items /\ b2.parent = q /\ b2.index = i
    BY <1>5, <1>7 DEF Block
  <2>. QED  BY <1>7, <2>1
<1>11. blocks' = [blocks EXCEPT ![q] = bq, ![t] = bt]
  <2>1. blocks' = [blocks EXCEPT ![q].items = Append(@, item), ![t].parent = q, ![t].index = i]
    BY <1>1, <1>6 DEF AddBlock, item, i
  <2>. QED  BY <1>2, <1>3, <1>5, <2>1
<1>. HIDE DEF bq, bt
<1>12. /\ blocks' \in Seq(Block) /\ DOMAIN blocks' = DOMAIN blocks /\ Len(blocks') = Len(blocks)
       /\ blocks'[q] = bq /\ blocks'[t] = bt
       /\ \A b \in DOMAIN blocks : b # q /\ b # t => blocks'[b] = blocks[b]
  BY <1>2, <1>3, <1>5, <1>9, <1>10, <1>11
<1>13. Grows(blocks, atOpening, blocks', atOpening')
  <2>1. \A b \in DOMAIN blocks : b # q => blocks'[b].items = blocks[b].items
    BY <1>10, <1>12
  <2>. QED  BY <1>1, <1>3, <1>5, <1>8, <1>9, <1>12, <2>1, GrowsBy
<1>14. \A k \in 1 .. (n - 1) : k \in 1 .. n /\ k < n /\ opened[k] # t
  <2>1. ASSUME NEW k \in 1 .. (n - 1)  PROVE k \in 1 .. n /\ k < n
    BY <1>2
  <2>2. ASSUME NEW k \in 1 .. (n - 1)  PROVE opened[k] < t /\ opened[k] \in Nat
    BY <1>2, <1>3, <2>1
  <2>3. ASSUME NEW k \in 1 .. (n - 1)  PROVE opened[k] # t
    BY <1>2, <2>2
  <2>. QED  BY <2>1, <2>3
<1>15. OpenedInv'
  <2>1. \A k \in 1 .. (n - 1) : opened'[k] \in DOMAIN blocks'
                                /\ blocks'[opened'[k]].parent = NoBlock
    <3>1. ASSUME NEW k \in 1 .. (n - 1)
          PROVE  opened'[k] \in DOMAIN blocks' /\ blocks'[opened'[k]].parent = NoBlock
      <4>1. /\ opened'[k] = opened[k] /\ opened[k] \in DOMAIN blocks /\ opened[k] # t
            /\ blocks[opened[k]].parent = NoBlock
        BY <1>3, <1>6, <1>14
      <4>2. CASE opened[k] = q
        BY <1>9, <1>12, <4>1, <4>2
      <4>3. CASE opened[k] # q
        BY <1>12, <4>1, <4>3
      <4>. QED  BY <4>2, <4>3
    <3>. QED  BY <3>1
  <2>2. n - 1 > 0 /\ opened'[1] = 1
    BY <1>1, <1>2, <1>3, <1>6
  <2>3. \A j, k \in 1 .. (n - 1) : j < k => opened'[j] < opened'[k]
    BY <1>3, <1>6, <1>14
  <2>. QED  BY <1>6, <2>1, <2>2, <2>3 DEF OpenedInv
<1>16. atOpening[t] = ForceAt(blocks, atOpening, q, i)
  BY <1>1, <1>2 DEF TextInv, KnownInv, n, q, t, i
<1>17. ASSUME NEW b \in DOMAIN blocks, ~ \E k \in 1 .. (n - 1) : opened'[k] = b
       PROVE  /\ blocks'[b].parent \in 1 .. (b - 1)
              /\ blocks'[b].index \in 0 .. Len(blocks'[blocks'[b].parent].items)
              /\ atOpening'[b] = ForceAt(blocks', atOpening', blocks'[b].parent, blocks'[b].index)
  <2>1. CASE b = t
    <3>1. i \in 0 .. i /\ i \in 0 .. Len(blocks[q].items)
      BY <1>7 DEF i
    <3>2. i \in 0 .. Len(blocks'[q].items)
      <4>1. Len(blocks'[q].items) \in Nat
        BY <1>5, <1>12, BlockOf
      <4>2. i <= Len(blocks'[q].items)
        BY <1>5, <1>13 DEF Grows, i
      <4>. QED  BY <1>7, <4>1, <4>2
    <3>3. ForceAt(blocks', atOpening', q, i) = ForceAt(blocks, atOpening, q, i)
      BY <1>5, <1>13, <3>1, ForceKept
    <3>. QED  BY <1>1, <1>5, <1>10, <1>12, <1>16, <2>1, <3>2, <3>3
  <2>2. CASE b # t
    <3>1. ~ \E k \in 1 .. n : opened[k] = b
      <4>1. ASSUME NEW k \in 1 .. n, opened[k] = b  PROVE FALSE
        <5>1. k # n
          BY <1>2, <2>2, <4>1
        <5>2. k \in 1 .. (n - 1)
          BY <1>2, <5>1
        <5>. QED  BY <1>6, <1>17, <4>1, <5>2
      <4>. QED  BY <4>1
    <3>2. blocks'[b].parent = blocks[b].parent /\ blocks'[b].index = blocks[b].index
      BY <1>9, <1>12, <2>2
    <3>. QED  BY <1>13, <3>1, <3>2, ClosedKept DEF n
  <2>. QED  BY <2>1, <2>2
<1>18. ClosedInv'
  BY <1>6, <1>12, <1>17 DEF ClosedInv
<1>19. ASSUME NEW k \in 1 .. (n - 1), k > 1
       PROVE  atOpening'[opened'[k]] =
                 ForceAt(blocks', atOpening', opened'[k - 1], Len(blocks'[opened'[k - 1]].items))
  <2>. DEFINE o == opened[k - 1]
              j == Len(blocks[o].items)
  <2>1. k - 1 \in 1 .. (n - 1) /\ k \in 1 .. n /\ k - 1 < n - 1
    BY <1>2, <1>19
  <2>2. o \in DOMAIN blocks /\ o # t /\ o # q
    <3>1. o < q /\ q \in Nat
      BY <1>3, <1>4, <1>5, <1>14, <2>1 DEF q
    <3>. HIDE DEF o
    <3>2. o # q
      BY <1>5, <3>1
    <3>. QED  BY <1>3, <1>14, <2>1, <3>2 DEF o
  <2>3. atOpening[opened[k]] = ForceAt(blocks, atOpening, o, j)
    BY <1>19, <2>1 DEF TextInv, KnownInv, n
  <2>4. opened'[k] = opened[k] /\ opened'[k - 1] = o
    BY <1>6, <2>1
  <2>. HIDE DEF o
  <2>5. j \in 0 .. j
    BY <1>3, <2>2, BlockOf
  <2>6. ForceAt(blocks', atOpening', o, j) = ForceAt(blocks, atOpening, o, j)
    BY <1>13, <2>2, <2>5, ForceKept
  <2>7. blocks'[o] = blocks[o]
    BY <1>12, <2>2
  <2>. QED  BY <1>1, <2>3, <2>4, <2>6, <2>7
<1>20. KnownInv'
  BY <1>1, <1>6, <1>19 DEF TextInv, KnownInv
<1>21. atOpening' \in Seq(ToSet(atOpening')) /\ Len(atOpening') = Len(blocks')
  BY <1>1, <1>12 DEF TextInv
<1>. QED  BY <1>12, <1>15, <1>18, <1>20, <1>21 DEF TextInv

LEMMA NextTextInv == TextInv /\ [NextText]_text => TextInv'
<1>. SUFFICES ASSUME TextInv, [NextText]_text  PROVE TextInv'
  OBVIOUS
<1>1. CASE Simple
  BY <1>1, SimpleInv
<1>2. CASE OpenServer
  BY <1>2, OpenBlockInv DEF OpenServer, Kinds
<1>3. CASE OpenLocation
  <2>1. PICK m \in Matches : Open("location", m)
    BY <1>3 DEF OpenLocation
  <2>. QED  BY <2>1, OpenBlockInv DEF Kinds
<1>4. CASE Close
  BY <1>4, CloseInv
<1>5. CASE UNCHANGED text
  BY <1>5 DEF text, TextInv, OpenedInv, ClosedInv, KnownInv
<1>. QED  BY <1>1, <1>2, <1>3, <1>4, <1>5 DEF NextText

\* In a whole file every block but the http block is in another.
LEMMA WholeFile ==
    ASSUME TextInv, Complete
    PROVE  Parsed(blocks) /\ Settled(blocks, atOpening)
<1>1. /\ DOMAIN blocks = 1 .. Len(blocks) /\ Len(blocks) \in Nat /\ blocks \in Seq(Block)
      /\ 1 \in DOMAIN blocks
  BY TopIs DEF TextInv, OpenedInv
<1>2. blocks \in Seq(ToSet(blocks))
  BY <1>1 DEF ToSet
<1>3. \A k \in 1 .. Len(opened) : opened[k] = 1
  BY DEF Complete
<1>4. ASSUME NEW b \in DOMAIN blocks
      PROVE  blocks[b].items \in Seq(ToSet(blocks[b].items))
  <2>1. blocks[b].items \in Seq(Item)
    BY <1>1, BlockOf
  <2>. QED  BY <2>1 DEF ToSet
<1>5. blocks[1].parent = NoBlock /\ atOpening[1] = Nothing
  BY TopIs DEF TextInv, OpenedInv, KnownInv
<1>6. ASSUME NEW b \in DOMAIN blocks, b # 1
      PROVE  /\ blocks[b].parent \in 1 .. (b - 1)
             /\ blocks[b].index \in 0 .. Len(blocks[blocks[b].parent].items)
             /\ atOpening[b] = ForceAt(blocks, atOpening, blocks[b].parent, blocks[b].index)
  BY <1>3, <1>6 DEF TextInv, ClosedInv
<1>7. \A b \in DOMAIN blocks : blocks[b].parent \in 0 .. (b - 1)
  <2>1. ASSUME NEW b \in DOMAIN blocks  PROVE blocks[b].parent \in 0 .. (b - 1)
    <3>1. CASE b = 1
      BY <1>5, <3>1 DEF NoBlock
    <3>2. CASE b # 1
      BY <1>1, <1>6, <3>2
    <3>. QED  BY <3>1, <3>2
  <2>. QED  BY <2>1
<1>8. Parsed(blocks)
  BY <1>2, <1>4, <1>5, <1>6, <1>7 DEF Parsed
<1>9. Settled(blocks, atOpening)
  <2>1. ASSUME NEW b \in DOMAIN blocks
        PROVE  atOpening[b] = IF blocks[b].parent = NoBlock THEN Nothing
                              ELSE ForceAt(blocks, atOpening, blocks[b].parent, blocks[b].index)
    <3>1. CASE b = 1
      BY <1>5, <3>1
    <3>2. CASE b # 1
      <4>1. blocks[b].parent # NoBlock
        BY <1>1, <1>6, <3>2 DEF NoBlock
      <4>. QED  BY <1>6, <3>2, <4>1
    <3>. QED  BY <3>1, <3>2
  <2>. QED  BY <2>1 DEF Settled
<1>. QED  BY <1>8, <1>9

LEMMA InvInForce == TextInv => DirectivesInForce
<1>. SUFFICES ASSUME TextInv, Complete, NEW b \in DOMAIN blocks
              PROVE  /\ Closest(blocks, b, "root") = InForce(b).root
                     /\ Collected(blocks, b, "index") = InForce(b).index
  BY DEF DirectivesInForce
<1>. DEFINE m == Len(blocks[b].items)
<1>1. Parsed(blocks) /\ Settled(blocks, atOpening)
  BY WholeFile
<1>2. m \in 0 .. m
  BY BlockOf DEF TextInv
<1>3. FoundAt(blocks, b, m) = InForce(b)
  BY <1>1, <1>2, FoundIsForced, InForceIs
<1>4. /\ LevelsAt(blocks, b, m, "root") = Levels(blocks, b, "root")
      /\ LevelsAt(blocks, b, m, "index") = Levels(blocks, b, "index")
  BY <1>1, LevelsWhole
<1>5. /\ Closest(blocks, b, "root") = Inner(Levels(blocks, b, "root"))
      /\ Collected(blocks, b, "index") = OnceOf(AllOf(Levels(blocks, b, "index")))
  BY QueriesOf
<1>. QED  BY <1>3, <1>4, <1>5 DEF FoundAt

\* planning.md:72-80: in every file the root and the index files that the queries of
\* LocationQuery.cpp:164-232 find for a block are those in force at its end: what was in
\* force where it was opened, and the directives in it.
THEOREM DirectivesInForceAlways == SpecText => []DirectivesInForce
<1>. QED  BY InitTextInv, NextTextInv, InvInForce, PTL DEF SpecText

-------------------------------------------------------------------------------
(* How the blocks of a file lie in each other                                  *)

Closed(bs, op, b) == b \in DOMAIN bs /\ ~ \E k \in 1 .. Len(op) : op[k] = b
Child(d)          == d.type = "location"
Below(bs, b, p) ==
    IF bs[b].kind = "server" THEN bs[p].kind = "http"
    ELSE bs[b].kind = "location" /\ bs[p].kind # "http"

\* Servers are in the http block, locations in servers and in locations.
KindsFit(bs, op) ==
    /\ \A b \in DOMAIN bs : bs[b].kind = "http" <=> b = 1
    /\ \A k \in 1 .. Len(op) : k > 1 => Below(bs, op[k], op[k - 1])
    /\ \A b : Closed(bs, op, b) => Below(bs, b, bs[b].parent)

\* The locations among the directives of a block are those that have it as their parent, in
\* the order of their opening.
ChildOf(bs, op, p, c) ==
    Closed(bs, op, c) /\ bs[c].parent = p /\ bs[c].kind = "location"
ChildrenFit(bs, op) ==
    /\ \A p \in DOMAIN bs : \A i \in 1 .. Len(bs[p].items) :
          Child(bs[p].items[i]) => ChildOf(bs, op, p, bs[p].items[i].value)
    /\ \A p \in DOMAIN bs : \A i, j \in 1 .. Len(bs[p].items) :
          i < j /\ Child(bs[p].items[i]) /\ Child(bs[p].items[j])
             => bs[p].items[i].value < bs[p].items[j].value
    /\ \A p, c : ChildOf(bs, op, p, c) =>
          \E i \in 1 .. Len(bs[p].items) : Child(bs[p].items[i]) /\ bs[p].items[i].value = c

\* What was opened behind a block and before its end is inside it.
NestedFit(bs, op) ==
    /\ \A d : Closed(bs, op, d) =>
          \A k \in 1 .. Len(op) : op[k] < d => op[k] <= bs[d].parent
    /\ \A b, d : Closed(bs, op, b) /\ Closed(bs, op, d) /\ bs[b].parent < d /\ d < b
          => bs[b].parent <= bs[d].parent

Nested(bs, op) == KindsFit(bs, op) /\ ChildrenFit(bs, op) /\ NestedFit(bs, op)
TreeInv        == Nested(blocks, opened)

LEMMA InitTreeInv == InitText => TreeInv
<1>. SUFFICES ASSUME InitText  PROVE TreeInv
  OBVIOUS
<1>1. /\ blocks = <<NewBlock("http", <<>>)>> /\ opened = <<1>>
  BY DEF InitText
<1>2. /\ DOMAIN blocks = {1} /\ blocks[1].kind = "http" /\ blocks[1].items = <<>>
      /\ Len(opened) = 1 /\ opened[1] = 1
  BY <1>1 DEF NewBlock
<1>3. \A b : ~ Closed(blocks, opened, b)
  BY <1>2 DEF Closed
<1>4. 1 .. Len(blocks[1].items) = {}
  BY <1>2
<1>5. KindsFit(blocks, opened)
  BY <1>2, <1>3 DEF KindsFit
<1>6. ChildrenFit(blocks, opened)
  BY <1>2, <1>3, <1>4 DEF ChildrenFit, ChildOf
<1>7. NestedFit(blocks, opened)
  BY <1>3 DEF NestedFit
<1>. QED  BY <1>5, <1>6, <1>7 DEF TreeInv, Nested

\* A block that is closed is behind its parent.
LEMMA ClosedBehind ==
    ASSUME TextInv, NEW b, Closed(blocks, opened, b)
    PROVE  /\ b \in Nat /\ b \in DOMAIN blocks /\ b # 1
           /\ blocks[b].parent \in Nat /\ blocks[b].parent \in DOMAIN blocks
           /\ blocks[b].parent < b
<1>1. /\ DOMAIN blocks = 1 .. Len(blocks) /\ Len(blocks) \in Nat /\ 1 \in 1 .. Len(opened)
  BY TopIs
<1>2. b \in DOMAIN blocks /\ ~ \E k \in 1 .. Len(opened) : opened[k] = b
  BY DEF Closed
<1>3. blocks[b].parent \in 1 .. (b - 1)
  BY <1>2 DEF TextInv, ClosedInv
<1>4. b # 1
  BY <1>1, <1>2 DEF TextInv, OpenedInv
<1>. QED  BY <1>1, <1>2, <1>3, <1>4

\* The blocks of two texts have the same places in each other.
Alike(bs, bs2) ==
    /\ DOMAIN bs2 = DOMAIN bs
    /\ \A b \in DOMAIN bs : bs2[b].kind = bs[b].kind /\ bs2[b].parent = bs[b].parent

\* A directive that is no block.
LEMMA SimpleTree ==
    ASSUME TextInv, TreeInv, Simple
    PROVE  TreeInv'
<1>1. PICK type \in {"root", "index"}, value \in Given :
         blocks' = [blocks EXCEPT ![Top].items = Append(@, [type |-> type, value |-> value])]
  BY DEF Simple
<1>. DEFINE t    == Top
            item == [type |-> type, value |-> value]
            bs   == blocks
            bs2  == blocks'
            op   == opened
            its  == bs[t].items
<1>2. /\ t \in DOMAIN bs /\ bs \in Seq(Block) /\ opened' = op
      /\ \A k \in 1 .. Len(op) : op[k] \in DOMAIN bs /\ (k > 1 => k - 1 \in 1 .. Len(op))
  BY TopIs DEF TextInv, OpenedInv, Simple
<1>3. ~Child(item) /\ item \in Item
  BY DEF Child, Item
<1>4. Nested(bs, op) /\ \A b : Closed(bs, op, b) => b \in DOMAIN bs /\ bs[b].parent \in DOMAIN bs
  BY ClosedBehind DEF TreeInv
<1>. HIDE DEF t, item
<1>5. /\ Alike(bs, bs2)
      /\ \A b \in DOMAIN bs : b # t => bs2[b].items = bs[b].items
      /\ bs2[t].items = Append(its, item)
  <2>1. bs2 = [bs EXCEPT ![t].items = Append(@, item)]
    BY <1>1 DEF t, item
  <2>2. \A b \in DOMAIN bs : bs[b] \in Block
    BY <1>2
  <2>. HIDE DEF bs2
  <2>. QED  BY <1>2, <2>1, <2>2 DEF Block, Alike
<1>6. its \in Seq(Item) /\ Len(its) \in Nat
  BY <1>2, BlockOf
<1>. HIDE DEF bs, bs2, op, its
<1>7. /\ Len(Append(its, item)) = Len(its) + 1
      /\ Append(its, item)[Len(its) + 1] = item
      /\ \A i \in 1 .. Len(its) : Append(its, item)[i] = its[i]
  BY <1>3, <1>6, AppendOf
<1>8. \A b : Closed(bs2, op, b) <=> Closed(bs, op, b)
  BY <1>5 DEF Closed, Alike
<1>9. \A p, c : ChildOf(bs2, op, p, c) <=> ChildOf(bs, op, p, c)
  BY <1>4, <1>5, <1>8 DEF ChildOf, Alike
<1>10. ASSUME NEW p \in DOMAIN bs, NEW i \in 1 .. Len(bs2[p].items), Child(bs2[p].items[i])
       PROVE  i \in 1 .. Len(bs[p].items) /\ bs2[p].items[i] = bs[p].items[i]
  <2>1. CASE p = t
    <3>1. i # Len(its) + 1
      BY <1>3, <1>5, <1>7, <1>10, <2>1
    <3>2. i \in 1 .. Len(its)
      BY <1>5, <1>6, <1>7, <2>1, <3>1
    <3>. QED  BY <1>5, <1>7, <2>1, <3>2 DEF its
  <2>2. CASE p # t
    BY <1>5, <2>2
  <2>. QED  BY <2>1, <2>2
<1>11. ASSUME NEW p \in DOMAIN bs, NEW i \in 1 .. Len(bs[p].items)
       PROVE  i \in 1 .. Len(bs2[p].items) /\ bs2[p].items[i] = bs[p].items[i]
  <2>1. CASE p = t
    BY <1>5, <1>6, <1>7, <2>1 DEF its
  <2>2. CASE p # t
    BY <1>5, <2>2
  <2>. QED  BY <2>1, <2>2
<1>12. KindsFit(bs2, op)
  <2>1. \A b, p \in DOMAIN bs : Below(bs2, b, p) <=> Below(bs, b, p)
    BY <1>5 DEF Below, Alike
  <2>. QED  BY <1>2, <1>4, <1>5, <1>8, <2>1 DEF Nested, KindsFit, Alike
<1>13. ChildrenFit(bs2, op)
  <2>1. ASSUME NEW p \in DOMAIN bs, NEW i \in 1 .. Len(bs2[p].items), Child(bs2[p].items[i])
        PROVE  ChildOf(bs2, op, p, bs2[p].items[i].value)
    BY <1>4, <1>9, <1>10, <2>1 DEF Nested, ChildrenFit
  <2>2. ASSUME NEW p \in DOMAIN bs, NEW i \in 1 .. Len(bs2[p].items),
               NEW j \in 1 .. Len(bs2[p].items), i < j,
               Child(bs2[p].items[i]), Child(bs2[p].items[j])
        PROVE  bs2[p].items[i].value < bs2[p].items[j].value
    BY <1>4, <1>10, <2>2 DEF Nested, ChildrenFit
  <2>3. ASSUME NEW p, NEW c, ChildOf(bs2, op, p, c)
        PROVE  \E i \in 1 .. Len(bs2[p].items) : Child(bs2[p].items[i]) /\ bs2[p].items[i].value = c
    <3>1. p \in DOMAIN bs /\ ChildOf(bs, op, p, c)
      BY <1>4, <1>9, <2>3 DEF ChildOf
    <3>2. PICK i \in 1 .. Len(bs[p].items) : Child(bs[p].items[i]) /\ bs[p].items[i].value = c
      BY <1>4, <3>1 DEF Nested, ChildrenFit
    <3>. QED  BY <1>11, <3>1, <3>2
  <2>4. DOMAIN bs2 = DOMAIN bs
    BY <1>5 DEF Alike
  <2>. QED  BY <2>1, <2>2, <2>3, <2>4 DEF ChildrenFit
<1>14. NestedFit(bs2, op)
  BY <1>4, <1>5, <1>8 DEF Nested, NestedFit, Alike
<1>15. Nested(bs2, op)
  BY <1>12, <1>13, <1>14 DEF Nested
<1>. QED  BY <1>2, <1>15 DEF TreeInv, bs2, op

\* A block that begins.
LEMMA OpenTree ==
    ASSUME TextInv, TreeInv, NEW kind \in Kinds, NEW match \in Matches \cup {<<>>},
           Open(kind, match),
           IF kind = "server" THEN blocks[Top].kind = "http"
           ELSE kind = "location" /\ blocks[Top].kind # "http"
    PROVE  TreeInv'
<1>. DEFINE nb  == NewBlock(kind, match)
            bs  == blocks
            bs2 == blocks'
            op  == opened
            op2 == opened'
            n   == Len(opened)
            l   == Len(blocks)
<1>1. bs2 = Append(bs, nb) /\ op2 = Append(op, Len(bs2))
  BY DEF Open
<1>2. nb \in Block /\ nb.kind = kind /\ nb.items = <<>>
  <2>1. <<>> \in Seq(Item)
    OBVIOUS
  <2>. QED  BY <2>1 DEF NewBlock, Block, NoBlock
<1>3. /\ bs \in Seq(Block) /\ op \in Seq(Nat) /\ n \in Nat /\ n \in 1 .. n /\ l \in Nat
      /\ DOMAIN bs = 1 .. l /\ Top = op[n] /\ 1 \in 1 .. l
      /\ \A k \in 1 .. n : op[k] \in 1 .. l /\ (k > 1 => k - 1 \in 1 .. n)
  BY TopIs DEF TextInv, OpenedInv
<1>4. /\ Nested(bs, op)
      /\ \A b : Closed(bs, op, b) => b \in 1 .. l /\ bs[b].parent \in 1 .. l
  BY <1>3, ClosedBehind DEF TreeInv
<1>5. IF kind = "server" THEN bs[op[n]].kind = "http"
      ELSE kind = "location" /\ bs[op[n]].kind # "http"
  BY <1>3
<1>. HIDE DEF nb, bs, bs2, op, op2
<1>6. /\ Len(bs2) = l + 1 /\ DOMAIN bs2 = 1 .. (l + 1) /\ bs2[l + 1] = nb
      /\ \A b \in 1 .. l : bs2[b] = bs[b]
  <2>. HIDE DEF l
  <2>. QED  BY <1>1, <1>2, <1>3, AppendOf DEF l, bs
<1>7. /\ Len(op2) = n + 1 /\ op2[n + 1] = l + 1 /\ \A k \in 1 .. n : op2[k] = op[k]
  <2>. HIDE DEF n, l
  <2>1. l + 1 \in Nat /\ op2 = Append(op, l + 1)
    BY <1>1, <1>3, <1>6
  <2>. QED  BY <1>3, <2>1, AppendOf DEF n, op
<1>8. Len(op) = n
  BY DEF op
<1>. HIDE DEF n, l
<1>9. /\ \A k \in 1 .. (n + 1) : k = n + 1 \/ k \in 1 .. n
      /\ \A k \in 1 .. n : k \in 1 .. (n + 1)
      /\ \A b \in 1 .. (l + 1) : b = l + 1 \/ b \in 1 .. l
      /\ \A b \in 1 .. l : b \in 1 .. (l + 1) /\ b # l + 1 /\ b < l + 1
      /\ n + 1 \in 1 .. (n + 1) /\ l + 1 \in 1 .. (l + 1) /\ l + 1 # 1
  BY <1>3
<1>10. \A b : Closed(bs2, op2, b) <=> Closed(bs, op, b)
  <2>1. ASSUME NEW b, Closed(bs2, op2, b)  PROVE Closed(bs, op, b)
    BY <1>3, <1>6, <1>7, <1>8, <1>9, <2>1 DEF Closed
  <2>2. ASSUME NEW b, Closed(bs, op, b)  PROVE Closed(bs2, op2, b)
    BY <1>3, <1>6, <1>7, <1>8, <1>9, <2>2 DEF Closed
  <2>. QED  BY <2>1, <2>2
<1>11. \A p, c : ChildOf(bs2, op2, p, c) <=> ChildOf(bs, op, p, c)
  BY <1>4, <1>6, <1>10 DEF ChildOf
<1>12. KindsFit(bs2, op2)
  <2>1. \A b, p \in 1 .. l : Below(bs2, b, p) <=> Below(bs, b, p)
    BY <1>6 DEF Below
  <2>2. Below(bs2, l + 1, op[n])
    BY <1>2, <1>3, <1>5, <1>6 DEF Below
  <2>3. \A b \in 1 .. (l + 1) : bs2[b].kind = "http" <=> b = 1
    BY <1>2, <1>3, <1>4, <1>5, <1>6, <1>9 DEF Nested, KindsFit
  <2>4. ASSUME NEW k \in 1 .. (n + 1), k > 1  PROVE Below(bs2, op2[k], op2[k - 1])
    <3>1. CASE k = n + 1
      <4>1. k - 1 = n
        BY <1>3, <3>1
      <4>. QED  BY <1>3, <1>7, <2>2, <3>1, <4>1
    <3>2. CASE k \in 1 .. n
      BY <1>3, <1>4, <1>7, <1>8, <2>1, <2>4, <3>2 DEF Nested, KindsFit
    <3>. QED  BY <1>9, <3>1, <3>2
  <2>5. \A b : Closed(bs2, op2, b) => Below(bs2, b, bs2[b].parent)
    BY <1>4, <1>6, <1>10, <2>1 DEF Nested, KindsFit
  <2>. QED  BY <1>6, <1>7, <2>3, <2>4, <2>5 DEF KindsFit
<1>13. ChildrenFit(bs2, op2)
  <2>1. ASSUME NEW p \in 1 .. (l + 1), NEW i \in 1 .. Len(bs2[p].items)
        PROVE  p \in 1 .. l /\ bs2[p].items = bs[p].items
    <3>1. p # l + 1
      BY <1>2, <1>6, <2>1
    <3>. QED  BY <1>6, <1>9, <3>1
  <2>2. ASSUME NEW p, NEW c, ChildOf(bs, op, p, c)  PROVE p \in 1 .. l /\ bs2[p].items = bs[p].items
    BY <1>4, <1>6, <2>2 DEF ChildOf
  <2>3. ASSUME NEW p \in 1 .. (l + 1), NEW i \in 1 .. Len(bs2[p].items), Child(bs2[p].items[i])
        PROVE  ChildOf(bs2, op2, p, bs2[p].items[i].value)
    BY <1>3, <1>4, <1>11, <2>1, <2>3 DEF Nested, ChildrenFit
  <2>4. ASSUME NEW p \in 1 .. (l + 1), NEW i \in 1 .. Len(bs2[p].items),
               NEW j \in 1 .. Len(bs2[p].items), i < j,
               Child(bs2[p].items[i]), Child(bs2[p].items[j])
        PROVE  bs2[p].items[i].value < bs2[p].items[j].value
    BY <1>3, <1>4, <2>1, <2>4 DEF Nested, ChildrenFit
  <2>5. ASSUME NEW p, NEW c, ChildOf(bs2, op2, p, c)
        PROVE  \E i \in 1 .. Len(bs2[p].items) : Child(bs2[p].items[i]) /\ bs2[p].items[i].value = c
    <3>1. ChildOf(bs, op, p, c)
      BY <1>11, <2>5
    <3>2. p \in 1 .. l /\ bs2[p].items = bs[p].items
      BY <2>2, <3>1
    <3>. QED  BY <1>3, <1>4, <3>1, <3>2 DEF Nested, ChildrenFit
  <2>. QED  BY <1>6, <2>3, <2>4, <2>5 DEF ChildrenFit
<1>14. NestedFit(bs2, op2)
  <2>1. ASSUME NEW d, Closed(bs, op, d), NEW k \in 1 .. (n + 1), op2[k] < d
        PROVE  op2[k] <= bs2[d].parent
    <3>1. d \in 1 .. l /\ bs2[d].parent = bs[d].parent
      BY <1>4, <1>6, <2>1
    <3>2. k # n + 1
      BY <1>3, <1>7, <2>1, <3>1
    <3>. QED  BY <1>4, <1>7, <1>8, <1>9, <2>1, <3>1, <3>2 DEF Nested, NestedFit
  <2>2. ASSUME NEW b, NEW d, Closed(bs, op, b), Closed(bs, op, d), bs2[b].parent < d, d < b
        PROVE  bs2[b].parent <= bs2[d].parent
    BY <1>4, <1>6, <2>2 DEF Nested, NestedFit
  <2>. QED  BY <1>7, <1>10, <2>1, <2>2 DEF NestedFit
<1>. QED  BY <1>12, <1>13, <1>14 DEF TreeInv, Nested, bs2, op2

\* The end of a block.
LEMMA CloseTree ==
    ASSUME TextInv, TreeInv, Close
    PROVE  TreeInv'
<1>. DEFINE n    == Len(opened)
            t    == Top
            q    == opened[n - 1]
            bs   == blocks
            bs2  == blocks'
            op   == opened
            op2  == opened'
            its  == bs[q].items
            item == [type |-> blocks[t].kind, value |-> t]
<1>1. n > 1 /\ op2 = Front(op) /\ bs2 = AddBlock(Last(op2), t)
  BY DEF Close
<1>2. /\ t = op[n] /\ n \in Nat /\ n \in 1 .. n /\ t \in DOMAIN bs /\ t \in Nat
      /\ DOMAIN bs = 1 .. Len(bs) /\ Len(bs) \in Nat
  BY TopIs
<1>3. /\ bs \in Seq(Block) /\ op \in Seq(Nat)
      /\ \A k \in 1 .. n : op[k] \in DOMAIN bs
      /\ \A j, k \in 1 .. n : j < k => op[j] < op[k]
  BY DEF TextInv, OpenedInv
<1>4. n - 1 \in 1 .. n /\ n - 1 < n /\ n - 1 \in 1 .. (n - 1)
  BY <1>1, <1>2
<1>5. q \in DOMAIN bs /\ q < t /\ q \in Nat /\ q # t
  <2>1. q \in DOMAIN bs /\ q < t
    BY <1>2, <1>3, <1>4
  <2>. HIDE DEF q, t
  <2>. QED  BY <1>2, <2>1
<1>6. /\ Len(op2) = n - 1 /\ Last(op2) = q
      /\ \A k \in 1 .. (n - 1) : op2[k] = op[k]
  BY <1>1, <1>3, FrontOf
<1>7. /\ Nested(bs, op)
      /\ \A b : Closed(bs, op, b) => /\ b \in Nat /\ b \in DOMAIN bs /\ bs[b].parent \in Nat
                                     /\ bs[b].parent \in DOMAIN bs /\ bs[b].parent < b
  BY ClosedBehind DEF TreeInv
<1>. HIDE DEF t, q
<1>8. /\ bs[q] \in Block /\ Len(its) \in Nat /\ its \in Seq(Item) /\ bs[t] \in Block
  BY <1>2, <1>3, <1>5, BlockOf
<1>9. item \in Item
  <2>1. bs[t].kind \in Kinds
    BY <1>8 DEF Block
  <2>. QED  BY <1>2, <2>1 DEF Item
<1>10. /\ DOMAIN bs2 = DOMAIN bs
       /\ \A b \in DOMAIN bs : bs2[b].kind = bs[b].kind
       /\ \A b \in DOMAIN bs : b # q => bs2[b].items = bs[b].items
       /\ \A b \in DOMAIN bs : b # t => bs2[b].parent = bs[b].parent
       /\ bs2[q].items = Append(its, item) /\ bs2[t].parent = q
  <2>1. bs2 = [bs EXCEPT ![q].items = Append(@, item), ![t].parent = q, ![t].index = Len(its)]
    BY <1>1, <1>6 DEF AddBlock
  <2>2. \A b \in DOMAIN bs : bs[b] \in Block
    BY <1>3
  <2>. HIDE DEF item, bs2
  <2>. QED  BY <1>2, <1>3, <1>5, <2>1, <2>2 DEF Block
<1>11. /\ Len(Append(its, item)) = Len(its) + 1
       /\ Append(its, item)[Len(its) + 1] = item
       /\ \A i \in 1 .. Len(its) : Append(its, item)[i] = its[i]
  BY <1>8, <1>9, AppendOf
<1>12. item.value = t /\ (Child(item) <=> bs[t].kind = "location")
  BY DEF Child
<1>13. Len(op) = n
  OBVIOUS
<1>. HIDE DEF item, bs, bs2, op, op2, its, n
<1>14. \A k \in 1 .. (n - 1) : k \in 1 .. n /\ op[k] # t
  <2>1. ASSUME NEW k \in 1 .. (n - 1)  PROVE k \in 1 .. n /\ k < n
    BY <1>2
  <2>2. ASSUME NEW k \in 1 .. (n - 1)  PROVE op[k] < t /\ op[k] \in Nat
    BY <1>2, <1>3, <2>1
  <2>3. ASSUME NEW k \in 1 .. (n - 1)  PROVE op[k] # t
    BY <1>2, <2>2
  <2>. QED  BY <2>1, <2>3
<1>15. \A b : Closed(bs2, op2, b) <=> Closed(bs, op, b) \/ b = t
  <2>1. ASSUME NEW b, Closed(bs2, op2, b), b # t  PROVE Closed(bs, op, b)
    <3>1. \A k \in 1 .. n : k = n \/ k \in 1 .. (n - 1)
      BY <1>2
    <3>. QED  BY <1>2, <1>6, <1>10, <1>13, <2>1, <3>1 DEF Closed
  <2>2. ASSUME NEW b, Closed(bs, op, b)  PROVE Closed(bs2, op2, b)
    BY <1>6, <1>10, <1>13, <1>14, <2>2 DEF Closed
  <2>3. Closed(bs2, op2, t)
    BY <1>2, <1>6, <1>10, <1>14 DEF Closed
  <2>. QED  BY <2>1, <2>2, <2>3
<1>16. ~ Closed(bs, op, t)
  BY <1>2, <1>13 DEF Closed
<1>17. \A b : Closed(bs, op, b) => b # t /\ bs2[b].parent = bs[b].parent
  BY <1>7, <1>10, <1>16
<1>18. KindsFit(bs2, op2)
  <2>1. \A b, p \in DOMAIN bs : Below(bs2, b, p) <=> Below(bs, b, p)
    BY <1>10 DEF Below
  <2>2. Below(bs, t, q)
    <3>1. op[n - 1] = q
      BY DEF q, op, n
    <3>2. Below(bs, op[n], op[n - 1])
      BY <1>1, <1>2, <1>7, <1>13 DEF Nested, KindsFit
    <3>. QED  BY <1>2, <3>1, <3>2
  <2>3. \A b \in DOMAIN bs2 : bs2[b].kind = "http" <=> b = 1
    BY <1>7, <1>10 DEF Nested, KindsFit
  <2>4. ASSUME NEW k \in 1 .. (n - 1), k > 1  PROVE Below(bs2, op2[k], op2[k - 1])
    <3>1. k \in 1 .. n /\ k - 1 \in 1 .. (n - 1) /\ k - 1 \in 1 .. n
      BY <1>2, <2>4
    <3>2. Below(bs, op[k], op[k - 1])
      BY <1>7, <1>13, <2>4, <3>1 DEF Nested, KindsFit
    <3>. QED  BY <1>3, <1>6, <2>1, <3>1, <3>2
  <2>5. ASSUME NEW b, Closed(bs2, op2, b)  PROVE Below(bs2, b, bs2[b].parent)
    <3>1. CASE b = t
      BY <1>2, <1>5, <1>10, <2>1, <2>2, <3>1
    <3>2. CASE Closed(bs, op, b)
      BY <1>7, <1>17, <2>1, <3>2 DEF Nested, KindsFit
    <3>. QED  BY <1>15, <2>5, <3>1, <3>2
  <2>. QED  BY <1>6, <2>3, <2>4, <2>5 DEF KindsFit
<1>19. \A p, c : ChildOf(bs2, op2, p, c) <=>
           ChildOf(bs, op, p, c) \/ (p = q /\ c = t /\ bs[t].kind = "location")
  <2>1. ASSUME NEW p, NEW c
        PROVE  ChildOf(bs2, op2, p, c) <=>
                  ChildOf(bs, op, p, c) \/ (p = q /\ c = t /\ bs[t].kind = "location")
    <3>1. CASE c = t
      BY <1>2, <1>10, <1>15, <1>16, <3>1 DEF ChildOf
    <3>2. CASE c # t /\ Closed(bs, op, c)
      BY <1>7, <1>10, <1>15, <1>17, <3>2 DEF ChildOf
    <3>3. CASE c # t /\ ~ Closed(bs, op, c)
      BY <1>15, <3>3 DEF ChildOf
    <3>. QED  BY <3>1, <3>2, <3>3
  <2>. QED  BY <2>1
<1>20. ASSUME NEW p \in DOMAIN bs, NEW i \in 1 .. Len(bs2[p].items)
       PROVE  \/ i \in 1 .. Len(bs[p].items) /\ bs2[p].items[i] = bs[p].items[i]
              \/ p = q /\ i = Len(its) + 1 /\ bs2[p].items[i] = item
  <2>1. CASE p = q /\ i = Len(its) + 1
    BY <1>10, <1>11, <2>1
  <2>2. CASE p = q /\ i # Len(its) + 1
    <3>1. i \in 1 .. Len(its)
      BY <1>8, <1>10, <1>11, <2>2
    <3>. QED  BY <1>10, <1>11, <2>2, <3>1 DEF its
  <2>3. CASE p # q
    BY <1>10, <2>3
  <2>. QED  BY <2>1, <2>2, <2>3
<1>21. ASSUME NEW p \in DOMAIN bs, NEW i \in 1 .. Len(bs[p].items)
       PROVE  i \in 1 .. Len(bs2[p].items) /\ bs2[p].items[i] = bs[p].items[i]
  <2>1. CASE p = q
    BY <1>8, <1>10, <1>11, <2>1 DEF its
  <2>2. CASE p # q
    BY <1>10, <2>2
  <2>. QED  BY <2>1, <2>2
<1>22. /\ Len(its) + 1 \in 1 .. Len(bs2[q].items) /\ bs2[q].items[Len(its) + 1] = item
       /\ \A i \in 1 .. Len(bs[q].items) : i < Len(its) + 1
  BY <1>8, <1>10, <1>11 DEF its
\* What is in q already was opened before t.
<1>23. ASSUME NEW c, ChildOf(bs, op, q, c)  PROVE c < t
  <2>1. c \in Nat /\ c # t /\ bs[c].parent = q /\ Closed(bs, op, c)
    BY <1>7, <1>17, <1>23 DEF ChildOf
  <2>2. op[n] < c => op[n] <= bs[c].parent
    BY <1>2, <1>7, <1>13, <2>1 DEF Nested, NestedFit
  <2>. QED  BY <1>2, <1>5, <2>1, <2>2
<1>24. ChildrenFit(bs2, op2)
  <2>1. ASSUME NEW p \in DOMAIN bs, NEW i \in 1 .. Len(bs2[p].items), Child(bs2[p].items[i])
        PROVE  ChildOf(bs2, op2, p, bs2[p].items[i].value)
    <3>1. CASE i \in 1 .. Len(bs[p].items) /\ bs2[p].items[i] = bs[p].items[i]
      BY <1>7, <1>19, <2>1, <3>1 DEF Nested, ChildrenFit
    <3>2. CASE p = q /\ bs2[p].items[i] = item
      BY <1>12, <1>19, <2>1, <3>2
    <3>. QED  BY <1>20, <2>1, <3>1, <3>2
  <2>2. ASSUME NEW p \in DOMAIN bs, NEW i \in 1 .. Len(bs2[p].items),
               NEW j \in 1 .. Len(bs2[p].items), i < j,
               Child(bs2[p].items[i]), Child(bs2[p].items[j])
        PROVE  bs2[p].items[i].value < bs2[p].items[j].value
    <3>1. CASE j \in 1 .. Len(bs[p].items) /\ bs2[p].items[j] = bs[p].items[j]
      <4>1. i \in 1 .. Len(bs[p].items)
        <5>1. Len(bs[p].items) \in Nat
          BY <1>3, BlockOf
        <5>. QED  BY <2>2, <3>1, <5>1
      <4>2. bs2[p].items[i] = bs[p].items[i]
        BY <1>21, <4>1
      <4>. QED  BY <1>7, <2>2, <3>1, <4>1, <4>2 DEF Nested, ChildrenFit
    <3>2. CASE p = q /\ j = Len(its) + 1 /\ bs2[p].items[j] = item
      <4>1. i \in 1 .. Len(bs[p].items) /\ bs2[p].items[i] = bs[p].items[i]
        BY <1>20, <1>8, <2>2, <3>2
      <4>2. ChildOf(bs, op, q, bs[q].items[i].value)
        BY <1>7, <2>2, <3>2, <4>1 DEF Nested, ChildrenFit
      <4>. QED  BY <1>12, <1>23, <3>2, <4>1, <4>2
    <3>. QED  BY <1>20, <2>2, <3>1, <3>2
  <2>3. ASSUME NEW p, NEW c, ChildOf(bs2, op2, p, c)
        PROVE  \E i \in 1 .. Len(bs2[p].items) : Child(bs2[p].items[i]) /\ bs2[p].items[i].value = c
    <3>1. CASE ChildOf(bs, op, p, c)
      <4>1. p \in DOMAIN bs
        BY <1>7, <3>1 DEF ChildOf
      <4>2. PICK i \in 1 .. Len(bs[p].items) : Child(bs[p].items[i]) /\ bs[p].items[i].value = c
        BY <1>7, <3>1, <4>1 DEF Nested, ChildrenFit
      <4>. QED  BY <1>21, <4>1, <4>2
    <3>2. CASE p = q /\ c = t /\ bs[t].kind = "location"
      BY <1>12, <1>22, <3>2
    <3>. QED  BY <1>19, <2>3, <3>1, <3>2
  <2>. QED  BY <1>10, <2>1, <2>2, <2>3 DEF ChildrenFit
<1>25. NestedFit(bs2, op2)
  <2>1. ASSUME NEW d, Closed(bs2, op2, d), NEW k \in 1 .. (n - 1), op2[k] < d
        PROVE  op2[k] <= bs2[d].parent
    <3>1. op2[k] = op[k] /\ k \in 1 .. n /\ op[k] \in Nat
      BY <1>2, <1>3, <1>6, <1>14
    <3>2. CASE d = t
      <4>1. op[k] <= q
        <5>1. k = n - 1 \/ k < n - 1
          BY <1>2
        <5>2. op[n - 1] = q
          BY DEF q, op, n
        <5>. QED  BY <1>3, <1>4, <1>5, <3>1, <5>1, <5>2
      <4>. QED  BY <1>10, <3>1, <3>2, <4>1
    <3>3. CASE Closed(bs, op, d)
      BY <1>7, <1>13, <1>17, <2>1, <3>1, <3>3 DEF Nested, NestedFit
    <3>. QED  BY <1>15, <2>1, <3>2, <3>3
  <2>2. ASSUME NEW b, NEW d, Closed(bs2, op2, b), Closed(bs2, op2, d),
               bs2[b].parent < d, d < b
        PROVE  bs2[b].parent <= bs2[d].parent
    <3>1. CASE b = t
      <4>1. Closed(bs, op, d) /\ op[n - 1] < d /\ bs2[b].parent = op[n - 1]
        BY <1>2, <1>10, <1>15, <2>2, <3>1 DEF q, op, n
      <4>. QED  BY <1>4, <1>7, <1>13, <1>17, <4>1 DEF Nested, NestedFit
    <3>2. CASE d = t /\ Closed(bs, op, b)
      <4>1. op[n] < b => op[n] <= bs[b].parent
        BY <1>2, <1>7, <1>13, <3>2 DEF Nested, NestedFit
      <4>2. bs2[b].parent = bs[b].parent /\ bs[b].parent \in Nat
        BY <1>7, <1>17, <3>2
      <4>. QED  BY <1>2, <2>2, <3>2, <4>1, <4>2
    <3>3. CASE Closed(bs, op, b) /\ Closed(bs, op, d)
      BY <1>7, <1>17, <2>2, <3>3 DEF Nested, NestedFit
    <3>. QED  BY <1>15, <2>2, <3>1, <3>2, <3>3
  <2>. QED  BY <1>6, <2>1, <2>2 DEF NestedFit
<1>. QED  BY <1>18, <1>24, <1>25 DEF TreeInv, Nested, bs2, op2

LEMMA NextTreeInv == TextInv /\ TreeInv /\ [NextText]_text => TreeInv'
<1>. SUFFICES ASSUME TextInv, TreeInv, [NextText]_text  PROVE TreeInv'
  OBVIOUS
<1>1. CASE Simple
  BY <1>1, SimpleTree
<1>2. CASE OpenServer
  BY <1>2, OpenTree DEF OpenServer, Kinds
<1>3. CASE OpenLocation
  <2>1. PICK m \in Matches : Open("location", m) /\ blocks[Top].kind # "http"
    BY <1>3 DEF OpenLocation
  <2>. QED  BY <2>1, OpenTree DEF Kinds
<1>4. CASE Close
  BY <1>4, CloseTree
<1>5. CASE UNCHANGED text
  BY <1>5 DEF text, TreeInv
<1>. QED  BY <1>1, <1>2, <1>3, <1>4, <1>5 DEF NextText

-------------------------------------------------------------------------------
(* The locations of a whole file                                               *)

Kind(bs, b, kind)  == b \in DOMAIN bs /\ bs[b].kind = kind
Inside(bs, p)      == {c \in DOMAIN bs : bs[c].kind = "location" /\ bs[c].parent = p}
Rising(s)          == \A j, k \in 1 .. Len(s) : j < k => s[j] < s[k]

\* A file that has been read: what the invariants say when only the http block is open.
WholeTree(bs) ==
    /\ Parsed(bs) /\ 1 \in DOMAIN bs /\ bs[1].kind = "http" /\ bs[1].parent = NoBlock
    /\ \A b \in DOMAIN bs : Len(bs[b].match) \in Nat
    /\ \A b \in DOMAIN bs : b # 1 => bs[b].parent \in DOMAIN bs /\ Below(bs, b, bs[b].parent)
    /\ \A b : Kind(bs, b, "http") => b = 1
    /\ \A p \in DOMAIN bs :
          /\ Locations(bs, p) \in Seq(DOMAIN bs)
          /\ ToSet(Locations(bs, p)) = Inside(bs, p)
          /\ Rising(Locations(bs, p))
    /\ \A b, d \in DOMAIN bs \ {1} : bs[b].parent < d /\ d < b => bs[b].parent <= bs[d].parent

\* The values of the directives of a type, in the order of the directives.
LEMMA ValuesOfType ==
    ASSUME NEW S, NEW items \in Seq(S), NEW type, NEW V, V \subseteq Nat,
           \A i \in 1 .. Len(items) : items[i].type = type => items[i].value \in V,
           \A i, j \in 1 .. Len(items) :
              i < j /\ items[i].type = type /\ items[j].type = type
                 => items[i].value < items[j].value
    PROVE  LET v == Values(OfType(items, type))
           IN  /\ v \in Seq(V) /\ Rising(v)
               /\ \A x : x \in ToSet(v) <=>
                     \E i \in 1 .. Len(items) : items[i].type = type /\ items[i].value = x
<1>1. PICK taken : Took(taken, items, type) /\ OfType(items, type) = taken[Len(items)]
  BY OfTypeSteps
<1>. DEFINE n == Len(items)
            A(o, i) == \E k \in 1 .. Len(o) : o[k] = items[i]
            B(o, k, m) == \E i \in 1 .. m : items[i].type = type /\ o[k] = items[i]
            Fits(o, m) == /\ o \in Seq(S)
                          /\ \A i \in 1 .. m : items[i].type = type => A(o, i)
                          /\ \A k \in 1 .. Len(o) : B(o, k, m)
                          /\ \A j, k \in 1 .. Len(o) : j < k => o[j].value < o[k].value
            T == {m \in Nat : m <= n => Fits(taken[m], m)}
<1>2. n \in Nat /\ \A i \in 1 .. n : items[i] \in S
  OBVIOUS
<1>3. 0 \in T
  <2>1. taken[0] = <<>>
    BY <1>1 DEF Took
  <2>2. Len(<<>>) = 0 /\ <<>> \in Seq(S) /\ 1 .. 0 = {}
    OBVIOUS
  <2>3. Fits(<<>>, 0)
    BY <2>2
  <2>. HIDE DEF Fits
  <2>. QED  BY <2>1, <2>3
<1>4. ASSUME NEW m \in Nat, m \in T  PROVE m + 1 \in T
  <2>. SUFFICES ASSUME m + 1 <= n  PROVE Fits(taken[m + 1], m + 1)
    <3>. HIDE DEF Fits
    <3>. QED  OBVIOUS
  <2>. DEFINE o == taken[m]
              x == items[m + 1]
              y == Append(o, x)
  <2>1. m \in 0 .. n /\ m < n /\ m + 1 \in 1 .. n /\ m <= n /\ m + 1 \in 1 .. (m + 1)
    BY <1>2
  <2>2. taken[m + 1] = IF x.type = type THEN y ELSE o
    BY <1>1, <2>1 DEF Took
  <2>3. Fits(o, m)
    BY <1>4, <2>1
  <2>4. x \in S /\ \A i \in 1 .. (m + 1) : i = m + 1 \/ (i \in 1 .. m /\ i < m + 1 /\ i \in 1 .. n)
    BY <1>2, <2>1
  <2>5. \A i \in 1 .. m : i \in 1 .. (m + 1) /\ i \in 1 .. n /\ i < m + 1
    BY <1>2, <2>1
  <2>. HIDE DEF o, n
  <2>6. CASE x.type = type
    <3>1. /\ y \in Seq(S) /\ Len(y) = Len(o) + 1 /\ y[Len(o) + 1] = x /\ Len(o) \in Nat
          /\ \A k \in 1 .. Len(o) : y[k] = o[k]
      <4>1. o \in Seq(S)
        BY <2>3
      <4>. HIDE DEF Fits, x
      <4>. QED  BY <2>4, <4>1, AppendOf
    <3>. HIDE DEF y
    <3>2. /\ \A k \in 1 .. Len(y) : k = Len(o) + 1 \/ k \in 1 .. Len(o)
          /\ \A k \in 1 .. Len(o) : k \in 1 .. Len(y)
          /\ Len(o) + 1 \in 1 .. Len(y)
      BY <3>1
    <3>3. ASSUME NEW i \in 1 .. (m + 1), items[i].type = type  PROVE A(y, i)
      <4>1. CASE i = m + 1
        BY <3>1, <3>2, <4>1
      <4>2. CASE i \in 1 .. m
        BY <2>3, <3>1, <3>2, <3>3, <4>2
      <4>. QED  BY <2>4, <4>1, <4>2
    <3>4. ASSUME NEW k \in 1 .. Len(y)  PROVE B(y, k, m + 1)
      <4>1. CASE k = Len(o) + 1
        BY <2>1, <2>6, <3>1, <4>1
      <4>2. CASE k \in 1 .. Len(o)
        BY <2>3, <2>5, <3>1, <4>2
      <4>. QED  BY <3>2, <4>1, <4>2
    <3>5. ASSUME NEW j \in 1 .. Len(y), NEW k \in 1 .. Len(y), j < k
          PROVE  y[j].value < y[k].value
      <4>1. j \in 1 .. Len(o) /\ y[j] = o[j]
        BY <3>1, <3>5
      <4>2. CASE k = Len(o) + 1
        <5>1. PICK i \in 1 .. m : items[i].type = type /\ o[j] = items[i]
          BY <2>3, <4>1
        <5>2. items[i].value < items[m + 1].value
          BY <2>1, <2>5, <2>6, <5>1 DEF n
        <5>. QED  BY <3>1, <4>1, <4>2, <5>1, <5>2
      <4>3. CASE k \in 1 .. Len(o)
        BY <2>3, <3>1, <3>5, <4>1, <4>3
      <4>. QED  BY <3>2, <4>2, <4>3
    <3>6. Fits(y, m + 1)
      BY <3>1, <3>3, <3>4, <3>5
    <3>. HIDE DEF Fits
    <3>. QED  BY <2>2, <2>6, <3>6
  <2>7. CASE x.type # type
    <3>1. Fits(o, m + 1)
      <4>1. ASSUME NEW i \in 1 .. (m + 1), items[i].type = type  PROVE A(o, i)
        <5>1. i \in 1 .. m
          BY <2>4, <2>7, <4>1
        <5>. QED  BY <2>3, <4>1, <5>1
      <4>2. \A k \in 1 .. Len(o) : B(o, k, m + 1)
        BY <2>3, <2>5
      <4>. QED  BY <2>3, <4>1, <4>2
    <3>. HIDE DEF Fits
    <3>. QED  BY <2>2, <2>7, <3>1
  <2>. QED  BY <2>6, <2>7
<1>5. n \in T
  <2>. HIDE DEF T
  <2>. QED  BY <1>2, <1>3, <1>4, Inductive
<1>. DEFINE out == OfType(items, type)
            v   == Values(out)
<1>6. Fits(out, n)
  <2>1. n <= n
    BY <1>2
  <2>. HIDE DEF Fits
  <2>. QED  BY <1>1, <1>5, <2>1
<1>. HIDE DEF out, n
<1>7. DOMAIN out = 1 .. Len(out) /\ Len(out) \in Nat
  BY <1>6
<1>8. \A k \in 1 .. Len(out) : out[k].value \in V
  BY <1>6 DEF n
<1>9. v = [k \in 1 .. Len(out) |-> out[k].value]
  BY <1>7 DEF Values
<1>10. /\ v \in Seq(V) /\ Len(v) = Len(out)
       /\ \A k \in 1 .. Len(out) : v[k] = out[k].value
  BY <1>7, <1>8, <1>9
<1>. HIDE DEF v
<1>11. Rising(v)
  <2>1. \A j, k \in 1 .. Len(out) : j < k => out[j].value < out[k].value
    BY <1>6
  <2>. QED  BY <1>10, <2>1 DEF Rising
<1>12. \A x : x \in ToSet(v) <=> \E i \in 1 .. n : items[i].type = type /\ items[i].value = x
  <2>1. ASSUME NEW x  PROVE x \in ToSet(v) <=> \E k \in 1 .. Len(out) : out[k].value = x
    <3>1. DOMAIN v = 1 .. Len(out)
      BY <1>7, <1>10
    <3>. QED  BY <1>10, <3>1 DEF ToSet
  <2>2. ASSUME NEW x, NEW i \in 1 .. n, items[i].type = type, items[i].value = x
        PROVE  \E k \in 1 .. Len(out) : out[k].value = x
    BY <1>6, <2>2
  <2>3. ASSUME NEW x, NEW k \in 1 .. Len(out), out[k].value = x
        PROVE  \E i \in 1 .. n : items[i].type = type /\ items[i].value = x
    BY <1>6, <2>3
  <2>. QED  BY <2>1, <2>2, <2>3
<1>. QED  BY <1>10, <1>11, <1>12 DEF v, out, n

LEMMA IsWholeTree ==
    ASSUME TextInv, TreeInv, Complete
    PROVE  WholeTree(blocks)
<1>. DEFINE bs == blocks
            op == opened
<1>1. /\ DOMAIN bs = 1 .. Len(bs) /\ Len(bs) \in Nat /\ bs \in Seq(Block)
      /\ 1 \in DOMAIN bs /\ Parsed(bs) /\ bs[1].parent = NoBlock
  BY TopIs, WholeFile DEF TextInv, OpenedInv
<1>2. Len(op) = 1 /\ op[1] = 1 /\ 1 .. Len(op) = {1}
  BY DEF Complete
<1>3. \A b : Closed(bs, op, b) <=> b \in DOMAIN bs /\ b # 1
  BY <1>2 DEF Closed
<1>4. Nested(bs, op) /\ \A b : Closed(bs, op, b) => bs[b].parent \in DOMAIN bs
  BY ClosedBehind DEF TreeInv
<1>5. \A b \in DOMAIN bs : /\ bs[b] \in Block /\ bs[b].items \in Seq(Item)
                           /\ bs[b].match \in Matches \cup {<<>>}
  <2>1. ASSUME NEW b \in DOMAIN bs
        PROVE  bs[b] \in Block /\ bs[b].items \in Seq(Item) /\ bs[b].match \in Matches \cup {<<>>}
    <3>1. bs[b] \in Block /\ bs[b].items \in Seq(Item)
      BY <1>1, <2>1, BlockOf
    <3>. QED  BY <3>1 DEF Block
  <2>. QED  BY <2>1
<1>. HIDE DEF bs, op
<1>6. \A b \in DOMAIN bs : Len(bs[b].match) \in Nat
  <2>1. ASSUME NEW m \in Matches \cup {<<>>}  PROVE Len(m) \in Nat
    <3>1. CASE m = <<>>
      BY <3>1
    <3>2. CASE m \in Matches
      <4>1. m \in Seq(ToSet(m))
        BY <3>2, MatchAssumption
      <4>. QED  BY <4>1
    <3>. QED  BY <3>1, <3>2
  <2>. QED  BY <1>5, <2>1
<1>7. \A p, c : ChildOf(bs, op, p, c) <=> c \in Inside(bs, p) /\ c # 1
  BY <1>3 DEF ChildOf, Inside
<1>8. \A p : ~ (1 \in Inside(bs, p))
  BY <1>1, <1>4 DEF Nested, KindsFit, Inside
<1>9. ASSUME NEW p \in DOMAIN bs
      PROVE  /\ Locations(bs, p) \in Seq(DOMAIN bs)
             /\ ToSet(Locations(bs, p)) = Inside(bs, p)
             /\ Rising(Locations(bs, p))
  <2>. DEFINE items == bs[p].items
  <2>1. /\ items \in Seq(Item)
        /\ \A i \in 1 .. Len(items) : items[i].type = "location" => items[i].value \in Inside(bs, p)
        /\ \A i, j \in 1 .. Len(items) :
              i < j /\ items[i].type = "location" /\ items[j].type = "location"
                 => items[i].value < items[j].value
        /\ \A c \in Inside(bs, p) :
              \E i \in 1 .. Len(items) : items[i].type = "location" /\ items[i].value = c
    BY <1>4, <1>5, <1>7, <1>8 DEF Nested, ChildrenFit, Child
  <2>2. Inside(bs, p) \subseteq DOMAIN bs /\ DOMAIN bs \subseteq Nat
    BY <1>1 DEF Inside
  <2>3. Locations(bs, p) = Values(OfType(items, "location"))
    BY DEF Locations
  <2>. HIDE DEF items
  <2>. DEFINE v == Values(OfType(items, "location"))
  <2>4. /\ v \in Seq(Inside(bs, p)) /\ Rising(v)
        /\ \A x : x \in ToSet(v) <=>
              \E i \in 1 .. Len(items) : items[i].type = "location" /\ items[i].value = x
    <3>1. Inside(bs, p) \subseteq Nat
      BY <2>2
    <3>. QED  BY <2>1, <3>1, ValuesOfType
  <2>. HIDE DEF v
  <2>5. ToSet(v) = Inside(bs, p)
    BY <2>1, <2>4
  <2>6. v \in Seq(DOMAIN bs)
    BY <2>2, <2>4
  <2>. QED  BY <2>3, <2>4, <2>5, <2>6 DEF v
<1>10. \A b, d \in DOMAIN bs \ {1} : bs[b].parent < d /\ d < b => bs[b].parent <= bs[d].parent
  BY <1>3, <1>4 DEF Nested, NestedFit
<1>11. /\ bs[1].kind = "http" /\ \A b : Kind(bs, b, "http") => b = 1
  BY <1>1, <1>4 DEF Nested, KindsFit, Kind
<1>12. \A b \in DOMAIN bs : b # 1 => bs[b].parent \in DOMAIN bs /\ Below(bs, b, bs[b].parent)
  BY <1>3, <1>4 DEF Nested, KindsFit
<1>13. WholeTree(bs)
  BY <1>1, <1>6, <1>9, <1>10, <1>11, <1>12 DEF WholeTree
<1>. QED  BY <1>13 DEF bs

-------------------------------------------------------------------------------
(* The choice of a location                                                    *)

\* A step of best_match(), and all of them, for a function that gives the best match of
\* the nested locations.
Better(bs, f, r, m) == IF f[m] # NoBlock /\ Shorter(bs, r, f[m]) THEN m ELSE r
BestIn(bs, f, l) ==
    LET better(r, m) == Better(bs, f, r, m)
    IN  FoldLeft(better, l, Locations(bs, l))
BestOf(bs, f, uri, l) == IF ~IsPrefix(bs[l].match, uri) THEN NoBlock ELSE BestIn(bs, f, l)

\* A step of query_location_block().
Longer(bs, f, r, l) ==
    IF f[l] # NoBlock /\ (r = NoBlock \/ Shorter(bs, r, f[l])) THEN f[l] ELSE r

\* The steps of a search: r[k] is what is chosen among the first k of some locations.
Improves(r, n, bs, f, s) == \A k \in 0 .. n : k < n => r[k + 1] = Better(bs, f, r[k], s[k + 1])
Prolongs(r, n, bs, f, s) == \A k \in 0 .. n : k < n => r[k + 1] = Longer(bs, f, r[k], s[k + 1])

LEMMA BestInSteps ==
    ASSUME NEW bs, NEW f, NEW l, NEW V, NEW s \in Seq(V), Locations(bs, l) = s
    PROVE  \E r : /\ r[0] = l /\ Improves(r, Len(s), bs, f, s)
                  /\ BestIn(bs, f, l) = r[Len(s)]
<1>. DEFINE n == Len(s)
            W == V \cup {l}
            F == [x \in W \X (1 .. n) |-> Better(bs, f, x[1], s[x[2]])]
            Eq(it) == it = [t \in SUBSET (1 .. n) |->
                              IF t = {} THEN l ELSE Better(bs, f, it[t \ {Max(t)}], s[Max(t)])]
<1>1. n \in Nat /\ DOMAIN s = 1 .. n /\ l \in W /\ \A i \in 1 .. n : s[i] \in W
  OBVIOUS
<1>2. F \in [W \X (1 .. n) -> W]
  <2>. HIDE DEF W, n
  <2>. QED  BY <1>1 DEF Better
<1>3. BestIn(bs, f, l) = (CHOOSE it : Eq(it))[1 .. n]
  BY <1>1 DEF BestIn, Better, FoldLeft, MapThenFoldSet
<1>4. \E it : Eq(it)
  <2>1. PICK it : FoldsTo(it, n, W, l, F)
    <3>. HIDE DEF n, W, F
    <3>. QED  BY <1>1, <1>2, FoldExists
  <2>2. it = [t \in SUBSET (1 .. n) |-> IF t = {} THEN l
                                        ELSE F[<<it[t \ {Max(t)}], Max(t)>>]]
    BY <2>1 DEF FoldsTo
  <2>3. \A t \in SUBSET (1 .. n) : t # {} =>
            F[<<it[t \ {Max(t)}], Max(t)>>] = Better(bs, f, it[t \ {Max(t)}], s[Max(t)])
    <3>1. \A t \in SUBSET (1 .. n) : t # {} => Max(t) \in 1 .. n /\ it[t \ {Max(t)}] \in W
      <4>. HIDE DEF n, W, F
      <4>. QED  BY <1>1, <2>1, FoldValues
    <3>. HIDE DEF n, W
    <3>. QED  BY <3>1
  <2>. HIDE DEF n, F
  <2>. QED  BY <2>2, <2>3
<1>. DEFINE c == CHOOSE it : Eq(it)
            r == [k \in 0 .. n |-> c[1 .. k]]
<1>5. Eq(c)
  <2>. HIDE DEF Eq
  <2>. QED  BY <1>4
<1>6. BestIn(bs, f, l) = c[1 .. n]
  BY <1>3
<1>. HIDE DEF n, c
<1>7. r[0] = l /\ BestIn(bs, f, l) = r[n]
  BY <1>1, <1>5, <1>6
<1>8. ASSUME NEW k \in 0 .. n, k < n  PROVE r[k + 1] = Better(bs, f, r[k], s[k + 1])
  <2>1. /\ k + 1 \in 0 .. n /\ 1 .. (k + 1) \in SUBSET (1 .. n) /\ 1 .. (k + 1) # {}
        /\ Max(1 .. (k + 1)) = k + 1 /\ (1 .. (k + 1)) \ {k + 1} = 1 .. k
    BY <1>1, <1>8, NextPrefix
  <2>2. c[1 .. (k + 1)] = Better(bs, f, c[1 .. k], s[k + 1])
    BY <1>5, <2>1
  <2>. QED  BY <2>1, <2>2
<1>. HIDE DEF r
<1>. QED  BY <1>7, <1>8 DEF Improves, n

LEMMA BestMatchIs ==
    ASSUME NEW bs, NEW uri
    PROVE  BestMatch(bs, uri) = CHOOSE f : f = [l \in DOMAIN bs |-> BestOf(bs, f, uri, l)]
BY DEF BestMatch, BestOf, BestIn, Better, FoldLeft, MapThenFoldSet

LEMMA LocationBlockSteps ==
    ASSUME NEW bs, NEW server, NEW uri, NEW s \in Seq(Nat), Locations(bs, server) = s, NEW f,
           f = BestMatch(bs, uri), \A i \in 1 .. Len(s) : f[s[i]] \in Nat
    PROVE  \E r : /\ r[0] = NoBlock /\ Prolongs(r, Len(s), bs, f, s)
                  /\ LocationBlock(bs, server, uri) = r[Len(s)]
<1>. DEFINE n == Len(s)
            F == [x \in Nat \X (1 .. n) |-> Longer(bs, f, x[1], s[x[2]])]
            Eq(it) == it = [t \in SUBSET (1 .. n) |-> IF t = {} THEN NoBlock
                              ELSE Longer(bs, f, it[t \ {Max(t)}], s[Max(t)])]
<1>1. n \in Nat /\ DOMAIN s = 1 .. n /\ NoBlock \in Nat
  BY DEF NoBlock
<1>2. F \in [Nat \X (1 .. n) -> Nat]
  <2>1. \A i \in 1 .. n : f[s[i]] \in Nat
    OBVIOUS
  <2>. HIDE DEF n
  <2>. QED  BY <1>1, <2>1 DEF Longer
<1>3. LocationBlock(bs, server, uri) = (CHOOSE it : Eq(it))[1 .. n]
  <2>. DEFINE g == BestMatch(bs, uri)
              Eg(it) == it = [t \in SUBSET (1 .. n) |-> IF t = {} THEN NoBlock
                                ELSE Longer(bs, g, it[t \ {Max(t)}], s[Max(t)])]
  <2>1. LocationBlock(bs, server, uri) = (CHOOSE it : Eg(it))[1 .. n]
    <3>. HIDE DEF g
    <3>. QED  BY <1>1 DEF LocationBlock, Longer, FoldLeft, MapThenFoldSet, g
  <2>. QED  BY <2>1
<1>4. \E it : Eq(it)
  <2>1. PICK it : FoldsTo(it, n, Nat, NoBlock, F)
    <3>. HIDE DEF n, F
    <3>. QED  BY <1>1, <1>2, FoldExists
  <2>2. it = [t \in SUBSET (1 .. n) |-> IF t = {} THEN NoBlock
                                        ELSE F[<<it[t \ {Max(t)}], Max(t)>>]]
    BY <2>1 DEF FoldsTo
  <2>3. \A t \in SUBSET (1 .. n) : t # {} =>
            F[<<it[t \ {Max(t)}], Max(t)>>] = Longer(bs, f, it[t \ {Max(t)}], s[Max(t)])
    <3>1. \A t \in SUBSET (1 .. n) : t # {} => Max(t) \in 1 .. n /\ it[t \ {Max(t)}] \in Nat
      <4>. HIDE DEF n, F
      <4>. QED  BY <1>1, <2>1, FoldValues
    <3>. HIDE DEF n
    <3>. QED  BY <3>1
  <2>4. Eq(it)
    <3>. HIDE DEF n, F
    <3>. QED  BY <2>2, <2>3
  <2>. HIDE DEF Eq
  <2>. QED  BY <2>4
<1>. DEFINE c == CHOOSE it : Eq(it)
            r == [k \in 0 .. n |-> c[1 .. k]]
<1>5. Eq(c)
  <2>. HIDE DEF Eq
  <2>. QED  BY <1>4
<1>6. LocationBlock(bs, server, uri) = c[1 .. n]
  BY <1>3
<1>. HIDE DEF n, c
<1>7. r[0] = NoBlock /\ LocationBlock(bs, server, uri) = r[n]
  <2>1. 0 \in 0 .. n /\ n \in 0 .. n /\ 1 .. 0 = {}
    BY <1>1
  <2>2. c[{}] = NoBlock
    BY <1>5
  <2>. QED  BY <1>6, <2>1, <2>2
<1>8. ASSUME NEW k \in 0 .. n, k < n  PROVE r[k + 1] = Longer(bs, f, r[k], s[k + 1])
  <2>1. /\ k + 1 \in 0 .. n /\ 1 .. (k + 1) \in SUBSET (1 .. n) /\ 1 .. (k + 1) # {}
        /\ Max(1 .. (k + 1)) = k + 1 /\ (1 .. (k + 1)) \ {k + 1} = 1 .. k
    BY <1>1, <1>8, NextPrefix
  <2>2. c[1 .. (k + 1)] = Longer(bs, f, c[1 .. k], s[k + 1])
    BY <1>5, <2>1
  <2>. QED  BY <2>1, <2>2
<1>. HIDE DEF r
<1>. QED  BY <1>7, <1>8 DEF Prolongs, n

LEMMA SameBest ==
    ASSUME NEW bs, NEW f, NEW g, NEW l, NEW V, NEW s \in Seq(V), Locations(bs, l) = s,
           \A i \in 1 .. Len(s) : f[s[i]] = g[s[i]]
    PROVE  BestIn(bs, f, l) = BestIn(bs, g, l)
<1>1. PICK r : r[0] = l /\ Improves(r, Len(s), bs, f, s) /\ BestIn(bs, f, l) = r[Len(s)]
  BY BestInSteps
<1>2. PICK q : q[0] = l /\ Improves(q, Len(s), bs, g, s) /\ BestIn(bs, g, l) = q[Len(s)]
  BY BestInSteps
<1>. DEFINE n == Len(s)
            T == {k \in Nat : k <= n => r[k] = q[k]}
<1>3. n \in Nat
  OBVIOUS
<1>4. 0 \in T
  BY <1>1, <1>2
<1>5. ASSUME NEW k \in Nat, k \in T  PROVE k + 1 \in T
  <2>. SUFFICES ASSUME k + 1 <= n  PROVE r[k + 1] = q[k + 1]
    OBVIOUS
  <2>1. k \in 0 .. n /\ k < n /\ k + 1 \in 1 .. n /\ k <= n
    BY <1>3
  <2>2. f[s[k + 1]] = g[s[k + 1]] /\ r[k] = q[k]
    BY <1>5, <2>1
  <2>3. /\ r[k + 1] = Better(bs, f, r[k], s[k + 1])
        /\ q[k + 1] = Better(bs, g, q[k], s[k + 1])
    BY <1>1, <1>2, <2>1 DEF Improves
  <2>. QED  BY <2>2, <2>3 DEF Better
<1>6. n \in T
  <2>. HIDE DEF T
  <2>. QED  BY <1>3, <1>4, <1>5, Inductive
<1>7. n <= n
  BY <1>3
<1>. QED  BY <1>1, <1>2, <1>6, <1>7

\* Nested locations come behind the one they are in.
LEMMA InsideBehind ==
    ASSUME NEW bs, WholeTree(bs), NEW l \in DOMAIN bs
    PROVE  /\ Locations(bs, l) \in Seq(DOMAIN bs) /\ Rising(Locations(bs, l))
           /\ ToSet(Locations(bs, l)) = Inside(bs, l)
           /\ \A i \in 1 .. Len(Locations(bs, l)) : Locations(bs, l)[i] \in Inside(bs, l)
           /\ \A m \in Inside(bs, l) : m \in DOMAIN bs /\ m \in Nat /\ l < m /\ m <= Len(bs)
           /\ DOMAIN bs = 1 .. Len(bs) /\ Len(bs) \in Nat
<1>1. /\ DOMAIN bs = 1 .. Len(bs) /\ Len(bs) \in Nat
      /\ \A b \in DOMAIN bs : bs[b].parent \in 0 .. (b - 1)
  BY DEF WholeTree, Parsed
<1>2. /\ Locations(bs, l) \in Seq(DOMAIN bs) /\ Rising(Locations(bs, l))
      /\ ToSet(Locations(bs, l)) = Inside(bs, l)
  BY DEF WholeTree
<1>3. \A i \in 1 .. Len(Locations(bs, l)) : Locations(bs, l)[i] \in ToSet(Locations(bs, l))
  BY <1>2 DEF ToSet
<1>4. ASSUME NEW m \in Inside(bs, l)
      PROVE  m \in DOMAIN bs /\ m \in Nat /\ l < m /\ m <= Len(bs)
  <2>1. m \in 1 .. Len(bs) /\ l \in 0 .. (m - 1)
    BY <1>1 DEF Inside
  <2>. QED  BY <1>1, <2>1
<1>. QED  BY <1>1, <1>2, <1>3, <1>4

LEMMA BestExists ==
    ASSUME NEW bs, WholeTree(bs), NEW uri
    PROVE  \E f : f = [l \in DOMAIN bs |-> BestOf(bs, f, uri, l)]
<1>. DEFINE N == Len(bs)
            Eq(low, f) == f = [l \in low .. N |-> BestOf(bs, f, uri, l)]
            T == {n \in Nat : n <= N => \E f : Eq((N - n) + 1, f)}
<1>1. DOMAIN bs = 1 .. N /\ N \in Nat
  BY DEF WholeTree, Parsed
<1>. HIDE DEF N
<1>2. 0 \in T
  <2>1. (N - 0) + 1 = N + 1 /\ (N + 1) .. N = {}
    BY <1>1
  <2>. DEFINE none == [l \in {} |-> NoBlock]
  <2>2. Eq(N + 1, none)
    BY <2>1
  <2>. QED  BY <2>1, <2>2
<1>3. ASSUME NEW n \in Nat, n \in T  PROVE n + 1 \in T
  <2>. DEFINE low == N - n
  <2>1. ASSUME n + 1 <= N  PROVE \E f : Eq((N - (n + 1)) + 1, f)
    <3>1. low \in 1 .. N /\ (N - n) + 1 = low + 1 /\ (N - (n + 1)) + 1 = low /\ n <= N
      BY <1>1, <2>1
    <3>2. PICK up : Eq(low + 1, up)
      BY <1>3, <3>1
    <3>. HIDE DEF low
    <3>. DEFINE of(f, l) == BestOf(bs, f, uri, l)
                more == [l \in low .. N |-> IF l = low THEN of(up, l) ELSE up[l]]
    <3>3. /\ \A l \in low .. N : l \in 1 .. N /\ (l = low \/ l \in (low + 1) .. N)
          /\ \A l \in (low + 1) .. N : l # low /\ l \in low .. N
      BY <1>1, <3>1
    <3>4. \A l \in (low + 1) .. N : more[l] = up[l]
      BY <3>3
    <3>5. more[low] = of(up, low)
      BY <1>1, <3>1
    <3>6. more = [l \in low .. N |-> more[l]]
      OBVIOUS
    <3>. HIDE DEF more
    <3>7. ASSUME NEW l \in low .. N  PROVE of(more, l) = of(up, l)
      <4>. DEFINE s == Locations(bs, l)
      <4>1. l \in DOMAIN bs
        BY <1>1, <3>3
      <4>2. /\ s \in Seq(DOMAIN bs) /\ \A i \in 1 .. Len(s) : s[i] \in Inside(bs, l)
            /\ \A m \in Inside(bs, l) : m \in Nat /\ l < m /\ m <= N
        BY <4>1, InsideBehind DEF N
      <4>3. \A m \in Inside(bs, l) : m \in (low + 1) .. N
        BY <1>1, <3>1, <3>7, <4>2
      <4>4. \A i \in 1 .. Len(s) : more[s[i]] = up[s[i]]
        BY <3>4, <4>2, <4>3
      <4>. HIDE DEF s
      <4>5. BestIn(bs, more, l) = BestIn(bs, up, l)
        BY <4>2, <4>4, SameBest DEF s
      <4>. QED  BY <4>5 DEF BestOf
    <3>8. \A l \in (low + 1) .. N : up[l] = of(up, l)
      BY <3>2
    <3>. HIDE DEF of
    <3>9. \A l \in low .. N : more[l] = of(more, l)
      BY <3>3, <3>4, <3>5, <3>7, <3>8
    <3>10. more = [l \in low .. N |-> of(more, l)]
      BY <3>6, <3>9
    <3>. QED  BY <3>1, <3>10 DEF of
  <2>. HIDE DEF Eq
  <2>. QED  BY <2>1
<1>4. \A n \in Nat : n \in T
  <2>. HIDE DEF T
  <2>. QED  BY <1>2, <1>3, Inductive
<1>5. \E f : Eq(1, f)
  <2>1. N <= N /\ (N - N) + 1 = 1
    BY <1>1
  <2>. HIDE DEF Eq
  <2>. QED  BY <1>1, <1>4, <2>1
<1>. QED  BY <1>1, <1>5

LEMMA BestMatchStep ==
    ASSUME NEW bs, WholeTree(bs), NEW uri, NEW l \in DOMAIN bs
    PROVE  BestMatch(bs, uri)[l] = BestOf(bs, BestMatch(bs, uri), uri, l)
<1>. DEFINE Eq(f) == f = [d \in DOMAIN bs |-> BestOf(bs, f, uri, d)]
            best == CHOOSE f : Eq(f)
<1>1. Eq(best)
  <2>1. \E f : Eq(f)
    BY BestExists
  <2>. HIDE DEF Eq
  <2>. QED  BY <2>1
<1>2. BestMatch(bs, uri) = best
  BY BestMatchIs
<1>. HIDE DEF best
<1>. QED  BY <1>1, <1>2

\* The longest of some locations, and the first of those.
Leads(bs, x, X) ==
    x \in X /\ \A y \in X : ~Shorter(bs, x, y) /\ (~Shorter(bs, y, x) => x <= y)

\* Between what leads some locations and what leads others behind them.
LEMMA LeadsBoth ==
    ASSUME NEW bs, DOMAIN bs \subseteq Nat, \A b \in DOMAIN bs : Len(bs[b].match) \in Nat,
           NEW X, X \subseteq DOMAIN bs, NEW x, Leads(bs, x, X),
           NEW Y, Y \subseteq DOMAIN bs, NEW y, Leads(bs, y, Y),
           \A a \in X, b \in Y : a < b
    PROVE  Leads(bs, IF Shorter(bs, x, y) THEN y ELSE x, X \cup Y)
<1>. DEFINE len(b) == Len(bs[b].match)
<1>1. /\ x \in X /\ y \in Y /\ x \in DOMAIN bs /\ y \in DOMAIN bs
      /\ \A a \in X : len(a) <= len(x) /\ (len(a) >= len(x) => x <= a)
      /\ \A b \in Y : len(b) <= len(y) /\ (len(b) >= len(y) => y <= b)
  BY DEF Leads, Shorter
<1>2. \A b \in X \cup Y : b \in DOMAIN bs /\ b \in Nat /\ len(b) \in Nat
  OBVIOUS
<1>3. Shorter(bs, x, y) <=> len(x) < len(y)
  BY DEF Shorter
<1>4. \A a, b : Shorter(bs, a, b) <=> len(a) < len(b)
  BY DEF Shorter
<1>. HIDE DEF len
<1>5. CASE len(x) < len(y)
  <2>1. ASSUME NEW b \in X \cup Y
        PROVE  ~ (len(y) < len(b)) /\ (~ (len(b) < len(y)) => y <= b)
    <3>1. CASE b \in X
      BY <1>1, <1>2, <1>5, <3>1
    <3>2. CASE b \in Y
      BY <1>1, <1>2, <3>2
    <3>. QED  BY <3>1, <3>2
  <2>. QED  BY <1>1, <1>4, <1>5, <2>1 DEF Leads
<1>6. CASE ~ (len(x) < len(y))
  <2>1. ASSUME NEW b \in X \cup Y
        PROVE  ~ (len(x) < len(b)) /\ (~ (len(b) < len(x)) => x <= b)
    <3>1. CASE b \in X
      BY <1>1, <1>2, <3>1
    <3>2. CASE b \in Y
      <4>1. x < b /\ len(b) <= len(y)
        BY <1>1, <3>2
      <4>. QED  BY <1>1, <1>2, <1>6, <3>2, <4>1
    <3>. QED  BY <3>1, <3>2
  <2>. QED  BY <1>1, <1>4, <1>6, <2>1 DEF Leads
<1>. QED  BY <1>5, <1>6

On(bs, uri, l)    == IsPrefix(bs[l].match, uri)
Under(bs, uri, l) == IF On(bs, uri, l) THEN {l} \cup {m \in Inside(bs, l) : On(bs, uri, m)} ELSE {}

LEMMA LeadsAlone ==
    ASSUME NEW bs, NEW x \in Nat, Len(bs[x].match) \in Nat
    PROVE  Leads(bs, x, {x})
BY DEF Leads, Shorter

LEMMA LeafBest ==
    ASSUME NEW bs, WholeTree(bs), NEW uri, NEW m \in DOMAIN bs, Inside(bs, m) = {}
    PROVE  BestMatch(bs, uri)[m] = IF On(bs, uri, m) THEN m ELSE NoBlock
<1>. DEFINE f == BestMatch(bs, uri)
            s == Locations(bs, m)
<1>1. f[m] = BestOf(bs, f, uri, m)
  BY BestMatchStep
<1>2. s \in Seq(DOMAIN bs) /\ \A i \in 1 .. Len(s) : s[i] \in Inside(bs, m)
  BY InsideBehind
<1>. HIDE DEF f, s
<1>3. Len(s) = 0
  BY <1>2
<1>4. BestIn(bs, f, m) = m
  <2>1. PICK r : r[0] = m /\ BestIn(bs, f, m) = r[Len(s)]
    BY <1>2, BestInSteps DEF s
  <2>. QED  BY <1>3, <2>1
<1>. QED  BY <1>1, <1>4 DEF BestOf, On, f

\* Where nothing is nested in the nested locations best_match() is right.
LEMMA BestLeads ==
    ASSUME NEW bs, WholeTree(bs), NEW uri, NEW l \in DOMAIN bs,
           \A m \in Inside(bs, l) : Inside(bs, m) = {}
    PROVE  LET b == BestMatch(bs, uri)[l]
           IN  IF On(bs, uri, l) THEN Leads(bs, b, Under(bs, uri, l)) ELSE b = NoBlock
<1>. DEFINE f == BestMatch(bs, uri)
            s == Locations(bs, l)
            n == Len(s)
<1>1. f[l] = BestOf(bs, f, uri, l)
  BY BestMatchStep
<1>2. /\ s \in Seq(DOMAIN bs) /\ Rising(s) /\ ToSet(s) = Inside(bs, l)
      /\ \A i \in 1 .. n : s[i] \in Inside(bs, l)
      /\ \A m \in Inside(bs, l) : m \in DOMAIN bs /\ m \in Nat /\ l < m
      /\ DOMAIN bs \subseteq Nat /\ n \in Nat /\ DOMAIN s = 1 .. n
  <2>1. /\ s \in Seq(DOMAIN bs) /\ DOMAIN bs = 1 .. Len(bs) /\ Len(bs) \in Nat
    BY InsideBehind
  <2>2. DOMAIN bs \subseteq Nat /\ n \in Nat /\ DOMAIN s = 1 .. n
    BY <2>1
  <2>. QED  BY <2>1, <2>2, InsideBehind
<1>3. \A b \in DOMAIN bs : Len(bs[b].match) \in Nat
  BY DEF WholeTree
<1>4. \A m \in Inside(bs, l) : f[m] = IF On(bs, uri, m) THEN m ELSE NoBlock
  BY <1>2, LeafBest
<1>. SUFFICES ASSUME On(bs, uri, l)  PROVE Leads(bs, f[l], Under(bs, uri, l))
  BY <1>1 DEF BestOf, On
<1>. HIDE DEF f
<1>5. f[l] = BestIn(bs, f, l)
  BY <1>1 DEF BestOf, On
<1>6. PICK r : r[0] = l /\ Improves(r, n, bs, f, s) /\ BestIn(bs, f, l) = r[n]
  BY <1>2, BestInSteps
<1>. HIDE DEF s, n
<1>. DEFINE X(k) == {l} \cup {m \in Inside(bs, l) : On(bs, uri, m) /\ \E i \in 1 .. k : s[i] = m}
            T == {k \in Nat : k <= n => Leads(bs, r[k], X(k))}
<1>7. 0 \in T
  <2>1. 1 .. 0 = {}
    OBVIOUS
  <2>2. X(0) = {l}
    BY <2>1
  <2>3. Leads(bs, l, {l})
    BY <1>2, <1>3, LeadsAlone
  <2>. HIDE DEF X
  <2>. QED  BY <1>6, <2>2, <2>3
<1>8. ASSUME NEW k \in Nat, k \in T  PROVE k + 1 \in T
  <2>. DEFINE m == s[k + 1]
  <2>1. ASSUME k + 1 <= n  PROVE Leads(bs, r[k + 1], X(k + 1))
    <3>1. k \in 0 .. n /\ k < n /\ k + 1 \in 1 .. n /\ k + 1 \in 1 .. (k + 1) /\ k <= n
      BY <1>2, <2>1
    <3>2. Leads(bs, r[k], X(k)) /\ r[k + 1] = Better(bs, f, r[k], m)
      BY <1>6, <1>8, <3>1 DEF Improves
    <3>3. m \in Inside(bs, l) /\ m \in DOMAIN bs /\ m \in Nat /\ l < m
      BY <1>2, <3>1
    <3>4. /\ \A i \in 1 .. (k + 1) : i = k + 1 \/ i \in 1 .. k
          /\ \A i \in 1 .. k : i \in 1 .. (k + 1) /\ i < k + 1 /\ i \in 1 .. n
      BY <1>2, <2>1
    <3>5. \A i \in 1 .. k : s[i] < m
      BY <1>2, <3>1, <3>4 DEF Rising, n
    <3>. HIDE DEF m
    <3>6. CASE On(bs, uri, m)
      <4>1. f[m] = m /\ m # NoBlock
        BY <1>2, <1>4, <3>3, <3>6 DEF NoBlock
      <4>2. X(k + 1) = X(k) \cup {m}
        BY <3>1, <3>3, <3>4, <3>6 DEF m
      <4>3. \A a \in X(k) : a < m
        BY <3>3, <3>5
      <4>4. X(k) \subseteq DOMAIN bs
        BY <1>2
      <4>. HIDE DEF X
      <4>5. Leads(bs, m, {m})
        BY <1>3, <3>3, LeadsAlone
      <4>6. Leads(bs, IF Shorter(bs, r[k], m) THEN m ELSE r[k], X(k) \cup {m})
        <5>1. {m} \subseteq DOMAIN bs /\ \A a \in X(k), b \in {m} : a < b
          BY <3>3, <4>3
        <5>. QED  BY <1>2, <1>3, <3>2, <4>4, <4>5, <5>1, LeadsBoth
      <4>. QED  BY <3>2, <4>1, <4>2, <4>6 DEF Better
    <3>7. CASE ~ On(bs, uri, m)
      <4>1. r[k + 1] = r[k]
        BY <1>4, <3>2, <3>3, <3>7 DEF Better
      <4>2. X(k + 1) = X(k)
        BY <3>4, <3>7 DEF m
      <4>. HIDE DEF X
      <4>. QED  BY <3>2, <4>1, <4>2
    <3>. QED  BY <3>6, <3>7
  <2>. HIDE DEF X
  <2>. QED  BY <2>1
<1>9. Leads(bs, r[n], X(n))
  <2>. HIDE DEF X
  <2>1. n \in T
    <3>. HIDE DEF T
    <3>. QED  BY <1>2, <1>7, <1>8, Inductive
  <2>2. n <= n
    BY <1>2
  <2>. QED  BY <2>1, <2>2
<1>10. X(n) = Under(bs, uri, l)
  <2>1. \A m \in Inside(bs, l) : \E i \in 1 .. n : s[i] = m
    BY <1>2 DEF ToSet
  <2>. QED  BY <2>1 DEF Under
<1>. HIDE DEF X
<1>. QED  BY <1>5, <1>6, <1>9, <1>10

\* What can be reached in a location comes before all of the locations behind it.
LEMMA UnderBefore ==
    ASSUME NEW bs, WholeTree(bs), NEW uri, NEW s \in DOMAIN bs,
           NEW l \in Inside(bs, s), NEW d \in Inside(bs, s), l < d,
           NEW a \in Under(bs, uri, l), NEW b \in Under(bs, uri, d)
    PROVE  a < b
<1>1. /\ DOMAIN bs = 1 .. Len(bs) /\ Len(bs) \in Nat
      /\ \A c \in DOMAIN bs : \A m \in Inside(bs, c) : m \in DOMAIN bs /\ m \in Nat /\ c < m
  BY InsideBehind
<1>2. l \in DOMAIN bs /\ l \in Nat /\ d \in DOMAIN bs /\ d \in Nat /\ s < l /\ s < d /\ s \in Nat
  BY <1>1
<1>3. b \in Nat /\ d <= b
  <2>1. b = d \/ b \in Inside(bs, d)
    BY DEF Under
  <2>2. b \in Inside(bs, d) => b \in Nat /\ d < b
    BY <1>1, <1>2
  <2>. QED  BY <1>2, <2>1, <2>2
<1>4. a \in Nat /\ a < d
  <2>1. a = l \/ a \in Inside(bs, l)
    BY DEF Under
  <2>2. ASSUME a \in Inside(bs, l)  PROVE a \in Nat /\ a < d
    <3>1. a \in DOMAIN bs /\ a \in Nat /\ l < a /\ bs[a].parent = l /\ bs[d].parent = s
      BY <1>1, <1>2, <2>2 DEF Inside
    <3>2. a # 1 /\ d # 1
      BY <1>1, <1>2, <3>1
    <3>3. l < d /\ d < a => l <= s
      BY <1>2, <3>1, <3>2 DEF WholeTree
    <3>4. a # d
      BY <1>2, <3>1
    <3>. QED  BY <1>2, <3>1, <3>3, <3>4
  <2>. QED  BY <1>2, <2>1, <2>2
<1>. QED  BY <1>2, <1>3, <1>4

\* query_location_block() where nothing is nested in the nested locations.
LEMMA LocationLeads ==
    ASSUME NEW bs, WholeTree(bs), NEW uri, NEW server \in DOMAIN bs,
           \A l \in Inside(bs, server) : \A m \in Inside(bs, l) : Inside(bs, m) = {}
    PROVE  LET b == LocationBlock(bs, server, uri)
               X == UNION {Under(bs, uri, l) : l \in Inside(bs, server)}
           IN  IF X = {} THEN b = NoBlock ELSE Leads(bs, b, X)
<1>. DEFINE f == BestMatch(bs, uri)
            s == Locations(bs, server)
            n == Len(s)
            U(l) == Under(bs, uri, l)
<1>1. /\ DOMAIN bs = 1 .. Len(bs) /\ Len(bs) \in Nat
      /\ \A c \in DOMAIN bs : \A m \in Inside(bs, c) : m \in DOMAIN bs /\ m \in Nat /\ c < m
  BY InsideBehind
<1>2. /\ s \in Seq(DOMAIN bs) /\ Rising(s) /\ ToSet(s) = Inside(bs, server)
      /\ \A i \in 1 .. n : s[i] \in Inside(bs, server)
      /\ DOMAIN bs \subseteq Nat /\ n \in Nat /\ DOMAIN s = 1 .. n /\ s \in Seq(Nat)
  <2>1. /\ s \in Seq(DOMAIN bs) /\ Rising(s) /\ ToSet(s) = Inside(bs, server)
        /\ \A i \in 1 .. n : s[i] \in Inside(bs, server)
    BY InsideBehind
  <2>2. DOMAIN bs \subseteq Nat
    BY <1>1
  <2>. HIDE DEF s
  <2>. QED  BY <2>1, <2>2
<1>3. \A b \in DOMAIN bs : Len(bs[b].match) \in Nat
  BY DEF WholeTree
<1>4. \A l \in Inside(bs, server) : U(l) \subseteq DOMAIN bs
  BY <1>1 DEF Under, Inside
<1>5. ASSUME NEW l \in Inside(bs, server)
      PROVE  /\ IF U(l) = {} THEN f[l] = NoBlock ELSE Leads(bs, f[l], U(l)) /\ f[l] # NoBlock
             /\ f[l] \in Nat
  <2>1. IF On(bs, uri, l) THEN Leads(bs, f[l], U(l)) ELSE f[l] = NoBlock
    BY <1>1, BestLeads
  <2>2. U(l) = {} <=> ~ On(bs, uri, l)
    BY DEF Under
  <2>3. CASE On(bs, uri, l)
    <3>1. f[l] \in U(l)
      BY <2>1, <2>3 DEF Leads
    <3>2. f[l] \in DOMAIN bs
      BY <1>4, <3>1
    <3>3. f[l] \in Nat /\ f[l] # NoBlock
      BY <1>1, <3>2 DEF NoBlock
    <3>. HIDE DEF f, U
    <3>. QED  BY <2>1, <2>2, <2>3, <3>3
  <2>4. CASE ~ On(bs, uri, l)
    <3>. HIDE DEF f, U
    <3>. QED  BY <2>1, <2>2, <2>4 DEF NoBlock
  <2>. QED  BY <2>3, <2>4
<1>6. \A i, j \in 1 .. n : i < j => \A a \in U(s[i]), b \in U(s[j]) : a < b
  BY <1>2, UnderBefore DEF Rising
<1>. HIDE DEF f, s, n, U
<1>7. PICK r : r[0] = NoBlock /\ Prolongs(r, n, bs, f, s) /\ LocationBlock(bs, server, uri) = r[n]
  <2>1. \A i \in 1 .. Len(s) : f[s[i]] \in Nat
    BY <1>2, <1>5 DEF n
  <2>. QED  BY <1>2, <2>1, LocationBlockSteps DEF f, s, n
<1>. DEFINE X(k) == UNION {U(s[i]) : i \in 1 .. k}
            Led(k) == IF X(k) = {} THEN r[k] = NoBlock
                      ELSE Leads(bs, r[k], X(k)) /\ r[k] # NoBlock
            T == {k \in Nat : k <= n => Led(k)}
<1>8. 0 \in T
  <2>1. X(0) = {}
    OBVIOUS
  <2>. HIDE DEF X
  <2>. QED  BY <1>7, <2>1
<1>9. ASSUME NEW k \in Nat, k \in T  PROVE k + 1 \in T
  <2>. DEFINE l == s[k + 1]
              Z == X(k)
  <2>1. ASSUME k + 1 <= n  PROVE Led(k + 1)
    <3>1. k \in 0 .. n /\ k < n /\ k + 1 \in 1 .. n /\ k + 1 \in 1 .. (k + 1) /\ k <= n
      BY <1>2, <2>1
    <3>2. /\ IF Z = {} THEN r[k] = NoBlock ELSE Leads(bs, r[k], Z) /\ r[k] # NoBlock
          /\ r[k + 1] = Longer(bs, f, r[k], l)
      <4>1. Led(k)
        <5>. HIDE DEF Led
        <5>. QED  BY <1>9, <3>1
      <4>2. r[k + 1] = Longer(bs, f, r[k], l)
        BY <1>7, <3>1 DEF Prolongs
      <4>. HIDE DEF X
      <4>. QED  BY <4>1, <4>2
    <3>3. l \in Inside(bs, server)
      BY <1>2, <3>1
    <3>4. /\ \A i \in 1 .. (k + 1) : i = k + 1 \/ i \in 1 .. k
          /\ \A i \in 1 .. k : i \in 1 .. (k + 1) /\ i < k + 1 /\ i \in 1 .. n
      BY <1>2, <2>1
    <3>5. X(k + 1) = Z \cup U(l)
      BY <3>1, <3>4
    <3>6. \A a \in Z, b \in U(l) : a < b
      BY <1>6, <3>1, <3>4
    <3>7. Z \subseteq DOMAIN bs
      BY <1>2, <1>4, <3>4
    <3>8. /\ IF U(l) = {} THEN f[l] = NoBlock ELSE Leads(bs, f[l], U(l)) /\ f[l] # NoBlock
          /\ U(l) \subseteq DOMAIN bs
      BY <1>4, <1>5, <3>3
    <3>. DEFINE Y == U(l)
    <3>. HIDE DEF X, Z, l, Y
    <3>9. IF Z \cup Y = {} THEN r[k + 1] = NoBlock
          ELSE Leads(bs, r[k + 1], Z \cup Y) /\ r[k + 1] # NoBlock
      <4>1. CASE Y = {}
        <5>1. r[k + 1] = r[k] /\ Z \cup Y = Z
          BY <3>2, <3>8, <4>1 DEF Longer, Y
        <5>. QED  BY <3>2, <5>1
      <4>2. CASE Y # {} /\ Z = {}
        <5>1. r[k + 1] = f[l] /\ Z \cup Y = Y
          BY <3>2, <3>8, <4>2 DEF Longer, Y
        <5>. QED  BY <3>8, <4>2, <5>1 DEF Y
      <4>3. CASE Y # {} /\ Z # {}
        <5>1. /\ Leads(bs, r[k], Z) /\ Leads(bs, f[l], Y) /\ r[k] # NoBlock /\ f[l] # NoBlock
          BY <3>2, <3>8, <4>3 DEF Y
        <5>2. r[k + 1] = IF Shorter(bs, r[k], f[l]) THEN f[l] ELSE r[k]
          BY <3>2, <5>1 DEF Longer
        <5>3. Leads(bs, IF Shorter(bs, r[k], f[l]) THEN f[l] ELSE r[k], Z \cup Y)
          BY <1>2, <1>3, <3>6, <3>7, <3>8, <5>1, LeadsBoth DEF Y
        <5>. QED  BY <4>3, <5>1, <5>2, <5>3
      <4>. QED  BY <4>1, <4>2, <4>3
    <3>. QED  BY <3>5, <3>9 DEF Y
  <2>. HIDE DEF Led
  <2>. QED  BY <2>1
<1>10. Led(n)
  <2>. HIDE DEF Led
  <2>1. n \in T
    <3>. HIDE DEF T
    <3>. QED  BY <1>2, <1>8, <1>9, Inductive
  <2>2. n <= n
    BY <1>2
  <2>. QED  BY <2>1, <2>2
<1>11. X(n) = UNION {U(l) : l \in Inside(bs, server)}
  <2>1. \A l : l \in Inside(bs, server) <=> \E i \in 1 .. n : s[i] = l
    BY <1>2 DEF ToSet
  <2>. QED  BY <2>1
<1>. HIDE DEF X
<1>. QED  BY <1>7, <1>10, <1>11 DEF U

LEMMA ChainOut ==
    ASSUME NEW bs, Parsed(bs), NEW b \in DOMAIN bs, NEW p, p = bs[b].parent
    PROVE  /\ Len(Chain(bs, b)) \in Nat
           /\ p = NoBlock => Len(Chain(bs, b)) = 1 /\ ToSet(Chain(bs, b)) = {b}
           /\ p # NoBlock /\ p \in DOMAIN bs =>
                 /\ Len(Chain(bs, b)) = Len(Chain(bs, p)) + 1
                 /\ ToSet(Chain(bs, b)) = {b} \cup ToSet(Chain(bs, p))
<1>1. Chain(bs, b) = <<b>> \o (IF p = NoBlock THEN <<>> ELSE Chain(bs, p))
  BY ChainStep
<1>2. Chain(bs, b) \in Seq(DOMAIN bs)
  BY ChainIsAround DEF Around
<1>3. ASSUME p = NoBlock  PROVE Len(Chain(bs, b)) = 1 /\ ToSet(Chain(bs, b)) = {b}
  <2>1. Chain(bs, b) = <<b>>
    BY <1>1, <1>3
  <2>. QED  BY <2>1 DEF ToSet
<1>4. ASSUME p # NoBlock, p \in DOMAIN bs
      PROVE  /\ Len(Chain(bs, b)) = Len(Chain(bs, p)) + 1
             /\ ToSet(Chain(bs, b)) = {b} \cup ToSet(Chain(bs, p))
  <2>. DEFINE up   == Chain(bs, p)
              more == <<b>> \o up
              n    == Len(up)
  <2>1. up \in Seq(DOMAIN bs)
    BY <1>4, ChainIsAround DEF Around
  <2>. HIDE DEF up
  <2>2. /\ n \in Nat /\ Len(more) = n + 1 /\ DOMAIN more = 1 .. (n + 1) /\ DOMAIN up = 1 .. n
        /\ more[1] = b /\ \A k \in 1 .. n : more[k + 1] = up[k]
    BY <2>1, JoinOf
  <2>3. Chain(bs, b) = more
    BY <1>1, <1>4 DEF up
  <2>. HIDE DEF more, n
  <2>4. ToSet(more) = {b} \cup ToSet(up)
    <3>1. /\ 1 \in 1 .. (n + 1) /\ \A k \in 1 .. n : k + 1 \in 1 .. (n + 1)
          /\ \A k \in 1 .. (n + 1) : k = 1 \/ (k - 1 \in 1 .. n /\ (k - 1) + 1 = k)
      BY <2>2
    <3>2. ASSUME NEW x \in ToSet(more)  PROVE x \in {b} \cup ToSet(up)
      <4>1. PICK k \in 1 .. (n + 1) : more[k] = x
        BY <2>2, <3>2 DEF ToSet
      <4>2. CASE k = 1
        BY <2>2, <4>1, <4>2
      <4>3. ASSUME k - 1 \in 1 .. n, (k - 1) + 1 = k  PROVE x \in ToSet(up)
        <5>1. up[k - 1] = x
          BY <2>2, <4>1, <4>3
        <5>. QED  BY <2>2, <4>3, <5>1 DEF ToSet
      <4>. QED  BY <3>1, <4>2, <4>3
    <3>3. ASSUME NEW x \in ToSet(up)  PROVE x \in ToSet(more)
      <4>1. PICK k \in 1 .. n : up[k] = x
        BY <2>2, <3>3 DEF ToSet
      <4>2. k + 1 \in 1 .. (n + 1) /\ more[k + 1] = x
        BY <2>2, <3>1, <4>1
      <4>. QED  BY <2>2, <4>2 DEF ToSet
    <3>4. b \in ToSet(more)
      BY <2>2, <3>1 DEF ToSet
    <3>. QED  BY <3>2, <3>3, <3>4
  <2>. QED  BY <2>2, <2>3, <2>4 DEF n, up
<1>5. Len(Chain(bs, b)) \in Nat
  BY <1>2
<1>. QED  BY <1>3, <1>4, <1>5

\* Where nothing is deeper than a location in a location of a server.
LEMMA ShallowTree ==
    ASSUME NEW bs, WholeTree(bs), \A b \in DOMAIN bs : Len(Chain(bs, b)) <= 4,
           NEW l \in DOMAIN bs, bs[l].kind = "location", NEW p, p = bs[l].parent
    PROVE  /\ p \in DOMAIN bs
           /\ \/ bs[p].kind = "server" /\ ToSet(Chain(bs, l)) = {l, p, 1}
              \/ /\ bs[p].kind = "location" /\ bs[p].parent \in DOMAIN bs
                 /\ bs[bs[p].parent].kind = "server"
                 /\ ToSet(Chain(bs, l)) = {l, p, bs[p].parent, 1}
<1>1. /\ Parsed(bs) /\ 1 \in DOMAIN bs /\ bs[1].kind = "http" /\ bs[1].parent = NoBlock
      /\ \A b \in DOMAIN bs : b # 1 => bs[b].parent \in DOMAIN bs /\ Below(bs, b, bs[b].parent)
      /\ \A b : Kind(bs, b, "http") => b = 1
  BY DEF WholeTree
<1>2. \A b \in DOMAIN bs : b # NoBlock
  BY <1>1 DEF Parsed, NoBlock
<1>. DEFINE deep(b) == Len(Chain(bs, b))
<1>3. \A b \in DOMAIN bs : deep(b) \in Nat
  BY <1>1, ChainOut
<1>4. deep(1) = 1 /\ ToSet(Chain(bs, 1)) = {1}
  BY <1>1, ChainOut
<1>5. ASSUME NEW b \in DOMAIN bs, b # 1
      PROVE  /\ bs[b].parent \in DOMAIN bs
             /\ deep(b) = deep(bs[b].parent) + 1
             /\ ToSet(Chain(bs, b)) = {b} \cup ToSet(Chain(bs, bs[b].parent))
  BY <1>1, <1>2, <1>5, ChainOut
<1>. HIDE DEF deep
<1>6. ASSUME NEW b \in DOMAIN bs, b # 1  PROVE bs[b].kind = "server" \/ bs[b].kind = "location"
  BY <1>1, <1>6 DEF Below
<1>7. ASSUME NEW b \in DOMAIN bs, bs[b].kind = "server"
      PROVE  /\ b # 1 /\ bs[b].parent = 1 /\ deep(b) = 2 /\ ToSet(Chain(bs, b)) = {b, 1}
  <2>1. b # 1
    BY <1>1, <1>7
  <2>2. bs[b].parent = 1
    BY <1>1, <1>7, <2>1 DEF Below, Kind
  <2>3. /\ deep(b) = deep(bs[b].parent) + 1
        /\ ToSet(Chain(bs, b)) = {b} \cup ToSet(Chain(bs, bs[b].parent))
    BY <1>5, <2>1
  <2>4. deep(bs[b].parent) = 1 /\ ToSet(Chain(bs, bs[b].parent)) = {1}
    BY <1>4, <2>2
  <2>5. deep(b) = 2
    BY <2>3, <2>4
  <2>6. ToSet(Chain(bs, b)) = {b, 1}
    BY <2>3, <2>4
  <2>. QED  BY <2>1, <2>2, <2>5, <2>6
<1>8. ASSUME NEW b \in DOMAIN bs, bs[b].kind = "location"
      PROVE  /\ b # 1 /\ bs[b].parent \in DOMAIN bs /\ bs[b].parent # 1
             /\ bs[bs[b].parent].kind \in {"server", "location"}
             /\ deep(b) = deep(bs[b].parent) + 1
             /\ ToSet(Chain(bs, b)) = {b} \cup ToSet(Chain(bs, bs[b].parent))
             /\ deep(bs[b].parent) >= 2
  <2>1. b # 1
    BY <1>1, <1>8
  <2>2. bs[b].parent \in DOMAIN bs /\ bs[b].parent # 1
    BY <1>1, <1>8, <2>1 DEF Below
  <2>3. bs[bs[b].parent].kind \in {"server", "location"}
    BY <1>6, <2>2
  <2>4. deep(bs[b].parent) >= 2
    <3>. DEFINE q == bs[b].parent
    <3>1. bs[q].parent \in DOMAIN bs /\ deep(q) = deep(bs[q].parent) + 1
      BY <1>5, <2>2
    <3>2. deep(bs[q].parent) \in Nat /\ deep(bs[q].parent) >= 1
      <4>. DEFINE g == bs[q].parent
      <4>1. CASE g = 1
        BY <1>4, <4>1
      <4>2. CASE g # 1
        <5>1. bs[g].parent \in DOMAIN bs /\ deep(g) = deep(bs[g].parent) + 1
          BY <1>5, <3>1, <4>2
        <5>2. deep(bs[g].parent) \in Nat
          BY <1>3, <5>1
        <5>. QED  BY <5>1, <5>2
      <4>. QED  BY <4>1, <4>2
    <3>. QED  BY <3>1, <3>2
  <2>. QED  BY <1>5, <2>1, <2>2, <2>3, <2>4
<1>9. /\ p \in DOMAIN bs /\ p # 1 /\ bs[p].kind \in {"server", "location"}
      /\ deep(l) = deep(p) + 1
      /\ ToSet(Chain(bs, l)) = {l} \cup ToSet(Chain(bs, p))
  BY <1>8
<1>10. CASE bs[p].kind = "server"
  <2>1. ToSet(Chain(bs, p)) = {p, 1}
    BY <1>7, <1>9, <1>10
  <2>. QED  BY <1>9, <1>10, <2>1
<1>11. CASE bs[p].kind = "location"
  <2>. DEFINE g == bs[p].parent
  <2>1. /\ g \in DOMAIN bs /\ bs[g].kind \in {"server", "location"}
        /\ deep(p) = deep(g) + 1
        /\ ToSet(Chain(bs, p)) = {p} \cup ToSet(Chain(bs, g))
    BY <1>8, <1>9, <1>11
  <2>. HIDE DEF g
  <2>2. bs[g].kind # "location"
    <3>1. ASSUME bs[g].kind = "location"  PROVE FALSE
      <4>1. deep(g) = deep(bs[g].parent) + 1 /\ deep(bs[g].parent) >= 2
            /\ bs[g].parent \in DOMAIN bs
        BY <1>8, <2>1, <3>1
      <4>2. /\ deep(l) <= 4 /\ deep(bs[g].parent) \in Nat
        BY <1>3, <4>1 DEF deep
      <4>. QED  BY <1>9, <2>1, <4>1, <4>2
    <3>. QED  BY <3>1
  <2>3. bs[g].kind = "server" /\ ToSet(Chain(bs, g)) = {g, 1}
    BY <1>7, <2>1, <2>2
  <2>. QED  BY <1>9, <1>11, <2>1, <2>3 DEF g
<1>. QED  BY <1>9, <1>10, <1>11

\* The locations of a server that a path can reach, by the blocks they are in.
LEMMA ReachedIs ==
    ASSUME WholeTree(blocks), Shallow, NEW s \in Servers, NEW uri
    PROVE  /\ Reached(s, uri) = UNION {Under(blocks, uri, l) : l \in Inside(blocks, s)}
           /\ \A l \in Inside(blocks, s) : \A m \in Inside(blocks, l) : Inside(blocks, m) = {}
<1>. DEFINE bs == blocks
            X  == UNION {Under(bs, uri, l) : l \in Inside(bs, s)}
<1>1. s \in DOMAIN bs /\ bs[s].kind = "server" /\ 1 \in DOMAIN bs /\ bs[1].kind = "http"
  BY DEF Servers, WholeTree
<1>2. ASSUME NEW l \in DOMAIN bs, bs[l].kind = "location"
      PROVE  LET p == bs[l].parent
             IN  /\ p \in DOMAIN bs
                 /\ \/ bs[p].kind = "server" /\ ToSet(Chain(bs, l)) = {l, p, 1}
                    \/ /\ bs[p].kind = "location" /\ bs[p].parent \in DOMAIN bs
                       /\ bs[bs[p].parent].kind = "server"
                       /\ ToSet(Chain(bs, l)) = {l, p, bs[p].parent, 1}
  BY <1>2, ShallowTree DEF Shallow
<1>. HIDE DEF bs
<1>3. ASSUME NEW l \in Inside(bs, s), NEW m \in Inside(bs, l)  PROVE Inside(bs, m) = {}
  <2>1. ASSUME NEW c \in Inside(bs, m)  PROVE FALSE
    <3>1. /\ c \in DOMAIN bs /\ bs[c].kind = "location" /\ bs[c].parent = m
          /\ bs[m].kind = "location" /\ bs[m].parent = l /\ bs[l].kind = "location"
      BY <2>1 DEF Inside
    <3>. QED  BY <1>2, <3>1
  <2>. QED  BY <2>1
<1>4. \A l : l \in Reached(s, uri) <=>
         /\ l \in DOMAIN bs /\ s \in ToSet(Chain(bs, l)) /\ bs[l].kind = "location"
         /\ \A m \in ToSet(Chain(bs, l)) : bs[m].kind = "location" => On(bs, uri, m)
  BY DEF Reached, On, bs
<1>5. ASSUME NEW l \in Reached(s, uri)  PROVE l \in X
  <2>. DEFINE p == bs[l].parent
  <2>1. /\ l \in DOMAIN bs /\ s \in ToSet(Chain(bs, l)) /\ bs[l].kind = "location"
        /\ \A m \in ToSet(Chain(bs, l)) : bs[m].kind = "location" => On(bs, uri, m)
    BY <1>4
  <2>2. CASE bs[p].kind = "server" /\ ToSet(Chain(bs, l)) = {l, p, 1}
    <3>1. s = p /\ On(bs, uri, l)
      BY <1>1, <2>1, <2>2
    <3>2. l \in Inside(bs, s) /\ l \in Under(bs, uri, l)
      BY <2>1, <3>1 DEF Inside, Under
    <3>. QED  BY <3>2
  <2>3. CASE /\ bs[p].kind = "location" /\ p \in DOMAIN bs /\ bs[bs[p].parent].kind = "server"
             /\ ToSet(Chain(bs, l)) = {l, p, bs[p].parent, 1}
    <3>1. s = bs[p].parent /\ On(bs, uri, l) /\ On(bs, uri, p)
      BY <1>1, <2>1, <2>3
    <3>2. p \in Inside(bs, s) /\ l \in Inside(bs, p)
      BY <2>1, <2>3, <3>1 DEF Inside
    <3>3. l \in Under(bs, uri, p)
      BY <3>1, <3>2 DEF Under
    <3>. QED  BY <3>2, <3>3
  <2>. QED  BY <1>2, <2>1, <2>2, <2>3
<1>6. ASSUME NEW l \in X  PROVE l \in Reached(s, uri)
  <2>1. PICK d \in Inside(bs, s) : l \in Under(bs, uri, d)
    OBVIOUS
  <2>2. /\ d \in DOMAIN bs /\ bs[d].kind = "location" /\ bs[d].parent = s /\ On(bs, uri, d)
    BY <2>1 DEF Inside, Under
  <2>3. CASE l = d
    <3>1. ToSet(Chain(bs, l)) = {l, s, 1}
      BY <1>1, <1>2, <2>2, <2>3
    <3>. QED  BY <1>1, <1>4, <2>2, <2>3, <3>1
  <2>4. CASE l \in Inside(bs, d) /\ On(bs, uri, l)
    <3>1. l \in DOMAIN bs /\ bs[l].kind = "location" /\ bs[l].parent = d
      BY <2>4 DEF Inside
    <3>2. ToSet(Chain(bs, l)) = {l, d, s, 1}
      BY <1>1, <1>2, <2>2, <3>1
    <3>. QED  BY <1>1, <1>4, <2>2, <2>4, <3>1, <3>2
  <2>. QED  BY <2>1, <2>2, <2>3, <2>4 DEF Under
<1>7. Reached(s, uri) = X
  <2>. HIDE DEF X
  <2>. QED  BY <1>5, <1>6
<1>. QED  BY <1>3, <1>7 DEF bs

LEMMA InvLongest == TextInv /\ TreeInv => ShallowLongestMatch
<1>. SUFFICES ASSUME TextInv, TreeInv, Complete, Shallow, NEW s \in Servers, NEW uri \in Uris
              PROVE  FirstLongest(s, uri)
  BY DEF ShallowLongestMatch
<1>. DEFINE bs      == blocks
            reached == Reached(s, uri)
            longest == {l \in reached : \A m \in reached : ~Shorter(bs, l, m)}
            b       == LocationBlock(bs, s, uri)
<1>1. WholeTree(bs)
  BY IsWholeTree
<1>2. IF reached = {} THEN b = NoBlock ELSE Leads(bs, b, reached)
  <2>1. s \in DOMAIN bs
    BY DEF Servers
  <2>2. /\ reached = UNION {Under(bs, uri, l) : l \in Inside(bs, s)}
        /\ \A l \in Inside(bs, s) : \A m \in Inside(bs, l) : Inside(bs, m) = {}
    BY <1>1, ReachedIs
  <2>. QED  BY <1>1, <2>1, <2>2, LocationLeads
<1>3. reached \subseteq Nat
  <2>1. reached \subseteq DOMAIN bs
    BY DEF Reached
  <2>2. DOMAIN bs \subseteq Nat
    BY TopIs
  <2>. QED  BY <2>1, <2>2
<1>4. FirstLongest(s, uri) <=> b = IF reached = {} THEN NoBlock ELSE Min(longest)
  BY DEF FirstLongest
<1>. HIDE DEF b, reached, bs
<1>5. CASE reached # {}
  <2>1. /\ b \in longest /\ \A y \in longest : b <= y
    BY <1>2, <1>5 DEF Leads
  <2>2. longest \subseteq Nat
    BY <1>3
  <2>. HIDE DEF longest
  <2>3. Min(longest) \in longest /\ \A y \in longest : Min(longest) <= y
    BY <2>1, <2>2, MinOf
  <2>4. b \in Nat /\ Min(longest) \in Nat /\ b <= Min(longest) /\ Min(longest) <= b
    BY <2>1, <2>2, <2>3
  <2>5. b = Min(longest)
    BY <2>4
  <2>. QED  BY <1>4, <1>5, <2>5 DEF longest
<1>. QED  BY <1>2, <1>4, <1>5

\* Location.cpp:68-92, Configuration.cpp:158-182: in every file whose locations are nested
\* once at most query_location_block() gives a path the location with the longest match that
\* it can reach, and of several with that length the first of the file.
THEOREM ShallowLongestMatchAlways == SpecText => []ShallowLongestMatch
<1>1. InitText => TextInv /\ TreeInv
  BY InitTextInv, InitTreeInv
<1>2. (TextInv /\ TreeInv) /\ [NextText]_text => (TextInv /\ TreeInv)'
  BY NextTextInv, NextTreeInv
<1>3. TextInv /\ TreeInv => ShallowLongestMatch
  BY InvLongest
<1>. QED  BY <1>1, <1>2, <1>3, PTL DEF SpecText

-------------------------------------------------------------------------------
(* The sockets and the location cache                                          *)

\* The positions of the servers in the file, the addresses of all of them, and what an
\* element of server_cache_ is before its socket listens.
Positions == DOMAIN HttpServers(Config)
AllHosts  == UNION {Hosts(s) : s \in ToSet(HttpServers(Config))}
Entry     == [address : AllHosts, blocks : Seq(DOMAIN Config), fd : {NoFd}]

\* The servers of the file listed in a cache element are those at some positions, in the
\* order of the file.
Listed(listed, P) ==
    \E pos \in Seq(Positions) :
        /\ Len(pos) = Len(listed) /\ ToSet(pos) = P
        /\ \A j, k \in DOMAIN pos : j <= k => pos[j] <= pos[k]
        /\ \A j \in DOMAIN pos : listed[j] = HttpServers(Config)[pos[j]]

\* The cache when the addresses of D, pairs of a server's position and an address of it,
\* have been added.
Caches(known, D) ==
    /\ known \in Seq(Entry)
    /\ \A k \in DOMAIN known : \E d \in D : known[k].address = d[2]
    /\ \A j, k \in DOMAIN known : Equal(known[j].address, known[k].address) => j = k
    /\ \A d \in D : \E k \in DOMAIN known : Equal(known[k].address, d[2])
    /\ \A k \in DOMAIN known :
          Listed(known[k].blocks, {d[1] : d \in {x \in D : Equal(known[k].address, x[2])}})

\* A server that comes last is listed last.
LEMMA ListedLast ==
    ASSUME NEW listed, NEW P \in SUBSET Positions, Listed(listed, P), listed \in Seq(DOMAIN Config),
           NEW i \in Positions, \A p \in P : p <= i
    PROVE  Listed(Append(listed, HttpServers(Config)[i]), P \cup {i})
<1>. DEFINE S == HttpServers(Config)
<1>0. S \in Seq(DOMAIN Config) /\ Positions = 1 .. Len(S) /\ Len(S) \in Nat
  BY ConfigAssumption DEF Positions
<1>. HIDE DEF S
<1>1. PICK pos \in Seq(Positions) :
        /\ Len(pos) = Len(listed) /\ ToSet(pos) = P
        /\ \A j, k \in DOMAIN pos : j <= k => pos[j] <= pos[k]
        /\ \A j \in DOMAIN pos : listed[j] = S[pos[j]]
  BY DEF Listed, S
<1>. DEFINE more == Append(pos, i)
            n    == Len(pos)
<1>2. /\ more \in Seq(Positions) /\ Len(more) = n + 1 /\ n \in Nat
      /\ DOMAIN more = 1 .. (n + 1) /\ DOMAIN pos = 1 .. n
      /\ \A j \in 1 .. n : more[j] = pos[j]
      /\ more[n + 1] = i
  BY <1>1
<1>3. /\ Len(Append(listed, S[i])) = n + 1
      /\ \A j \in 1 .. n : Append(listed, S[i])[j] = listed[j]
      /\ Append(listed, S[i])[n + 1] = S[i]
  BY <1>0, <1>1
<1>. HIDE DEF more, n
<1>4. ToSet(more) = P \cup {i}
  <2>1. \A j \in 1 .. n : pos[j] \in P
    BY <1>1, <1>2 DEF ToSet
  <2>2. \A p \in P : \E j \in 1 .. n : pos[j] = p
    BY <1>1, <1>2 DEF ToSet
  <2>3. \A j \in 1 .. (n + 1) : j \in 1 .. n \/ j = n + 1
    BY <1>2
  <2>4. \A j \in 1 .. n : j \in 1 .. (n + 1)
    BY <1>2
  <2>5. n + 1 \in 1 .. (n + 1)
    BY <1>2
  <2>6. ToSet(more) \subseteq P \cup {i}
    BY <1>2, <2>1, <2>3 DEF ToSet
  <2>7. P \cup {i} \subseteq ToSet(more)
    BY <1>2, <2>2, <2>4, <2>5 DEF ToSet
  <2>. QED  BY <2>6, <2>7
<1>5. ASSUME NEW j \in DOMAIN more, NEW k \in DOMAIN more, j <= k  PROVE more[j] <= more[k]
  <2>1. CASE k \in 1 .. n
    BY <1>1, <1>2, <1>5, <2>1
  <2>2. CASE k = n + 1
    <3>1. more[j] = i \/ more[j] \in P
      BY <1>2, <1>1 DEF ToSet
    <3>2. more[k] = i /\ i <= i
      BY <1>0, <1>2, <2>2
    <3>. QED  BY <3>1, <3>2
  <2>. QED  BY <1>2, <2>1, <2>2
<1>6. \A j \in DOMAIN more : Append(listed, S[i])[j] = S[more[j]]
  BY <1>1, <1>2, <1>3
<1>. QED  BY <1>2, <1>3, <1>4, <1>5, <1>6 DEF Listed, S

\* The positions whose addresses went to an element.
PlacesOf(D, address) == {d[1] : d \in {x \in D : Equal(address, x[2])}}

LEMMA EqualHosts ==
    /\ \A a : Equal(a, a)
    /\ \A a, b : Equal(a, b) => Equal(b, a)
    /\ \A a, b, c : Equal(a, b) /\ Equal(b, c) => Equal(a, c)
BY DEF Equal

LEMMA PlacesGrow ==
    ASSUME NEW D, NEW E, NEW pair, \A d : d \in E <=> d \in D \/ d = pair, NEW address
    PROVE  PlacesOf(E, address)
           = PlacesOf(D, address) \cup (IF Equal(address, pair[2]) THEN {pair[1]} ELSE {})
<1>1. \A p, C : p \in PlacesOf(C, address) <=> \E d \in C : Equal(address, d[2]) /\ p = d[1]
  BY DEF PlacesOf
<1>2. \A p : p \in PlacesOf(E, address)
            <=> p \in PlacesOf(D, address) \/ (Equal(address, pair[2]) /\ p = pair[1])
  BY <1>1
<1>. QED  BY <1>2

\* add_unique_server_cache() of an address of a server that comes last.
LEMMA AddKeeps ==
    ASSUME NEW known, NEW D \in SUBSET (Positions \X AllHosts), Caches(known, D),
           NEW i \in Positions, NEW a \in Hosts(HttpServers(Config)[i]),
           \A d \in D : d[1] <= i
    PROVE  Caches(AddUnique(known, a, HttpServers(Config)[i]), D \cup {<<i, a>>})
<1>. DEFINE s    == HttpServers(Config)[i]
            E    == D \cup {<<i, a>>}
            same == {k \in DOMAIN known : Equal(known[k].address, a)}
            n    == Len(known)
<1>1. /\ Positions = 1 .. Len(HttpServers(Config)) /\ s \in DOMAIN Config
      /\ a \in AllHosts /\ s \in ToSet(HttpServers(Config))
  BY ConfigAssumption DEF Positions, AllHosts, ToSet
<1>2. known \in Seq(Entry) /\ n \in Nat /\ DOMAIN known = 1 .. n
  BY DEF Caches
<1>3. \A k \in DOMAIN known :
          /\ known[k].address \in AllHosts /\ known[k].blocks \in Seq(DOMAIN Config)
          /\ known[k].fd = NoFd
  <2>1. \A k \in DOMAIN known : known[k] \in Entry
    BY <1>2
  <2>. QED  BY <2>1 DEF Entry
<1>4. \A k \in DOMAIN known : Listed(known[k].blocks, PlacesOf(D, known[k].address))
  BY DEF Caches, PlacesOf
<1>c. /\ \A k \in DOMAIN known : \E d \in D : known[k].address = d[2]
      /\ \A j, k \in DOMAIN known : Equal(known[j].address, known[k].address) => j = k
      /\ \A d \in D : \E k \in DOMAIN known : Equal(known[k].address, d[2])
  BY DEF Caches
<1>e. \A d : d \in E <=> d \in D \/ d = <<i, a>>
  OBVIOUS
<1>g. \A address : PlacesOf(E, address)
                   = PlacesOf(D, address) \cup (IF Equal(address, a) THEN {i} ELSE {})
  <2>. DEFINE pair == <<i, a>>
  <2>1. pair[1] = i /\ pair[2] = a /\ \A d : d \in E <=> d \in D \/ d = pair
    OBVIOUS
  <2>. HIDE DEF E, pair
  <2>. QED  BY <2>1, PlacesGrow
<1>5. CASE same = {}
  <2>. DEFINE e    == [address |-> a, blocks |-> <<s>>, fd |-> NoFd]
              more == Append(known, e)
  <2>1. AddUnique(known, a, s) = more
    BY <1>5 DEF AddUnique
  <2>2. e \in Entry
    BY <1>1 DEF Entry
  <2>3. e.address = a /\ e.blocks = <<s>>
    OBVIOUS
  <2>. HIDE DEF e
  <2>4. /\ more \in Seq(Entry) /\ DOMAIN more = 1 .. (n + 1)
        /\ \A k \in DOMAIN known : more[k] = known[k]
        /\ more[n + 1] = e
    BY <1>2, <2>2
  <2>5. /\ \A k \in DOMAIN more : k \in DOMAIN known \/ k = n + 1
        /\ \A k \in DOMAIN known : k \in DOMAIN more
        /\ n + 1 \in DOMAIN more
    BY <1>2, <2>4
  <2>. HIDE DEF more, n
  <2>6. \A k \in DOMAIN known : ~ Equal(known[k].address, a)
    BY <1>5
  <2>7. \A k \in DOMAIN more : \E d \in E : more[k].address = d[2]
    <3>1. ASSUME NEW k \in DOMAIN known  PROVE \E d \in E : more[k].address = d[2]
      <4>1. PICK d \in D : known[k].address = d[2]
        BY <1>c
      <4>. HIDE DEF E
      <4>. QED  BY <1>e, <2>4, <4>1
    <3>2. <<i, a>> \in E /\ <<i, a>>[2] = a
      OBVIOUS
    <3>. HIDE DEF E
    <3>. QED  BY <2>3, <2>4, <2>5, <3>1, <3>2
  <2>8. \A j, k \in DOMAIN more : Equal(more[j].address, more[k].address) => j = k
    BY <1>c, <2>3, <2>4, <2>5, <2>6, EqualHosts
  <2>9. \A d \in E : \E k \in DOMAIN more : Equal(more[k].address, d[2])
    <3>1. ASSUME NEW d \in D  PROVE \E k \in DOMAIN more : Equal(more[k].address, d[2])
      BY <1>c, <2>4, <2>5, <3>1
    <3>2. \E k \in DOMAIN more : Equal(more[k].address, a)
      BY <2>3, <2>4, <2>5, EqualHosts
    <3>. QED  BY <3>1, <3>2
  <2>10. ASSUME NEW k \in DOMAIN more
         PROVE  Listed(more[k].blocks, PlacesOf(E, more[k].address))
    <3>1. CASE k \in DOMAIN known
      <4>. HIDE DEF E
      <4>1. PlacesOf(E, known[k].address) = PlacesOf(D, known[k].address)
        BY <1>g, <2>6, <3>1
      <4>. QED  BY <1>4, <2>4, <3>1, <4>1
    <3>2. CASE k = n + 1
      <4>1. PlacesOf(D, a) = {}
        <5>. SUFFICES ASSUME NEW d \in D, Equal(a, d[2])  PROVE FALSE
          BY DEF PlacesOf
        <5>1. PICK j \in DOMAIN known : Equal(known[j].address, d[2])
          BY <1>c
        <5>. QED  BY <2>6, <5>1, EqualHosts
      <4>2. PlacesOf(E, a) = {i}
        <5>. HIDE DEF E
        <5>. QED  BY <1>g, <4>1, EqualHosts
      <4>3. Listed(<<s>>, {i})
        <5>1. <<i>> \in Seq(Positions) /\ Len(<<i>>) = 1 /\ Len(<<s>>) = 1
          OBVIOUS
        <5>2. DOMAIN <<i>> = {1} /\ <<i>>[1] = i /\ <<s>>[1] = s /\ i <= i
          BY <1>1
        <5>3. ToSet(<<i>>) = {i}
          BY <5>2 DEF ToSet
        <5>. QED  BY <5>1, <5>2, <5>3 DEF Listed
      <4>. HIDE DEF E
      <4>. QED  BY <2>3, <2>4, <3>2, <4>2, <4>3
    <3>. QED  BY <2>5, <3>1, <3>2
  <2>. HIDE DEF E
  <2>11. Caches(more, E)
    BY <2>4, <2>7, <2>8, <2>9, <2>10 DEF Caches, PlacesOf
  <2>. QED  BY <2>1, <2>11 DEF E
<1>6. CASE same # {}
  <2>. DEFINE m    == Min(same)
              more == [known EXCEPT ![m].blocks = Append(@, s)]
  <2>1. AddUnique(known, a, s) = more
    BY <1>6 DEF AddUnique
  <2>2. m \in DOMAIN known /\ Equal(known[m].address, a)
    <3>1. same \subseteq Nat
      BY <1>2
    <3>. QED  BY <1>6, <3>1, MinOf
  <2>. HIDE DEF m
  <2>3. /\ DOMAIN more = DOMAIN known
        /\ \A k \in DOMAIN known : k # m => more[k] = known[k]
        /\ more[m] = [known[m] EXCEPT !.blocks = Append(@, s)]
    BY <1>2, <2>2
  <2>4. /\ more[m].address = known[m].address
        /\ more[m].blocks = Append(known[m].blocks, s)
        /\ more[m] \in Entry
    <3>1. known[m] \in Entry
      BY <1>2, <2>2
    <3>2. Append(known[m].blocks, s) \in Seq(DOMAIN Config)
      BY <1>1, <1>3, <2>2
    <3>3. [known[m] EXCEPT !.blocks = Append(@, s)] \in Entry
      <4>. DEFINE b == Append(known[m].blocks, s)
      <4>. HIDE DEF b
      <4>1. [known[m] EXCEPT !.blocks = b] \in Entry
        BY <3>1, <3>2 DEF Entry, b
      <4>. QED  BY <4>1 DEF b
    <3>4. /\ [known[m] EXCEPT !.blocks = Append(@, s)].address = known[m].address
          /\ [known[m] EXCEPT !.blocks = Append(@, s)].blocks = Append(known[m].blocks, s)
      BY <3>1 DEF Entry
    <3>. HIDE DEF more, s, Entry
    <3>. QED  BY <2>3, <3>3, <3>4
  <2>5. more \in Seq(Entry)
    BY <1>2, <2>3, <2>4
  <2>. HIDE DEF more, same, n
  <2>6. \A k \in DOMAIN known : more[k].address = known[k].address
    BY <2>3, <2>4
  <2>7. \A k \in DOMAIN more : \E d \in E : more[k].address = d[2]
    <3>. SUFFICES ASSUME NEW k \in DOMAIN known
                  PROVE  \E d \in E : more[k].address = d[2]
      BY <2>3
    <3>1. PICK d \in D : known[k].address = d[2]
      BY <1>c
    <3>. HIDE DEF E
    <3>. QED  BY <1>e, <2>6, <3>1
  <2>8. \A j, k \in DOMAIN more : Equal(more[j].address, more[k].address) => j = k
    BY <1>c, <2>3, <2>6
  <2>9. \A d \in E : \E k \in DOMAIN more : Equal(more[k].address, d[2])
    <3>1. ASSUME NEW d \in D  PROVE \E k \in DOMAIN more : Equal(more[k].address, d[2])
      BY <1>c, <2>3, <2>6, <3>1
    <3>2. \E k \in DOMAIN more : Equal(more[k].address, a)
      BY <2>2, <2>3, <2>6
    <3>. QED  BY <3>1, <3>2
  <2>10. ASSUME NEW k \in DOMAIN more
         PROVE  Listed(more[k].blocks, PlacesOf(E, more[k].address))
    <3>1. CASE k # m
      <4>1. ~ Equal(known[k].address, a)
        BY <1>c, <2>2, <2>3, <3>1, EqualHosts
      <4>. HIDE DEF E
      <4>2. PlacesOf(E, known[k].address) = PlacesOf(D, known[k].address)
        BY <1>g, <4>1
      <4>. QED  BY <1>4, <2>3, <2>6, <3>1, <4>2
    <3>2. CASE k = m
      <4>. DEFINE P == PlacesOf(D, known[m].address)
      <4>1. PlacesOf(E, known[m].address) = P \cup {i}
        <5>. HIDE DEF E
        <5>. QED  BY <1>g, <2>2
      <4>2. P \in SUBSET Positions /\ \A p \in P : p <= i
        BY DEF PlacesOf
      <4>3. Listed(known[m].blocks, P) /\ known[m].blocks \in Seq(DOMAIN Config)
        BY <1>3, <1>4, <2>2
      <4>. HIDE DEF P, E, s
      <4>4. Listed(Append(known[m].blocks, s), P \cup {i})
        BY <4>2, <4>3, ListedLast DEF s
      <4>. QED  BY <2>4, <3>2, <4>1, <4>4
    <3>. QED  BY <3>1, <3>2
  <2>. HIDE DEF E
  <2>11. Caches(more, E)
    BY <2>5, <2>7, <2>8, <2>9, <2>10 DEF Caches, PlacesOf
  <2>. QED  BY <2>1, <2>11 DEF E
<1>. QED  BY <1>5, <1>6

LEMMA AddUniqueEntries ==
    ASSUME NEW known \in Seq(Entry), NEW a \in AllHosts, NEW s \in DOMAIN Config
    PROVE  AddUnique(known, a, s) \in Seq(Entry)
<1>. DEFINE same == {k \in DOMAIN known : Equal(known[k].address, a)}
            m    == Min(same)
            b    == Append(known[m].blocks, s)
<1>1. CASE same = {}
  <2>1. [address |-> a, blocks |-> <<s>>, fd |-> NoFd] \in Entry
    BY DEF Entry
  <2>. QED  BY <1>1, <2>1 DEF AddUnique
<1>2. CASE same # {}
  <2>1. m \in DOMAIN known
    <3>1. same \subseteq Nat
      OBVIOUS
    <3>. HIDE DEF same
    <3>2. m \in same
      BY <1>2, <3>1, MinOf
    <3>. QED  BY <3>2 DEF same
  <2>. HIDE DEF m
  <2>2. known[m] \in Entry
    BY <2>1
  <2>3. b \in Seq(DOMAIN Config)
    BY <2>2 DEF Entry
  <2>. HIDE DEF b
  <2>4. [known[m] EXCEPT !.blocks = b] \in Entry
    BY <2>2, <2>3 DEF Entry
  <2>. HIDE DEF Entry
  <2>5. [known EXCEPT ![m] = [known[m] EXCEPT !.blocks = b]] \in Seq(Entry)
    BY <2>1, <2>4
  <2>. QED  BY <1>2, <2>5 DEF AddUnique, m, b
<1>. QED  BY <1>1, <1>2

\* The servers and their addresses are added one after the other.
LEMMA AddServerSteps ==
    ASSUME NEW known \in Seq(Entry), NEW s \in ToSet(HttpServers(Config))
    PROVE  \E c : /\ c[0] = known
                  /\ \A k \in 0 .. Len(Addresses(Config, s)) : k < Len(Addresses(Config, s)) =>
                        c[k + 1] = AddUnique(c[k], Addresses(Config, s)[k + 1], s)
                  /\ AddServer(known, s) = c[Len(Addresses(Config, s))]
<1>. DEFINE seq  == Addresses(Config, s)
            n    == Len(seq)
            V    == Seq(Entry)
            F    == [x \in V \X (1 .. n) |-> AddUnique(x[1], seq[x[2]], s)]
            Eq(it) == it = [t \in SUBSET (1 .. n) |->
                              IF t = {} THEN known
                              ELSE AddUnique(it[t \ {Max(t)}], seq[Max(t)], s)]
<1>1. n \in Nat /\ DOMAIN seq = 1 .. n
  BY ConfigAssumption
<1>2. F \in [V \X (1 .. n) -> V]
  <2>1. s \in DOMAIN Config
    BY ConfigAssumption DEF ToSet
  <2>2. \A k \in 1 .. n : seq[k] \in AllHosts
    <3>1. \A k \in 1 .. n : seq[k] \in Hosts(s)
      BY <1>1 DEF Hosts, ToSet
    <3>. QED  BY <3>1 DEF AllHosts
  <2>3. \A v \in V, k \in 1 .. n : AddUnique(v, seq[k], s) \in V
    <3>. HIDE DEF n, seq
    <3>. QED  BY <2>1, <2>2, AddUniqueEntries
  <2>. HIDE DEF n, V, seq
  <2>. QED  BY <2>3
<1>3. AddServer(known, s) = (CHOOSE it : Eq(it))[1 .. n]
  BY <1>1 DEF AddServer, FoldLeft, MapThenFoldSet
<1>4. \E it : Eq(it)
  <2>1. PICK it : FoldsTo(it, n, V, known, F)
    <3>1. known \in V
      OBVIOUS
    <3>. HIDE DEF n, V, F
    <3>. QED  BY <1>1, <1>2, <3>1, FoldExists
  <2>2. it = [t \in SUBSET (1 .. n) |-> IF t = {} THEN known
                                        ELSE F[<<it[t \ {Max(t)}], Max(t)>>]]
    BY <2>1 DEF FoldsTo
  <2>3. \A t \in SUBSET (1 .. n) : t # {} =>
            F[<<it[t \ {Max(t)}], Max(t)>>] = AddUnique(it[t \ {Max(t)}], seq[Max(t)], s)
    <3>1. \A t \in SUBSET (1 .. n) : t # {} => Max(t) \in 1 .. n /\ it[t \ {Max(t)}] \in V
      <4>. HIDE DEF n, V, F
      <4>. QED  BY <1>1, <2>1, FoldValues
    <3>. HIDE DEF n, V, seq
    <3>. QED  BY <3>1
  <2>. HIDE DEF n, F, seq
  <2>4. [t \in SUBSET (1 .. n) |-> IF t = {} THEN known
                                   ELSE F[<<it[t \ {Max(t)}], Max(t)>>]]
        = [t \in SUBSET (1 .. n) |-> IF t = {} THEN known
                                     ELSE AddUnique(it[t \ {Max(t)}], seq[Max(t)], s)]
    BY <2>3
  <2>5. Eq(it)
    BY <2>2, <2>4
  <2>. HIDE DEF Eq
  <2>. QED  BY <2>5
<1>. DEFINE c    == CHOOSE it : Eq(it)
            adds == [k \in 0 .. n |-> c[1 .. k]]
<1>5. Eq(c)
  <2>. HIDE DEF Eq
  <2>. QED  BY <1>4
<1>6. AddServer(known, s) = c[1 .. n]
  BY <1>3
<1>. HIDE DEF n, c
<1>7. adds[0] = known /\ AddServer(known, s) = adds[n]
  <2>1. 1 .. 0 = {} /\ 0 \in 0 .. n /\ n \in 0 .. n
    BY <1>1
  <2>2. c[{}] = known
    BY <1>5
  <2>. QED  BY <1>6, <2>1, <2>2
<1>8. ASSUME NEW k \in 0 .. n, k < n
      PROVE  adds[k + 1] = AddUnique(adds[k], seq[k + 1], s)
  <2>1. /\ k + 1 \in 0 .. n /\ 1 .. (k + 1) \in SUBSET (1 .. n) /\ 1 .. (k + 1) # {}
        /\ Max(1 .. (k + 1)) = k + 1 /\ (1 .. (k + 1)) \ {k + 1} = 1 .. k
    BY <1>1, <1>8, NextPrefix
  <2>2. c[1 .. (k + 1)] = AddUnique(c[1 .. k], seq[k + 1], s)
    BY <1>5, <2>1
  <2>. QED  BY <2>1, <2>2
<1>. HIDE DEF adds
<1>. QED  BY <1>7, <1>8 DEF n

\* After the addresses of a server its last one is that of the cache.
LEMMA AddServerEntries ==
    ASSUME NEW known \in Seq(Entry), NEW s \in ToSet(HttpServers(Config))
    PROVE  AddServer(known, s) \in Seq(Entry)
<1>. DEFINE seq == Addresses(Config, s)
            n   == Len(seq)
<1>1. PICK c : /\ c[0] = known
               /\ \A k \in 0 .. n : k < n => c[k + 1] = AddUnique(c[k], seq[k + 1], s)
               /\ AddServer(known, s) = c[n]
  BY AddServerSteps
<1>2. n \in Nat /\ \A k \in 1 .. n : seq[k] \in AllHosts
  <2>1. \A k \in 1 .. n : seq[k] \in Hosts(s)
    BY ConfigAssumption DEF Hosts, ToSet
  <2>. QED  BY <2>1, ConfigAssumption DEF AllHosts
<1>3. s \in DOMAIN Config
  BY ConfigAssumption DEF ToSet
<1>. HIDE DEF seq, n
<1>. DEFINE T == {k \in Nat : k <= n => c[k] \in Seq(Entry)}
<1>4. 0 \in T
  BY <1>1
<1>5. ASSUME NEW k \in Nat, k \in T  PROVE k + 1 \in T
  <2>. SUFFICES ASSUME k + 1 <= n  PROVE c[k + 1] \in Seq(Entry)
    OBVIOUS
  <2>1. k \in 0 .. n /\ k < n /\ k + 1 \in 1 .. n /\ c[k] \in Seq(Entry)
    BY <1>2, <1>5
  <2>. HIDE DEF T
  <2>. QED  BY <1>1, <1>2, <1>3, <2>1, AddUniqueEntries
<1>6. n \in T
  <2>. HIDE DEF T
  <2>. QED  BY <1>2, <1>4, <1>5, Inductive
<1>. QED  BY <1>1, <1>2, <1>6

LEMMA AddServerKeeps ==
    ASSUME NEW known, NEW D \in SUBSET (Positions \X AllHosts), Caches(known, D),
           NEW i \in Positions, \A d \in D : d[1] <= i
    PROVE  Caches(AddServer(known, HttpServers(Config)[i]),
                  D \cup ({i} \X Hosts(HttpServers(Config)[i])))
<1>. DEFINE s   == HttpServers(Config)[i]
            seq == Addresses(Config, s)
            n   == Len(seq)
            E(k) == D \cup {<<i, seq[j]>> : j \in 1 .. k}
<1>0. s \in ToSet(HttpServers(Config)) /\ known \in Seq(Entry) /\ i \in Nat
  BY ConfigAssumption DEF Positions, ToSet, Caches
<1>1. PICK c : /\ c[0] = known
               /\ \A k \in 0 .. n : k < n => c[k + 1] = AddUnique(c[k], seq[k + 1], s)
               /\ AddServer(known, s) = c[n]
  <2>. HIDE DEF s
  <2>. QED  BY <1>0, AddServerSteps
<1>2. /\ n \in Nat /\ DOMAIN seq = 1 .. n
      /\ \A k \in 1 .. n : seq[k] \in Hosts(s) /\ seq[k] \in AllHosts
  <2>1. \A k \in 1 .. n : seq[k] \in Hosts(s)
    BY <1>0, ConfigAssumption DEF Hosts, ToSet
  <2>. QED  BY <1>0, <2>1, ConfigAssumption DEF AllHosts
<1>. HIDE DEF seq, n
<1>. DEFINE T == {k \in Nat : k <= n => Caches(c[k], E(k))}
<1>3. 0 \in T
  <2>1. E(0) = D
    OBVIOUS
  <2>. HIDE DEF E
  <2>. QED  BY <1>1, <2>1
<1>4. ASSUME NEW k \in Nat, k \in T  PROVE k + 1 \in T
  <2>. SUFFICES ASSUME k + 1 <= n  PROVE Caches(c[k + 1], E(k + 1))
    OBVIOUS
  <2>1. k \in 0 .. n /\ k < n /\ k + 1 \in 1 .. n /\ Caches(c[k], E(k))
    BY <1>2, <1>4
  <2>2. E(k) \in SUBSET (Positions \X AllHosts) /\ \A d \in E(k) : d[1] <= i
    <3>1. \A j \in 1 .. k : j \in 1 .. n
      BY <1>2, <2>1
    <3>. QED  BY <1>0, <1>2, <3>1
  <2>3. E(k + 1) = E(k) \cup {<<i, seq[k + 1]>>}
    <3>1. 1 .. (k + 1) = (1 .. k) \cup {k + 1}
      OBVIOUS
    <3>. HIDE DEF s
    <3>. QED  BY <3>1
  <2>4. c[k + 1] = AddUnique(c[k], seq[k + 1], s) /\ seq[k + 1] \in Hosts(s)
    BY <1>1, <1>2, <2>1
  <2>. HIDE DEF T, E
  <2>. QED  BY <2>1, <2>2, <2>3, <2>4, AddKeeps
<1>5. n \in T
  <2>. HIDE DEF T
  <2>. QED  BY <1>2, <1>3, <1>4, Inductive
<1>6. E(n) = D \cup ({i} \X Hosts(s))
  <2>1. Hosts(s) = {seq[j] : j \in 1 .. n}
    BY <1>2 DEF Hosts, ToSet, seq
  <2>2. {<<i, seq[j]>> : j \in 1 .. n} = {i} \X {seq[j] : j \in 1 .. n}
    OBVIOUS
  <2>. HIDE DEF s
  <2>. QED  BY <2>1, <2>2
<1>7. Caches(c[n], E(n))
  BY <1>2, <1>5
<1>. HIDE DEF E
<1>. QED  BY <1>1, <1>6, <1>7

LEMMA ServerCacheSteps ==
    \E c : /\ c[0] = <<>>
           /\ \A k \in 0 .. Len(HttpServers(Config)) : k < Len(HttpServers(Config)) =>
                 c[k + 1] = AddServer(c[k], HttpServers(Config)[k + 1])
           /\ ServerCache = c[Len(HttpServers(Config))]
<1>. DEFINE seq  == HttpServers(Config)
            n    == Len(seq)
            V    == Seq(Entry)
            F    == [x \in V \X (1 .. n) |-> AddServer(x[1], seq[x[2]])]
            Eq(it) == it = [t \in SUBSET (1 .. n) |->
                              IF t = {} THEN <<>>
                              ELSE AddServer(it[t \ {Max(t)}], seq[Max(t)])]
<1>1. n \in Nat /\ DOMAIN seq = 1 .. n /\ \A k \in 1 .. n : seq[k] \in ToSet(seq)
  BY ConfigAssumption DEF ToSet
<1>2. F \in [V \X (1 .. n) -> V]
  <2>1. \A v \in V, k \in 1 .. n : AddServer(v, seq[k]) \in V
    <3>. HIDE DEF n
    <3>. QED  BY <1>1, AddServerEntries
  <2>. HIDE DEF n, V, seq
  <2>. QED  BY <2>1
<1>3. ServerCache = (CHOOSE it : Eq(it))[1 .. n]
  BY <1>1 DEF ServerCache, FoldLeft, MapThenFoldSet
<1>4. \E it : Eq(it)
  <2>1. PICK it : FoldsTo(it, n, V, <<>>, F)
    <3>1. <<>> \in V
      OBVIOUS
    <3>. HIDE DEF n, V, F
    <3>. QED  BY <1>1, <1>2, <3>1, FoldExists
  <2>2. it = [t \in SUBSET (1 .. n) |-> IF t = {} THEN <<>>
                                        ELSE F[<<it[t \ {Max(t)}], Max(t)>>]]
    BY <2>1 DEF FoldsTo
  <2>3. \A t \in SUBSET (1 .. n) : t # {} =>
            F[<<it[t \ {Max(t)}], Max(t)>>] = AddServer(it[t \ {Max(t)}], seq[Max(t)])
    <3>1. \A t \in SUBSET (1 .. n) : t # {} => Max(t) \in 1 .. n /\ it[t \ {Max(t)}] \in V
      <4>. HIDE DEF n, V, F
      <4>. QED  BY <1>1, <2>1, FoldValues
    <3>. HIDE DEF n, V, seq
    <3>. QED  BY <3>1
  <2>. HIDE DEF n, F, seq
  <2>4. [t \in SUBSET (1 .. n) |-> IF t = {} THEN <<>>
                                   ELSE F[<<it[t \ {Max(t)}], Max(t)>>]]
        = [t \in SUBSET (1 .. n) |-> IF t = {} THEN <<>>
                                     ELSE AddServer(it[t \ {Max(t)}], seq[Max(t)])]
    BY <2>3
  <2>5. Eq(it)
    BY <2>2, <2>4
  <2>. HIDE DEF Eq
  <2>. QED  BY <2>5
<1>. DEFINE c    == CHOOSE it : Eq(it)
            adds == [k \in 0 .. n |-> c[1 .. k]]
<1>5. Eq(c)
  <2>. HIDE DEF Eq
  <2>. QED  BY <1>4
<1>6. ServerCache = c[1 .. n]
  BY <1>3
<1>. HIDE DEF n, c
<1>7. adds[0] = <<>> /\ ServerCache = adds[n]
  <2>1. 1 .. 0 = {} /\ 0 \in 0 .. n /\ n \in 0 .. n
    BY <1>1
  <2>2. c[{}] = <<>>
    BY <1>5
  <2>. QED  BY <1>6, <2>1, <2>2
<1>8. ASSUME NEW k \in 0 .. n, k < n
      PROVE  adds[k + 1] = AddServer(adds[k], seq[k + 1])
  <2>1. /\ k + 1 \in 0 .. n /\ 1 .. (k + 1) \in SUBSET (1 .. n) /\ 1 .. (k + 1) # {}
        /\ Max(1 .. (k + 1)) = k + 1 /\ (1 .. (k + 1)) \ {k + 1} = 1 .. k
    BY <1>1, <1>8, NextPrefix
  <2>2. c[1 .. (k + 1)] = AddServer(c[1 .. k], seq[k + 1])
    BY <1>5, <2>1
  <2>. QED  BY <2>1, <2>2
<1>. HIDE DEF adds
<1>. QED  BY <1>7, <1>8 DEF n

\* generate_server_cache() lists for each address the servers that have it, in the order
\* of the file.
AllPlaces == {d \in Positions \X AllHosts : d[2] \in Hosts(HttpServers(Config)[d[1]])}

LEMMA ServerCacheOfFile == Caches(ServerCache, AllPlaces)
<1>. DEFINE S    == HttpServers(Config)
            n    == Len(S)
            D(k) == {d \in AllPlaces : d[1] <= k}
<1>1. n \in Nat /\ Positions = 1 .. n
  BY ConfigAssumption DEF Positions
<1>2. PICK c : /\ c[0] = <<>>
               /\ \A k \in 0 .. n : k < n => c[k + 1] = AddServer(c[k], S[k + 1])
               /\ ServerCache = c[n]
  BY ServerCacheSteps
<1>. HIDE DEF n
<1>3. Caches(c[0], D(0))
  <2>1. D(0) = {}
    BY <1>1 DEF AllPlaces
  <2>2. <<>> \in Seq(Entry) /\ DOMAIN (<<>>) = {}
    OBVIOUS
  <2>3. Caches(<<>>, {})
    BY <2>2 DEF Caches
  <2>. HIDE DEF D
  <2>. QED  BY <1>2, <2>1, <2>3
<1>4. ASSUME NEW k \in Nat, k + 1 <= n, Caches(c[k], D(k))  PROVE Caches(c[k + 1], D(k + 1))
  <2>1. /\ k \in 0 .. n /\ k < n /\ k + 1 \in 1 .. n /\ k + 1 \in Positions
        /\ Caches(c[k], D(k)) /\ k <= k + 1
    BY <1>1, <1>4
  <2>2. D(k) \in SUBSET (Positions \X AllHosts) /\ \A d \in D(k) : d[1] <= k + 1
    BY <1>1 DEF AllPlaces
  <2>3. D(k + 1) = D(k) \cup ({k + 1} \X Hosts(S[k + 1]))
    <3>1. Hosts(S[k + 1]) \subseteq AllHosts
      BY <2>1 DEF AllHosts, ToSet, Positions
    <3>2. ASSUME NEW d \in D(k + 1)  PROVE d \in D(k) \cup ({k + 1} \X Hosts(S[k + 1]))
      <4>1. /\ d \in AllPlaces /\ d[1] <= k + 1 /\ d[1] \in 1 .. n
            /\ d \in Positions \X AllHosts /\ d[2] \in Hosts(S[d[1]])
        BY <1>1, <3>2 DEF AllPlaces
      <4>2. d[1] <= k \/ d[1] = k + 1
        BY <1>1, <4>1
      <4>3. d = <<d[1], d[2]>>
        BY <4>1
      <4>. HIDE DEF S
      <4>. QED  BY <4>1, <4>2, <4>3
    <3>3. ASSUME NEW d \in {k + 1} \X Hosts(S[k + 1])  PROVE d \in D(k + 1)
      <4>1. d[1] = k + 1 /\ d[2] \in Hosts(S[k + 1]) /\ d = <<d[1], d[2]>>
        BY <3>3
      <4>2. d \in Positions \X AllHosts
        BY <2>1, <3>1, <4>1
      <4>. QED  BY <4>1, <4>2 DEF AllPlaces
    <3>4. \A d \in D(k) : d \in D(k + 1)
      BY <1>1 DEF AllPlaces
    <3>. HIDE DEF D
    <3>. QED  BY <3>2, <3>3, <3>4
  <2>. HIDE DEF D
  <2>4. Caches(AddServer(c[k], S[k + 1]), D(k) \cup ({k + 1} \X Hosts(S[k + 1])))
    BY <2>1, <2>2, AddServerKeeps
  <2>. QED  BY <1>2, <2>1, <2>3, <2>4
<1>5. Caches(c[n], D(n))
  <2>. DEFINE T == {k \in Nat : k <= n => Caches(c[k], D(k))}
  <2>. HIDE DEF D
  <2>1. 0 \in T
    BY <1>3
  <2>2. ASSUME NEW k \in Nat, k \in T  PROVE k + 1 \in T
    BY <1>1, <1>4, <2>2
  <2>3. n \in T
    <3>. HIDE DEF T
    <3>. QED  BY <1>1, <2>1, <2>2, Inductive
  <2>. QED  BY <1>1, <2>3
<1>6. D(n) = AllPlaces
  BY <1>1 DEF AllPlaces
<1>. HIDE DEF D
<1>. QED  BY <1>1, <1>2, <1>5, <1>6

-------------------------------------------------------------------------------
(* What is open and allocated in every stage                                   *)

Trying == {"socket", "options", "bind", "listen"}     \* a list of addresses is in use
Opened == {"options", "bind", "listen"}               \* and a socket is open

OpenInv ==
    /\ \E S : servers \in Seq(S)
    /\ stage = "ended" => servers = <<>>
    /\ infos = Len(servers) + (IF stage \in Trying THEN 1 ELSE 0)
    /\ open = Listening \cup (IF stage \in Opened THEN {fd} ELSE {})
    /\ stage \in Opened => fd \notin Listening

\* What Append() does to the descriptors of a sequence.
LEMMA AppendListens ==
    ASSUME NEW S, NEW s \in Seq(S), NEW e
    PROVE  /\ Append(s, e) \in Seq(S \cup {e})
           /\ Len(Append(s, e)) = Len(s) + 1
           /\ {Append(s, e)[k].fd : k \in DOMAIN Append(s, e)}
              = {s[k].fd : k \in DOMAIN s} \cup {e.fd}
<1>1. s \in Seq(S \cup {e})
  BY SMT
<1>2. /\ Append(s, e) \in Seq(S \cup {e})
      /\ Len(Append(s, e)) = Len(s) + 1
      /\ DOMAIN s = 1 .. Len(s) /\ Len(s) \in Nat
      /\ DOMAIN Append(s, e) = 1 .. (Len(s) + 1)
      /\ \A k \in 1 .. Len(s) : Append(s, e)[k] = s[k]
      /\ Append(s, e)[Len(s) + 1] = e
  BY <1>1, SMT
<1>3. DOMAIN Append(s, e) = DOMAIN s \cup {Len(s) + 1}
  BY <1>2, SMT
<1>. QED  BY <1>2, <1>3

\* At the start there is nothing.
LEMMA InitOpens == InitSockets => OpenInv
<1>. SUFFICES ASSUME InitSockets  PROVE OpenInv
  OBVIOUS
<1>1. servers \in Seq({}) /\ Len(servers) = 0 /\ DOMAIN servers = {}
  BY DEF InitSockets
<1>. QED  BY <1>1 DEF InitSockets, OpenInv, Trying, Opened, Listening

\* Every step of the startup, of the system and of the end keeps the invariant.
LEMMA NextOpens == OpenInv /\ [NextSockets]_sockets => OpenInv'
<1>. SUFFICES ASSUME OpenInv, [NextSockets]_sockets  PROVE OpenInv'
  OBVIOUS
<1>0. PICK S : servers \in Seq(S)
  BY DEF OpenInv
<1>1. CASE AllServerSockets
  BY <1>1 DEF AllServerSockets, OpenInv, Trying, Opened, Listening
<1>2. CASE Resolve \/ ResolveFails
  <2>1. Len(servers) \in Nat
    BY <1>0
  <2>. QED  BY <1>2, <2>1 DEF Resolve, ResolveFails, OpenInv, Trying, Opened, Listening
<1>3. CASE OpenSocket
  <2>1. fd' \notin open /\ open' = open \cup {fd'}
    BY <1>3 DEF OpenSocket
  <2>. QED  BY <1>3, <2>1 DEF OpenSocket, OpenInv, Trying, Opened, Listening
<1>4. CASE OpenFails
  BY <1>4 DEF OpenFails, OpenInv, Trying, Opened, Listening
<1>5. CASE SetOptions \/ Bind
  BY <1>5 DEF SetOptions, Bind, OpenInv, Trying, Opened, Listening
<1>6. CASE BindFails
  BY <1>6 DEF BindFails, OpenInv, Trying, Opened, Listening
<1>7. CASE NoneBound \/ SetUpFails
  <2>1. Len(servers) \in Nat
    BY <1>0
  <2>. QED  BY <1>7, <2>1 DEF NoneBound, SetUpFails, OpenInv, Trying, Opened, Listening
<1>8. CASE ListenOn
  <2>. DEFINE e == [fd |-> fd, address |-> This]
  <2>1. /\ servers' \in Seq(S \cup {e})
        /\ Len(servers') = Len(servers) + 1
        /\ Listening' = Listening \cup {fd}
    BY <1>0, <1>8, AppendListens DEF ListenOn, Listening
  <2>2. stage' \in {"serving", "resolve"}
    BY <1>8 DEF ListenOn
  <2>. HIDE DEF e
  <2>. QED  BY <1>8, <2>1, <2>2 DEF ListenOn, OpenInv, Trying, Opened
<1>9. CASE Destroy
  <2>1. servers' \in Seq({}) /\ Len(servers') = 0 /\ DOMAIN servers' = {} /\ Len(servers) \in Nat
    BY <1>0, <1>9 DEF Destroy
  <2>. QED  BY <1>9, <2>1 DEF Destroy, OpenInv, Trying, Opened, Listening
<1>10. CASE UNCHANGED sockets
  BY <1>10 DEF sockets, OpenInv, Trying, Opened, Listening
<1>. QED  BY <1>1, <1>2, <1>3, <1>4, <1>5, <1>6, <1>7, <1>8, <1>9, <1>10 DEF NextSockets

\* Whatever the system refuses, no descriptor and no list of addresses is lost: what
\* is open listens, and at the end nothing is (SocketManager.cpp:23-32, 36-186).
THEOREM NothingLostAlways == SpecSockets => []NothingLost
<1>1. OpenInv => NothingLost
  <2>. SUFFICES ASSUME OpenInv  PROVE NothingLost
    OBVIOUS
  <2>1. PICK S : servers \in Seq(S)
    BY DEF OpenInv
  <2>2. stage = "ended" => Len(servers) = 0 /\ DOMAIN servers = {}
    BY DEF OpenInv
  <2>. QED  BY <2>1, <2>2 DEF OpenInv, NothingLost, Trying, Opened, Listening
<1>. QED  BY InitOpens, NextOpens, <1>1, PTL DEF SpecSockets

-------------------------------------------------------------------------------
(* Where the sockets lead                                                      *)

Element == [address : AllHosts, blocks : Seq(DOMAIN Config), fd : Int]

\* The cache of the file, whatever descriptors it has.
KeepsCache ==
    /\ server_cache \in Seq(Element)
    /\ Len(server_cache) = Len(ServerCache)
    /\ \A k \in DOMAIN server_cache :
          /\ server_cache[k].address = ServerCache[k].address
          /\ server_cache[k].blocks = ServerCache[k].blocks

\* The first elements of the cache have sockets, each one of its own.
Serves ==
    /\ Len(servers) <= Len(server_cache)
    /\ \A k \in DOMAIN servers :
          servers[k].fd = server_cache[k].fd /\ servers[k].address = server_cache[k].address
    /\ \A j, k \in DOMAIN servers : servers[j].fd = servers[k].fd => j = k

ServesInv ==
    /\ fd \in Int
    /\ stage = "start" => servers = <<>>
    /\ stage # "start" => KeepsCache
    /\ stage \notin {"start", "ended"} => Serves
    /\ stage \in Trying \cup {"resolve"} => Len(servers) < Len(server_cache)
    /\ stage = "serving" => Len(servers) = Len(server_cache)

\* There is a socket for each address, and at least one address.
LEMMA ServerCacheNotEmpty ==
    ServerCache \in Seq(Entry) /\ Len(ServerCache) \in Nat /\ Len(ServerCache) > 0
<1>1. ServerCache \in Seq(Entry)
  BY ServerCacheOfFile DEF Caches
<1>2. \E d \in AllPlaces : TRUE
  <2>1. 1 \in Positions /\ HttpServers(Config)[1] \in ToSet(HttpServers(Config))
    BY ConfigAssumption DEF Positions, ToSet
  <2>. DEFINE s == HttpServers(Config)[1]
              h == Addresses(Config, s)[1]
  <2>2. h \in Hosts(s)
    <3>. HIDE DEF s
    <3>1. Addresses(Config, s) \in Seq(Hosts(s)) /\ Addresses(Config, s) # <<>>
      BY <2>1, ConfigAssumption DEF s
    <3>. QED  BY <3>1
  <2>. HIDE DEF h
  <2>3. h \in AllHosts
    BY <2>1, <2>2 DEF AllHosts
  <2>. DEFINE d == <<1, h>>
  <2>4. d \in Positions \X AllHosts /\ d[1] = 1 /\ d[2] = h
    BY <2>1, <2>3
  <2>5. d \in AllPlaces
    BY <2>2, <2>4 DEF AllPlaces
  <2>. QED  BY <2>5
<1>3. \E k \in DOMAIN ServerCache : TRUE
  BY <1>2, ServerCacheOfFile DEF Caches
<1>. QED  BY <1>1, <1>3

LEMMA InitServes == InitSockets => ServesInv
<1>. SUFFICES ASSUME InitSockets  PROVE ServesInv
  OBVIOUS
<1>. QED  BY DEF InitSockets, ServesInv, Trying, NoFd

LEMMA ListenServes == OpenInv /\ ServesInv /\ ListenOn => ServesInv'
<1>. SUFFICES ASSUME OpenInv, ServesInv, ListenOn  PROVE ServesInv'
  OBVIOUS
<1>. DEFINE n == Len(servers)
            e == [fd |-> fd, address |-> This]
<1>0. PICK S : servers \in Seq(S)
  BY DEF OpenInv
<1>1. stage = "listen" /\ KeepsCache /\ Serves /\ n < Len(server_cache) /\ fd \notin Listening
  BY DEF ListenOn, ServesInv, OpenInv, Trying, Opened
<1>2. /\ server_cache \in Seq(Element) /\ n \in Nat /\ DOMAIN server_cache = 1 .. Len(server_cache)
      /\ DOMAIN servers = 1 .. n /\ Len(server_cache) = Len(ServerCache)
      /\ ServerCache \in Seq(Entry)
  BY <1>0, <1>1, ServerCacheNotEmpty DEF KeepsCache
<1>3. \A j, k \in DOMAIN server_cache :
          Equal(server_cache[j].address, server_cache[k].address) => j = k
  <2>1. DOMAIN server_cache = DOMAIN ServerCache
    BY <1>2
  <2>. QED  BY <1>1, <2>1, ServerCacheOfFile DEF KeepsCache, Caches
<1>4. n + 1 \in DOMAIN server_cache
  BY <1>1, <1>2
<1>5. server_cache' = [server_cache EXCEPT ![n + 1].fd = fd]
  <2>. DEFINE same == {k \in DOMAIN server_cache : Equal(server_cache[k].address, This)}
  <2>1. same = {n + 1}
    BY <1>3, <1>4, EqualHosts DEF This
  <2>2. Min(same) = n + 1
    <3>1. n + 1 \in Nat
      BY <1>2
    <3>2. Min({n + 1}) \in {n + 1}
      BY <3>1, MinOf
    <3>. QED  BY <2>1, <3>2
  <2>. QED  BY <2>2 DEF ListenOn, Registered
<1>6. /\ servers' = Append(servers, e) /\ Len(servers') = n + 1 /\ DOMAIN servers' = 1 .. (n + 1)
      /\ \A k \in 1 .. n : servers'[k] = servers[k]
      /\ servers'[n + 1] = e
      /\ Listening = {servers[k].fd : k \in 1 .. n}
  <2>1. servers' = Append(servers, e)
    BY DEF ListenOn
  <2>. HIDE DEF e
  <2>2. Append(servers, e) \in Seq(S \cup {e}) /\ Len(Append(servers, e)) = n + 1
    BY <1>0, AppendListens
  <2>3. servers \in Seq(S \cup {e})
    BY <1>0
  <2>. QED  BY <1>2, <2>1, <2>2, <2>3 DEF Listening
<1>7. e.fd = fd /\ e.address = server_cache[n + 1].address
  BY DEF This
<1>8. fd \in Int /\ fd' \in Int
  BY DEF ServesInv, ListenOn, NoFd
<1>. HIDE DEF e, n
<1>9. /\ server_cache' \in Seq(Element) /\ DOMAIN server_cache' = DOMAIN server_cache
      /\ Len(server_cache') = Len(server_cache)
      /\ \A k \in DOMAIN server_cache :
            /\ server_cache'[k].address = server_cache[k].address
            /\ server_cache'[k].blocks = server_cache[k].blocks
            /\ server_cache'[k].fd = IF k = n + 1 THEN fd ELSE server_cache[k].fd
  <2>1. server_cache[n + 1] \in Element
    BY <1>2, <1>4
  <2>2. [server_cache[n + 1] EXCEPT !.fd = fd] \in Element
    BY <1>8, <2>1 DEF Element
  <2>3. /\ [server_cache[n + 1] EXCEPT !.fd = fd].address = server_cache[n + 1].address
        /\ [server_cache[n + 1] EXCEPT !.fd = fd].blocks = server_cache[n + 1].blocks
        /\ [server_cache[n + 1] EXCEPT !.fd = fd].fd = fd
    BY <2>1 DEF Element
  <2>. DEFINE r == [server_cache[n + 1] EXCEPT !.fd = fd]
  <2>. HIDE DEF r
  <2>4. server_cache' = [server_cache EXCEPT ![n + 1] = r]
    BY <1>5 DEF r
  <2>5. r \in Element
    BY <2>2 DEF r
  <2>6. /\ r.address = server_cache[n + 1].address /\ r.fd = fd
        /\ r.blocks = server_cache[n + 1].blocks
    BY <2>3 DEF r
  <2>. QED  BY <1>2, <1>4, <2>4, <2>5, <2>6
<1>10. KeepsCache'
  BY <1>1, <1>9 DEF KeepsCache
<1>11. Serves'
  <2>1. \A k \in 1 .. (n + 1) : k \in 1 .. n \/ k = n + 1
    BY <1>2 DEF n
  <2>2. \A k \in 1 .. n : k \in DOMAIN server_cache /\ k # n + 1
    BY <1>1, <1>2 DEF n
  <2>3. \A k \in DOMAIN servers' :
            /\ servers'[k].fd = server_cache'[k].fd
            /\ servers'[k].address = server_cache'[k].address
    BY <1>1, <1>2, <1>4, <1>6, <1>7, <1>9, <2>1, <2>2 DEF Serves
  <2>4. \A j, k \in DOMAIN servers' : servers'[j].fd = servers'[k].fd => j = k
    <3>1. \A k \in 1 .. n : servers[k].fd # fd
      BY <1>1, <1>6
    <3>. QED  BY <1>1, <1>2, <1>6, <1>7, <2>1, <3>1 DEF Serves
  <2>5. Len(servers') <= Len(server_cache')
    BY <1>1, <1>2, <1>6, <1>9 DEF n
  <2>. QED  BY <2>3, <2>4, <2>5 DEF Serves
<1>12. /\ stage' = "serving" => Len(servers') = Len(server_cache')
       /\ stage' = "resolve" => Len(servers') < Len(server_cache')
       /\ stage' \in {"serving", "resolve"}
  <2>1. stage' = IF Len(servers') = Len(server_cache) THEN "serving" ELSE "resolve"
    BY DEF ListenOn
  <2>2. n + 1 <= Len(server_cache) /\ Len(server_cache) \in Nat
    BY <1>1, <1>2 DEF n
  <2>3. Len(servers') = n + 1 /\ Len(server_cache') = Len(server_cache) /\ n \in Nat
    BY <1>2, <1>6, <1>9
  <2>. QED  BY <2>1, <2>2, <2>3
<1>. QED  BY <1>8, <1>10, <1>11, <1>12 DEF ServesInv, Trying

LEMMA NextServes == OpenInv /\ ServesInv /\ [NextSockets]_sockets => ServesInv'
<1>. SUFFICES ASSUME OpenInv, ServesInv, [NextSockets]_sockets  PROVE ServesInv'
  OBVIOUS
<1>1. CASE AllServerSockets
  <2>1. servers' = servers /\ servers = <<>> /\ server_cache' = ServerCache
        /\ stage' = "resolve" /\ fd' = fd /\ fd \in Int
    BY <1>1 DEF AllServerSockets, ServesInv
  <2>2. Len(servers') = 0 /\ DOMAIN servers' = {}
    BY <2>1
  <2>3. Entry \subseteq Element
    BY DEF Entry, Element, NoFd
  <2>4. ServerCache \in Seq(Element)
    BY <2>3, ServerCacheNotEmpty
  <2>5. KeepsCache'
    BY <2>1, <2>4 DEF KeepsCache
  <2>6. Serves'
    BY <2>1, <2>2, ServerCacheNotEmpty DEF Serves
  <2>. QED  BY <2>1, <2>2, <2>5, <2>6, ServerCacheNotEmpty DEF ServesInv
<1>2. CASE ListenOn
  BY <1>2, ListenServes
<1>3. CASE Resolve \/ ResolveFails \/ SetOptions \/ Bind
  BY <1>3 DEF Resolve, ResolveFails, SetOptions, Bind, ServesInv, Trying, KeepsCache, Serves
<1>4. CASE OpenSocket
  <2>1. fd' \in Int
    BY <1>4, SystemAssumption DEF OpenSocket
  <2>. QED  BY <1>4, <2>1 DEF OpenSocket, ServesInv, Trying, KeepsCache, Serves
<1>5. CASE OpenFails \/ NoneBound
  BY <1>5 DEF OpenFails, NoneBound, ServesInv, Trying, KeepsCache, Serves
<1>6. CASE BindFails \/ SetUpFails
  BY <1>6 DEF BindFails, SetUpFails, ServesInv, Trying, KeepsCache, Serves, NoFd
<1>7. CASE Destroy
  BY <1>7 DEF Destroy, ServesInv, Trying, KeepsCache
<1>8. CASE UNCHANGED sockets
  BY <1>8 DEF sockets, ServesInv, Trying, KeepsCache, Serves
<1>. QED  BY <1>1, <1>2, <1>3, <1>4, <1>5, <1>6, <1>7, <1>8 DEF NextSockets

\* What Bound() leaves as it was.
LEMMA BoundKeeps ==
    ASSUME NEW s \in ToSet(HttpServers(Config)), NEW a \in Hosts(s)
    PROVE  Bound(a).type = a.type /\ Bound(a).port = a.port
<1>1. a = Address(a.type, a.value, a.port)
  BY ConfigAssumption
<1>. QED  BY <1>1 DEF Address, Bound

\* Every socket that listens has an address of the file.
LEMMA HostOfElement ==
    ASSUME KeepsCache, NEW k \in DOMAIN server_cache
    PROVE  \E s \in ToSet(HttpServers(Config)) : server_cache[k].address \in Hosts(s)
<1>1. server_cache[k] \in Element
  BY DEF KeepsCache
<1>2. server_cache[k].address \in AllHosts
  BY <1>1 DEF Element
<1>. QED  BY <1>2 DEF AllHosts

\* What generate_server_cache() does for an address of a server.
LEMMA HostHasElement ==
    ASSUME NEW s \in ToSet(HttpServers(Config)), NEW a \in Hosts(s)
    PROVE  \E k \in DOMAIN ServerCache :
              Equal(ServerCache[k].address, a) /\ s \in ToSet(ServerCache[k].blocks)
<1>1. PICK i \in Positions : HttpServers(Config)[i] = s
  BY DEF Positions, ToSet
<1>. DEFINE d == <<i, a>>
<1>2. d[1] = i /\ d[2] = a
  OBVIOUS
<1>3. d \in AllPlaces
  BY <1>1 DEF AllPlaces, AllHosts
<1>. HIDE DEF d
<1>4. PICK k \in DOMAIN ServerCache : Equal(ServerCache[k].address, a)
  BY <1>2, <1>3, ServerCacheOfFile DEF Caches
<1>. DEFINE P == {x[1] : x \in {y \in AllPlaces : Equal(ServerCache[k].address, y[2])}}
<1>5. Listed(ServerCache[k].blocks, P)
  BY ServerCacheOfFile DEF Caches
<1>6. i \in P
  BY <1>2, <1>3, <1>4
<1>. HIDE DEF P
<1>7. PICK pos \in Seq(Positions) :
        /\ Len(pos) = Len(ServerCache[k].blocks) /\ ToSet(pos) = P
        /\ \A j \in DOMAIN pos : ServerCache[k].blocks[j] = HttpServers(Config)[pos[j]]
  BY <1>5 DEF Listed
<1>8. PICK j \in DOMAIN pos : pos[j] = i
  BY <1>6, <1>7 DEF ToSet
<1>9. ServerCache[k].blocks \in Seq(DOMAIN Config)
  <2>1. ServerCache[k] \in Entry
    BY ServerCacheNotEmpty
  <2>. QED  BY <2>1 DEF Entry
<1>10. j \in DOMAIN ServerCache[k].blocks
  BY <1>7, <1>9
<1>11. ServerCache[k].blocks[j] = s
  BY <1>1, <1>7, <1>8
<1>. QED  BY <1>4, <1>10, <1>11 DEF ToSet

\* A server that serves is reached by every address of every server block, by a socket
\* of its own type and port, whatever the file and the descriptors are
\* (Configuration.cpp:234-289, SocketManager.cpp:36-186).
THEOREM ListensForAllAlways == SpecSockets => []ListensForAll
<1>1. ServesInv /\ OpenInv => ListensForAll
  <2>. SUFFICES ASSUME ServesInv, OpenInv, stage = "serving"  PROVE ListensForAll
    BY DEF ListensForAll
  <2>1. KeepsCache /\ Serves /\ Len(servers) = Len(server_cache)
    BY DEF ServesInv
  <2>2. DOMAIN servers = DOMAIN server_cache /\ DOMAIN server_cache = DOMAIN ServerCache
    <3>1. PICK S : servers \in Seq(S)
      BY DEF OpenInv
    <3>. QED  BY <2>1, <3>1, ServerCacheNotEmpty DEF KeepsCache
  <2>. DEFINE all == UNION {Sockets(Config, s) : s \in ToSet(HttpServers(Config))}
  <2>3. ASSUME NEW s \in ToSet(HttpServers(Config)), NEW a \in Sockets(Config, s)
        PROVE  \E k, n \in DOMAIN servers :
                 /\ server_cache[n].fd = servers[k].fd /\ s \in ToSet(server_cache[n].blocks)
                 /\ servers[k].address.type = a.type /\ servers[k].address.port = a.port
                 /\ (\A b \in all : b.type = a.type /\ b.port = a.port => b = a)
                    => Bound(servers[k].address) = a
    <3>1. PICK h \in Hosts(s) : a = Bound(h)
      BY DEF Sockets, Hosts
    <3>2. h.type = a.type /\ h.port = a.port
      BY <3>1, BoundKeeps
    <3>3. PICK k \in DOMAIN ServerCache :
            Equal(ServerCache[k].address, h) /\ s \in ToSet(ServerCache[k].blocks)
      BY HostHasElement
    <3>4. /\ k \in DOMAIN servers /\ k \in DOMAIN server_cache
          /\ server_cache[k].address = ServerCache[k].address
          /\ server_cache[k].blocks = ServerCache[k].blocks
          /\ server_cache[k].fd = servers[k].fd
          /\ servers[k].address = server_cache[k].address
      BY <2>1, <2>2 DEF KeepsCache, Serves
    <3>5. servers[k].address.type = a.type /\ servers[k].address.port = a.port
      BY <3>2, <3>3, <3>4 DEF Equal
    <3>6. PICK t \in ToSet(HttpServers(Config)) : servers[k].address \in Hosts(t)
      BY <2>1, <3>4, HostOfElement
    <3>7. Bound(servers[k].address) \in all
      BY <3>6 DEF Sockets, Hosts
    <3>8. /\ Bound(servers[k].address).type = a.type
          /\ Bound(servers[k].address).port = a.port
      BY <3>5, <3>6, BoundKeeps
    <3>. HIDE DEF all
    <3>. QED  BY <3>3, <3>4, <3>5, <3>7, <3>8
  <2>. QED  BY <2>3 DEF ListensForAll
<1>. QED  BY InitOpens, NextOpens, InitServes, NextServes, <1>1, PTL DEF SpecSockets

-------------------------------------------------------------------------------
(* The server block of a request                                               *)

\* The positions of the servers that have an address like this one.
There(address) ==
    {i \in Positions : \E a \in Hosts(HttpServers(Config)[i]) : Equal(address, a)}

\* query_server_block() takes the server that is first in the file among those with the
\* name that have the address, or else among those that have it.
LEMMA NamedBlockOf ==
    ASSUME NEW k \in DOMAIN ServerCache, NEW name, NEW T, NEW N,
           T = There(ServerCache[k].address), N = Named(Config, HttpServers(Config), name)
    PROVE  /\ T # {}
           /\ NamedBlock(Config, ServerCache[k].blocks, name)
              = HttpServers(Config)[Min(IF T \cap N = {} THEN T ELSE T \cap N)]
<1>. DEFINE S       == HttpServers(Config)
            address == ServerCache[k].address
            listed  == ServerCache[k].blocks
            P       == {x[1] : x \in {y \in AllPlaces : Equal(address, y[2])}}
<1>0. Positions = 1 .. Len(S) /\ Len(S) \in Nat
  BY ConfigAssumption DEF Positions
<1>1. P = T
  <2>1. ASSUME NEW i \in P  PROVE i \in T
    <3>1. PICK y \in AllPlaces : Equal(address, y[2]) /\ i = y[1]
      OBVIOUS
    <3>. QED  BY <3>1 DEF AllPlaces, There
  <2>2. ASSUME NEW i \in T  PROVE i \in P
    <3>1. i \in Positions
      BY DEF There
    <3>2. PICK a \in Hosts(S[i]) : Equal(address, a)
      BY DEF There
    <3>. DEFINE d == <<i, a>>
    <3>3. d[1] = i /\ d[2] = a
      OBVIOUS
    <3>4. a \in AllHosts
      BY <3>1 DEF AllHosts, ToSet, Positions
    <3>5. d \in AllPlaces
      BY <3>1, <3>4 DEF AllPlaces
    <3>. HIDE DEF d, address
    <3>. QED  BY <3>2, <3>3, <3>5
  <2>. HIDE DEF P
  <2>. QED  BY <2>1, <2>2
<1>2. Listed(listed, P)
  BY ServerCacheOfFile DEF Caches
<1>3. T # {}
  <2>1. PICK d \in AllPlaces : address = d[2]
    BY ServerCacheOfFile DEF Caches
  <2>2. Equal(address, d[2])
    BY <2>1, EqualHosts
  <2>. HIDE DEF address
  <2>3. d[1] \in P
    BY <2>2
  <2>. QED  BY <1>1, <2>3
<1>4. listed \in Seq(DOMAIN Config)
  <2>1. ServerCache[k] \in Entry
    BY ServerCacheNotEmpty
  <2>. QED  BY <2>1 DEF Entry
<1>. HIDE DEF P, address, listed
<1>5. PICK pos \in Seq(Positions) :
        /\ Len(pos) = Len(listed) /\ ToSet(pos) = T
        /\ \A i, j \in DOMAIN pos : i <= j => pos[i] <= pos[j]
        /\ \A j \in DOMAIN pos : listed[j] = S[pos[j]]
  BY <1>1, <1>2 DEF Listed
<1>. HIDE DEF S
<1>6. /\ pos \in Seq(Nat) /\ DOMAIN pos = DOMAIN listed
      /\ \A j \in DOMAIN pos : pos[j] \in Positions
  <2>1. \A i \in Positions : i \in Nat
    BY <1>0
  <2>2. DOMAIN pos = 1 .. Len(pos) /\ \A j \in DOMAIN pos : pos[j] \in Positions
    OBVIOUS
  <2>3. \A j \in 1 .. Len(pos) : pos[j] \in Nat
    BY <2>1, <2>2
  <2>4. pos \in Seq(Nat)
    BY <2>3
  <2>. QED  BY <1>4, <1>5, <2>2, <2>4
<1>. DEFINE K == Named(Config, listed, name)
<1>7. \A j : j \in K <=> j \in DOMAIN pos /\ pos[j] \in N
  BY <1>5, <1>6 DEF Named, S, Positions
<1>8. K = {} <=> T \cap N = {}
  <2>1. \A i : i \in T <=> \E j \in DOMAIN pos : pos[j] = i
    BY <1>5 DEF ToSet
  <2>. HIDE DEF K
  <2>. QED  BY <1>7, <2>1
<1>9. NamedBlock(Config, listed, name) = listed[IF K = {} THEN 1 ELSE Min(K)]
  BY DEF NamedBlock
<1>. HIDE DEF K
<1>10. CASE K # {}
  <2>1. Min(K) \in DOMAIN pos /\ pos[Min(K)] = Min(ToSet(pos) \cap N)
    BY <1>5, <1>6, <1>7, <1>10, FirstIsMin
  <2>. QED  BY <1>3, <1>5, <1>8, <1>9, <1>10, <2>1 DEF S, listed
<1>11. CASE K = {}
  <2>. DEFINE A == DOMAIN pos
  <2>1. (\A j : j \in A <=> j \in DOMAIN pos /\ pos[j] \in T) /\ A # {} /\ T \cap T = T
    BY <1>3, <1>5 DEF ToSet
  <2>2. Min(A) \in DOMAIN pos /\ pos[Min(A)] = Min(T)
    <3>1. Min(A) \in DOMAIN pos /\ pos[Min(A)] = Min(ToSet(pos) \cap T)
      <4>. HIDE DEF A
      <4>. QED  BY <1>5, <1>6, <2>1, FirstIsMin
    <3>. QED  BY <1>5, <2>1, <3>1
  <2>3. A = 1 .. Len(pos) /\ Len(pos) \in Nat
    BY <1>6
  <2>4. Min(A) = 1
    <3>1. 1 \in A /\ A \subseteq Nat /\ \A j \in A : 1 <= j
      BY <2>1, <2>3
    <3>2. Min(A) \in A /\ Min(A) <= 1
      <4>. HIDE DEF A
      <4>. QED  BY <3>1, MinOf
    <3>. HIDE DEF A
    <3>3. Min(A) \in Nat /\ 1 <= Min(A)
      BY <3>1, <3>2
    <3>. QED  BY <3>2, <3>3
  <2>. QED  BY <1>3, <1>5, <1>8, <1>9, <1>11, <2>2, <2>4 DEF S, listed
<1>. QED  BY <1>10, <1>11

\* The descriptor of a socket leads to the element of the cache the socket was made for.
LEMMA ServerAtOf ==
    ASSUME OpenInv, ServesInv, stage = "serving", NEW k \in DOMAIN servers, NEW name
    PROVE  /\ k \in DOMAIN ServerCache /\ servers[k].address = ServerCache[k].address
           /\ ServerAt(servers[k].fd, name) = NamedBlock(Config, ServerCache[k].blocks, name)
<1>1. KeepsCache /\ Serves /\ Len(servers) = Len(server_cache)
  BY DEF ServesInv
<1>2. DOMAIN servers = DOMAIN server_cache /\ DOMAIN server_cache = DOMAIN ServerCache
      /\ DOMAIN servers \subseteq Nat
  <2>1. PICK S : servers \in Seq(S)
    BY DEF OpenInv
  <2>. QED  BY <1>1, <2>1, ServerCacheNotEmpty DEF KeepsCache
<1>3. {j \in DOMAIN server_cache : server_cache[j].fd = servers[k].fd} = {k}
  BY <1>1, <1>2 DEF Serves
<1>4. Min({k}) = k
  <2>1. {k} \subseteq Nat
    BY <1>2
  <2>. QED  BY <2>1, MinOf
<1>5. server_cache[k].blocks = ServerCache[k].blocks
      /\ servers[k].address = ServerCache[k].address
  BY <1>1, <1>2 DEF KeepsCache, Serves
<1>. QED  BY <1>2, <1>3, <1>4, <1>5 DEF ServerAt

\* It is one of the file.
LEMMA ServerAtServes ==
    ASSUME OpenInv, ServesInv, stage = "serving", NEW k \in DOMAIN servers, NEW name
    PROVE  ServerAt(servers[k].fd, name) \in ToSet(HttpServers(Config))
<1>. DEFINE T == There(ServerCache[k].address)
            N == Named(Config, HttpServers(Config), name)
            U == IF T \cap N = {} THEN T ELSE T \cap N
<1>1. /\ k \in DOMAIN ServerCache
      /\ ServerAt(servers[k].fd, name) = NamedBlock(Config, ServerCache[k].blocks, name)
  BY ServerAtOf
<1>2. T # {} /\ NamedBlock(Config, ServerCache[k].blocks, name) = HttpServers(Config)[Min(U)]
  <2>. HIDE DEF T, N
  <2>. QED  BY <1>1, NamedBlockOf DEF T, N
<1>3. U \subseteq Positions /\ U # {} /\ Positions \subseteq Nat
  BY <1>2, ConfigAssumption DEF There, Positions
<1>. HIDE DEF U
<1>4. Min(U) \in Positions
  BY <1>3, MinOf
<1>. QED  BY <1>1, <1>2, <1>4 DEF Positions, ToSet

-------------------------------------------------------------------------------
(* The cache of locations                                                      *)

TypeInv ==
    /\ \E S : cache \in Seq(S)
    /\ Len(cache) <= Capacity
    /\ insertion \in Nat
    /\ IF cache = <<>> THEN insertion = 0 ELSE insertion < Len(cache)
    /\ held \in [Clients -> Nat]
    /\ \A c \in Clients : held[c] <= Len(cache)
    /\ \A p, q \in DOMAIN cache :
          cache[p].server = cache[q].server /\ cache[p].match = cache[q].match => p = q

LEMMA InitTypes == Init => OpenInv /\ ServesInv /\ TypeInv
<1>. SUFFICES ASSUME Init  PROVE OpenInv /\ ServesInv /\ TypeInv
  OBVIOUS
<1>1. cache \in Seq({}) /\ Len(cache) = 0 /\ DOMAIN cache = {} /\ cache = <<>>
  BY DEF Init
<1>. QED  BY <1>1, InitOpens, InitServes, CapacityAssumption DEF Init, TypeInv

\* query() for a server and a location that the cache may or may not have.
LEMMA InsertTypes ==
    ASSUME TypeInv, NEW c \in Clients, NEW s, NEW l, l # NoBlock, Insert(c, s, l)
    PROVE  TypeInv'
<1>. DEFINE n    == Len(cache)
            full == n = Capacity
            base == IF full THEN cache ELSE Append(cache, EmptyQuery)
            slot == IF full THEN insertion + 1 ELSE Len(base)
            e    == Construct(base[slot], s, l)
<1>0. PICK S0 : cache \in Seq(S0)
  BY DEF TypeInv
<1>. DEFINE S == S0 \cup {EmptyQuery, e}
<1>1. /\ cache \in Seq(S) /\ n \in Nat /\ n <= Capacity /\ DOMAIN cache = 1 .. n
      /\ Capacity \in Nat /\ Capacity > 0 /\ insertion \in Nat
      /\ IF n = 0 THEN insertion = 0 ELSE insertion < n
  <2>1. \A x \in S0 : x \in S
    OBVIOUS
  <2>2. cache \in Seq(S)
    BY <1>0
  <2>3. n = 0 <=> cache = <<>>
    BY <1>0
  <2>. HIDE DEF S
  <2>. QED  BY <2>2, <2>3, CapacityAssumption DEF TypeInv
<1>2. /\ cache' = [base EXCEPT ![slot] = e]
      /\ insertion' = (insertion + 1) % Len(base)
      /\ held' = [held EXCEPT ![c] = slot]
  BY DEF Insert
<1>3. e.server = s /\ e.match = Config[l].match /\ e \in S /\ EmptyQuery \in S
  BY DEF Construct
<1>. HIDE DEF e, S
<1>4. /\ base \in Seq(S) /\ Len(base) \in Nat /\ slot \in 1 .. Len(base)
      /\ n <= Len(base) /\ Len(base) <= Capacity
      /\ \A p \in 1 .. Len(base) : p # slot => p \in DOMAIN cache /\ base[p] = cache[p]
  <2>1. CASE full
    BY <1>1, <2>1
  <2>2. CASE ~ full
    <3>. DEFINE more == Append(cache, EmptyQuery)
    <3>0. base = more /\ slot = Len(base)
      BY <2>2
    <3>1. /\ more \in Seq(S) /\ Len(more) = n + 1
          /\ \A p \in 1 .. n : more[p] = cache[p]
      BY <1>1, <1>3
    <3>. HIDE DEF base, slot, more, n
    <3>2. n + 1 <= Capacity /\ n + 1 \in Nat /\ n <= n + 1
      BY <1>1, <2>2
    <3>3. \A p \in 1 .. (n + 1) : p # n + 1 => p \in 1 .. n
      BY <1>1
    <3>4. slot = n + 1 /\ Len(base) = n + 1 /\ n + 1 \in 1 .. (n + 1)
      BY <1>1, <3>0, <3>1, <3>2
    <3>. QED  BY <1>1, <3>0, <3>1, <3>2, <3>3, <3>4
  <2>. QED  BY <2>1, <2>2
<1>5. insertion' \in Nat /\ insertion' < Len(base)
  <2>1. insertion + 1 \in Nat /\ Len(base) \in Nat /\ Len(base) > 0
    <3>. HIDE DEF base, slot
    <3>1. insertion + 1 \in Nat
      BY <1>1
    <3>2. Len(base) \in Nat /\ slot \in 1 .. Len(base)
      BY <1>4
    <3>. QED  BY <3>1, <3>2
  <2>. HIDE DEF base
  <2>. QED  BY <1>2, <2>1
<1>. HIDE DEF slot, base
<1>6. /\ cache' \in Seq(S) /\ Len(cache') = Len(base) /\ DOMAIN cache' = 1 .. Len(base)
      /\ cache'[slot] = e
      /\ \A p \in 1 .. Len(base) : p # slot => cache'[p] = cache[p]
  BY <1>2, <1>3, <1>4
<1>7. \A p \in DOMAIN cache : ~ (cache[p].server = s /\ cache[p].match = Config[l].match)
  BY DEF Insert, Found
<1>8. ASSUME NEW p \in DOMAIN cache', NEW q \in DOMAIN cache',
             cache'[p].server = cache'[q].server, cache'[p].match = cache'[q].match
      PROVE  p = q
  <2>1. \A r \in DOMAIN cache' : r # slot => r \in DOMAIN cache /\ cache'[r] = cache[r]
    BY <1>4, <1>6
  <2>2. ASSUME NEW r \in DOMAIN cache', r # slot
        PROVE  ~ (cache'[r].server = s /\ cache'[r].match = Config[l].match)
    BY <1>7, <2>1, <2>2
  <2>3. CASE p = slot \/ q = slot
    BY <1>3, <1>6, <1>8, <2>2, <2>3
  <2>4. CASE p # slot /\ q # slot
    BY <1>8, <2>1, <2>4 DEF TypeInv
  <2>. QED  BY <2>3, <2>4
<1>9. held' \in [Clients -> Nat] /\ \A d \in Clients : held'[d] <= Len(base)
  <2>1. slot \in Nat /\ slot <= Len(base)
    BY <1>4
  <2>2. held' \in [Clients -> Nat]
    BY <1>2, <2>1 DEF TypeInv
  <2>3. ASSUME NEW d \in Clients  PROVE held'[d] <= Len(base)
    <3>1. held[d] <= n /\ held[d] \in Nat
      BY DEF TypeInv
    <3>2. held'[d] = IF d = c THEN slot ELSE held[d]
      BY <1>2 DEF TypeInv
    <3>. HIDE DEF n
    <3>. QED  BY <1>1, <1>4, <2>1, <3>1, <3>2
  <2>. QED  BY <2>2, <2>3
<1>10. cache' # <<>>
  BY <1>4, <1>6
<1>. QED  BY <1>4, <1>5, <1>6, <1>8, <1>9, <1>10 DEF TypeInv

LEMMA HitTypes ==
    ASSUME TypeInv, NEW c \in Clients, NEW s, NEW l, Hit(c, s, l)
    PROVE  TypeInv' /\ held'[c] \in Found(s, l)
<1>0. PICK S : cache \in Seq(S)
  BY DEF TypeInv
<1>1. DOMAIN cache = 1 .. Len(cache) /\ Len(cache) \in Nat
  BY <1>0
<1>2. Found(s, l) \subseteq Nat /\ Found(s, l) \subseteq 1 .. Len(cache) /\ Found(s, l) # {}
  BY <1>1 DEF Found, Hit
<1>3. Min(Found(s, l)) \in Found(s, l)
  BY <1>2, MinOf
<1>4. held' = [held EXCEPT ![c] = Min(Found(s, l))] /\ cache' = cache /\ insertion' = insertion
  BY DEF Hit
<1>. DEFINE m == Min(Found(s, l))
<1>5. m \in Nat /\ m <= Len(cache)
  BY <1>1, <1>2, <1>3
<1>. HIDE DEF m
<1>6. held' \in [Clients -> Nat] /\ held'[c] = m
      /\ \A d \in Clients : held'[d] <= Len(cache)
  BY <1>4, <1>5 DEF TypeInv, m
<1>. QED  BY <1>3, <1>4, <1>6 DEF TypeInv, m

LEMMA NextTypes ==
    ASSUME Located
    PROVE  OpenInv /\ ServesInv /\ TypeInv /\ [Next]_vars => (OpenInv /\ ServesInv /\ TypeInv)'
<1>. SUFFICES ASSUME OpenInv, ServesInv, TypeInv, [Next]_vars
              PROVE  OpenInv' /\ ServesInv' /\ TypeInv'
  OBVIOUS
<1>1. CASE NextSockets /\ UNCHANGED queries
  BY <1>1, NextOpens, NextServes DEF queries, TypeInv
<1>2. ASSUME NEW c \in Clients, HeadRead(c)  PROVE OpenInv' /\ ServesInv' /\ TypeInv'
  <2>1. PICK q \in Requests, k \in DOMAIN servers :
          LET s == ServerAt(servers[k].fd, q.name)
              l == LocationBlock(Config, s, q.path)
          IN  Hit(c, s, l) \/ Insert(c, s, l)
    BY <1>2 DEF HeadRead
  <2>. DEFINE s == ServerAt(servers[k].fd, q.name)
              l == LocationBlock(Config, s, q.path)
  <2>2. stage = "serving" /\ UNCHANGED sockets
    BY <1>2 DEF HeadRead
  <2>3. s \in ToSet(HttpServers(Config))
    BY <2>2, ServerAtServes
  <2>4. <<s, l>> \in Served
    BY <2>3 DEF Served
  <2>5. l # NoBlock
    <3>. DEFINE x == <<s, l>>
    <3>1. x[2] = l
      OBVIOUS
    <3>. HIDE DEF s, l
    <3>2. l \in DOMAIN Config
      BY <2>4, <3>1 DEF Located
    <3>3. DOMAIN Config = 1 .. Len(Config)
      BY ConfigAssumption DEF Parsed
    <3>. QED  BY <3>2, <3>3 DEF NoBlock
  <2>6. TypeInv'
    <3>. HIDE DEF s, l
    <3>1. Hit(c, s, l) \/ Insert(c, s, l)
      BY <2>1 DEF s, l
    <3>. QED  BY <2>5, <3>1, HitTypes, InsertTypes
  <2>7. [NextSockets]_sockets
    BY <2>2
  <2>. QED  BY <2>6, <2>7, NextOpens, NextServes
<1>3. ASSUME NEW c \in Clients, Reset(c)  PROVE OpenInv' /\ ServesInv' /\ TypeInv'
  <2>1. UNCHANGED sockets /\ UNCHANGED <<cache, insertion>> /\ held' = [held EXCEPT ![c] = 0]
    BY <1>3 DEF Reset
  <2>2. PICK S : cache \in Seq(S)
    BY DEF TypeInv
  <2>3. TypeInv'
    BY <2>1, <2>2 DEF TypeInv
  <2>4. [NextSockets]_sockets
    BY <2>1
  <2>. QED  BY <2>3, <2>4, NextOpens, NextServes
<1>4. CASE UNCHANGED vars
  <2>1. [NextSockets]_sockets /\ UNCHANGED queries
    BY <1>4 DEF vars
  <2>. QED  BY <2>1, NextOpens, NextServes DEF queries, TypeInv
<1>. QED  BY <1>1, <1>2, <1>3, <1>4 DEF Next

\* Where every path has a location, the index and the pointers of clients stay inside
\* the cache, and no location is in it twice, for any file, clients and capacity
\* (Configuration.cpp:132-154).
THEOREM TypeOKAlways ==
    ASSUME Located
    PROVE  Spec => []TypeOK
<1>1. OpenInv /\ ServesInv /\ TypeInv => TypeOK
  <2>. SUFFICES ASSUME TypeInv  PROVE TypeOK
    OBVIOUS
  <2>1. PICK S : cache \in Seq(S)
    BY DEF TypeInv
  <2>. QED  BY <2>1, CapacityAssumption DEF TypeInv, TypeOK
<1>2. OpenInv /\ ServesInv /\ TypeInv /\ [Next]_vars => (OpenInv /\ ServesInv /\ TypeInv)'
  BY NextTypes
<1>. QED  BY InitTypes, <1>1, <1>2, PTL DEF Spec

-------------------------------------------------------------------------------
(* What a request finds                                                        *)

\* The definitions of Directives that ConfigQuery has are those of this module.
LEMMA SameServer ==
    /\ Query!HttpServers(Config) = HttpServers(Config)
    /\ \A s : Query!Sockets(Config, s) = Sockets(Config, s)
    /\ \A name : Query!Named(Config, HttpServers(Config), name)
                 = Named(Config, HttpServers(Config), name)
<1>1. \A items, t : Query!OfType(items, t) = OfType(items, t)
  BY DEF Query!OfType, OfType, Query!FoldLeft, FoldLeft, Query!MapThenFoldSet,
         MapThenFoldSet, Query!Max, Max
<1>2. \A items : /\ Query!Values(items) = Values(items)
                 /\ Query!ToSet(items) = ToSet(items)
                 /\ Query!FlattenSeq(items) = FlattenSeq(items)
  BY DEF Query!Values, Values, Query!ToSet, ToSet, Query!FlattenSeq, FlattenSeq
<1>3. \A a : Query!Listen(a) = Listen(a)
  BY DEF Query!Listen, Listen, Query!FoldLeft, FoldLeft, Query!MapThenFoldSet,
         MapThenFoldSet, Query!Max, Max, Query!Last, Last, Query!NoValue, NoValue
<1>4. \A s : Query!Addresses(Config, s) = Addresses(Config, s)
  BY <1>1, <1>2, <1>3
     DEF Query!Addresses, Addresses, Query!DefaultSocket, DefaultSocket, Query!Address, Address
<1>5. \A a : Query!Bound(a) = Bound(a)
  BY DEF Query!Bound, Bound
<1>. QED  BY <1>1, <1>2, <1>4, <1>5
          DEF Query!HttpServers, HttpServers, Query!Sockets, Sockets, Query!Named, Named

LEMMA SameLocation ==
    /\ \A s, uri : Query!LocationBlock(Config, s, uri) = LocationBlock(Config, s, uri)
    /\ \A b, t : Query!Collected(Config, b, t) = Collected(Config, b, t)
    /\ \A S : Query!Min(S) = Min(S)
<1>1. \A s, uri : Query!LocationBlock(Config, s, uri) = LocationBlock(Config, s, uri)
  BY DEF Query!LocationBlock, LocationBlock, Query!BestMatch, BestMatch,
     Query!Locations, Locations, Query!Shorter, Shorter, Query!OfType, OfType,
     Query!Values, Values, Query!IsPrefix, IsPrefix, Query!NoBlock, NoBlock,
     Query!FoldLeft, FoldLeft, Query!MapThenFoldSet, MapThenFoldSet, Query!Max, Max
<1>2. ASSUME NEW b, NEW t
      PROVE  Query!Collected(Config, b, t) = Collected(Config, b, t)
  BY DEF Query!Collected, Collected, Query!Levels, Levels, Query!Chain, Chain,
     Query!OfType, OfType, Query!Values, Values, Query!ToSet, ToSet,
     Query!FlattenSeq, FlattenSeq, Query!Reverse, Reverse, Query!NoBlock, NoBlock,
     Query!FoldLeft, FoldLeft, Query!MapThenFoldSet, MapThenFoldSet, Query!Max, Max
<1>3. \A S : Query!Min(S) = Min(S)
  BY DEF Query!Min, Min
<1>. QED  BY <1>1, <1>2, <1>3

\* With PortsOnce the socket that took a request leads to the server it asks for.
LEMMA ServerFound ==
    ASSUME PortsOnce, OpenInv, ServesInv, stage = "serving",
           NEW k \in DOMAIN servers, NEW q, Bound(servers[k].address) = q.socket
    PROVE  ServerAt(servers[k].fd, q.name) = Query!ServerOf(q)
<1>. DEFINE all   == HttpServers(Config)
            h     == servers[k].address
            N     == Named(Config, all, q.name)
            there == {i \in DOMAIN all : q.socket \in Sockets(Config, all[i])}
<1>1. /\ k \in DOMAIN ServerCache /\ h = ServerCache[k].address
      /\ ServerAt(servers[k].fd, q.name) = NamedBlock(Config, ServerCache[k].blocks, q.name)
  BY ServerAtOf
<1>2. PICK t \in ToSet(all) : h \in Hosts(t)
  <2>1. ServerCache[k] \in Entry
    BY <1>1, ServerCacheNotEmpty
  <2>2. h \in AllHosts
    BY <1>1, <2>1 DEF Entry
  <2>. QED  BY <2>2 DEF AllHosts
<1>3. there = There(h)
  <2>1. ASSUME NEW i \in DOMAIN all
        PROVE  q.socket \in Sockets(Config, all[i]) <=> \E a \in Hosts(all[i]) : Equal(h, a)
    <3>1. all[i] \in ToSet(all)
      BY DEF ToSet
    <3>2. q.socket \in Sockets(Config, all[i]) <=> \E a \in Hosts(all[i]) : Bound(h) = Bound(a)
      BY DEF Sockets, Hosts
    <3>3. ASSUME NEW a \in Hosts(all[i])  PROVE Equal(h, a) <=> Bound(h) = Bound(a)
      <4>1. Equal(h, a) => Bound(h) = Bound(a)
        BY <1>2, <3>1 DEF PortsOnce, Equal
      <4>2. /\ Bound(h).type = h.type /\ Bound(h).port = h.port
            /\ Bound(a).type = a.type /\ Bound(a).port = a.port
        BY <1>2, <3>1, BoundKeeps
      <4>. QED  BY <4>1, <4>2 DEF Equal
    <3>. QED  BY <3>2, <3>3
  <2>. QED  BY <2>1 DEF There, Positions
<1>4. Query!ServerOf(q) = all[Min(IF there \cap N = {} THEN there ELSE there \cap N)]
  BY SameServer, SameLocation DEF Query!ServerOf
<1>. HIDE DEF there, N, h, all
<1>5. NamedBlock(Config, ServerCache[k].blocks, q.name)
      = all[Min(IF there \cap N = {} THEN there ELSE there \cap N)]
  BY <1>1, <1>3, NamedBlockOf DEF all, N
<1>. QED  BY <1>1, <1>4, <1>5

\* What every element of the cache is, and what a client that waits has.
IsOf(e, x) == e = Construct(EmptyQuery, x[1], x[2])
Holds ==
    /\ \A p \in DOMAIN cache : \E x \in Served : IsOf(cache[p], x)
    /\ asked \in [Clients -> Requests \cup {Query!NoRequest}]
    /\ \A c \in Clients : held[c] = 0 <=> asked[c] = Query!NoRequest

\* An element that is constructed for the first time has the properties of its location.
LEMMA ConstructOf ==
    ASSUME NEW s, NEW l \in DOMAIN Config
    PROVE  /\ Construct(EmptyQuery, s, l).server = s
           /\ Construct(EmptyQuery, s, l).match = Config[l].match
           /\ Construct(EmptyQuery, s, l).root = Query!RootOf(s, l)
           /\ Construct(EmptyQuery, s, l).index = Query!IndexOf(s, l)
<1>1. l # NoBlock
  BY ConfigAssumption DEF Parsed, NoBlock
<1>2. \E S : Query!IndexOf(s, l) \in Seq(S)
  <2>. DEFINE found == Query!Collected(Config, l, "index")
  <2>1. found \in Seq(ValuesIn(Config))
    BY ConfigAssumption, CollectedSeq, SameLocation
  <2>2. <<DefaultIndex>> \in Seq({DefaultIndex})
    OBVIOUS
  <2>3. Query!IndexOf(s, l) = IF found = <<>> THEN <<DefaultIndex>> ELSE found
    BY <1>1 DEF Query!IndexOf, Query!NoBlock, NoBlock
  <2>. HIDE DEF found
  <2>. QED  BY <2>1, <2>2, <2>3
<1>. DEFINE ix == Query!IndexOf(s, l)
<1>3. <<>> \o ix = ix
  <2>. HIDE DEF ix
  <2>. QED  BY <1>2 DEF ix
<1>. HIDE DEF ix
<1>4. Construct(EmptyQuery, s, l).index = <<>> \o ix
  BY DEF Construct, EmptyQuery, ix
<1>5. Construct(EmptyQuery, s, l).index = Query!IndexOf(s, l)
  BY <1>3, <1>4 DEF ix
<1>. QED  BY <1>1, <1>5 DEF Construct

\* There is room for a location that the cache does not have.
LEMMA RoomLeft ==
    ASSUME RoomForAll, TypeInv, Holds, NEW s, NEW l, <<s, l>> \in Served, Found(s, l) = {}
    PROVE  Len(cache) # Capacity
<1>. SUFFICES ASSUME Len(cache) = Capacity  PROVE FALSE
  OBVIOUS
<1>. DEFINE n    == Len(cache)
            this == <<s, l>>
            rest == Served \ {this}
            f    == [p \in 1 .. n |-> CHOOSE x \in Served : IsOf(cache[p], x)]
<1>0. this[1] = s /\ this[2] = l
  OBVIOUS
<1>. HIDE DEF this
<1>1. DOMAIN cache = 1 .. n /\ n \in Nat
  <2>1. PICK S : cache \in Seq(S)
    BY DEF TypeInv
  <2>. QED  BY <2>1
<1>2. \A p \in 1 .. n : f[p] \in Served /\ IsOf(cache[p], f[p])
  BY <1>1 DEF Holds
<1>3. l \in DOMAIN Config /\ l # NoBlock
  BY <1>0, ConfigAssumption DEF RoomForAll, Located, this, Parsed, NoBlock
<1>. HIDE DEF f
<1>4. ASSUME NEW p \in 1 .. n, f[p] = this  PROVE FALSE
  <2>1. cache[p] = Construct(EmptyQuery, s, l)
    BY <1>0, <1>2, <1>4 DEF IsOf
  <2>2. cache[p].server = s /\ cache[p].match = Config[l].match
    BY <1>3, <2>1, ConstructOf
  <2>3. p \in Found(s, l)
    BY <1>1, <1>3, <2>2 DEF Found
  <2>. QED  BY <2>3
<1>5. f \in [1 .. n -> rest]
  <2>1. f = [p \in 1 .. n |-> f[p]]
    BY DEF f
  <2>. QED  BY <1>2, <1>4, <2>1
<1>6. IsFiniteSet(rest) /\ Cardinality(rest) < n
  <2>1. this \in Served
    BY DEF this
  <2>2. IsFiniteSet(Served) /\ Cardinality(Served) \in Nat
        /\ IsFiniteSet(rest) /\ Cardinality(rest) = Cardinality(Served) - 1
    BY <2>1, FS_CardinalityType, FS_RemoveElement DEF RoomForAll
  <2>. QED  BY <1>1, <2>2 DEF RoomForAll
<1>7. IsFiniteSet(1 .. n) /\ Cardinality(1 .. n) = n
  BY <1>1, CapacityAssumption, FS_Interval
<1>8. PICK p, r \in 1 .. n : p # r /\ f[p] = f[r]
  <2>. DEFINE D == 1 .. n
  <2>1. IsFiniteSet(D) /\ Cardinality(rest) < Cardinality(D) /\ f \in [D -> rest]
    BY <1>5, <1>6, <1>7
  <2>. HIDE DEF D, rest
  <2>2. \E p, r \in D : p # r /\ f[p] = f[r]
    BY <1>6, <2>1, FS_PigeonHole
  <2>. QED  BY <2>2 DEF D
<1>9. cache[p] = cache[r]
  BY <1>2, <1>8 DEF IsOf
<1>. QED  BY <1>1, <1>8, <1>9 DEF TypeInv

\* Whether the cache has the location or not, the client gets an element that is as new,
\* and no other element changes.
Gives(c, e, p) ==
    /\ p \in DOMAIN cache' /\ cache'[p] = e /\ held' = [held EXCEPT ![c] = p]
    /\ \A r \in DOMAIN cache : r \in DOMAIN cache' /\ cache'[r] = cache[r]
    /\ \A r \in DOMAIN cache' : r \in DOMAIN cache \/ cache'[r] = e

LEMMA HitGives ==
    ASSUME RoomForAll, TypeInv, Holds, NEW c \in Clients, NEW s, NEW l,
           <<s, l>> \in Served, Hit(c, s, l)
    PROVE  \E p \in Nat \ {0} : Gives(c, Construct(EmptyQuery, s, l), p)
<1>. DEFINE this == <<s, l>>
            p    == Min(Found(s, l))
<1>0. this \in Served /\ this[1] = s /\ this[2] = l
  OBVIOUS
<1>. HIDE DEF this
<1>1. DOMAIN cache = 1 .. Len(cache) /\ Len(cache) \in Nat
  <2>1. PICK S : cache \in Seq(S)
    BY DEF TypeInv
  <2>. QED  BY <2>1
<1>2. Found(s, l) \subseteq Nat /\ Found(s, l) # {}
  BY <1>1 DEF Found, Hit
<1>3. p \in Found(s, l)
  BY <1>2, MinOf
<1>4. held' = [held EXCEPT ![c] = p] /\ cache' = cache
  BY DEF Hit
<1>. HIDE DEF p
<1>5. /\ p \in DOMAIN cache
      /\ cache[p].match = Config[l].match /\ cache[p].server = s
  BY <1>3 DEF Found
<1>6. PICK x \in Served : IsOf(cache[p], x)
  BY <1>5 DEF Holds
<1>7. x[2] \in DOMAIN Config
  BY DEF RoomForAll, Located
<1>8. cache[p].server = x[1] /\ cache[p].match = Config[x[2]].match
  BY <1>6, <1>7, ConstructOf DEF IsOf
<1>9. x = this
  BY <1>0, <1>5, <1>8 DEF RoomForAll
<1>10. cache[p] = Construct(EmptyQuery, s, l)
  BY <1>0, <1>6, <1>9 DEF IsOf
<1>11. p \in Nat \ {0}
  BY <1>1, <1>5
<1>. QED  BY <1>4, <1>5, <1>10, <1>11 DEF Gives

LEMMA InsertGives ==
    ASSUME RoomForAll, TypeInv, Holds, NEW c \in Clients, NEW s, NEW l,
           <<s, l>> \in Served, Insert(c, s, l)
    PROVE  \E p \in Nat \ {0} : Gives(c, Construct(EmptyQuery, s, l), p)
<1>. DEFINE n    == Len(cache)
            base == Append(cache, EmptyQuery)
            e    == Construct(EmptyQuery, s, l)
<1>1. n # Capacity
  BY RoomLeft DEF Insert
<1>2. PICK S0 : cache \in Seq(S0)
  BY DEF TypeInv
<1>. DEFINE S == S0 \cup {EmptyQuery, e}
<1>3. cache \in Seq(S) /\ EmptyQuery \in S /\ e \in S
  BY <1>2
<1>. HIDE DEF S
<1>4. n \in Nat /\ DOMAIN cache = 1 .. n
  BY <1>3
<1>5. /\ base \in Seq(S) /\ Len(base) = n + 1 /\ DOMAIN base = 1 .. (n + 1)
      /\ base[n + 1] = EmptyQuery
      /\ \A r \in 1 .. n : base[r] = cache[r]
  BY <1>3
<1>6. /\ cache' = [base EXCEPT ![Len(base)] = Construct(base[Len(base)], s, l)]
      /\ held' = [held EXCEPT ![c] = Len(base)]
  BY <1>1 DEF Insert
<1>. HIDE DEF base, n, e
<1>7. n + 1 \in 1 .. (n + 1) /\ \A r \in 1 .. (n + 1) : r # n + 1 => r \in 1 .. n
  BY <1>4
<1>8. Construct(base[n + 1], s, l) = e
  BY <1>5 DEF e
<1>9. cache' = [base EXCEPT ![n + 1] = e] /\ held' = [held EXCEPT ![c] = n + 1]
  BY <1>5, <1>6, <1>8
<1>10. /\ DOMAIN cache' = 1 .. (n + 1) /\ cache'[n + 1] = e
       /\ \A r \in 1 .. (n + 1) : r # n + 1 => cache'[r] = base[r]
  BY <1>5, <1>7, <1>9
<1>11. Gives(c, e, n + 1)
  <2>1. \A r \in 1 .. n : r \in 1 .. (n + 1) /\ r # n + 1
    BY <1>4
  <2>. QED  BY <1>4, <1>5, <1>7, <1>9, <1>10, <2>1 DEF Gives
<1>12. n + 1 \in Nat \ {0}
  BY <1>4
<1>. QED  BY <1>11, <1>12 DEF e

\* A request that comes in is answered as ConfigQuery says ...
LEMMA HeadReadAnswers ==
    ASSUME RoomForAll, PortsOnce, OpenInv, ServesInv, TypeInv, Holds,
           NEW c \in Clients, HeadRead(c)
    PROVE  Holds' /\ Query!Answer(c)
<1>1. PICK q \in Requests, k \in DOMAIN servers :
        LET s == ServerAt(servers[k].fd, q.name)
            l == LocationBlock(Config, s, q.path)
        IN  /\ Bound(servers[k].address) = q.socket
            /\ Hit(c, s, l) \/ Insert(c, s, l)
            /\ asked' = [asked EXCEPT ![c] = q]
  BY DEF HeadRead
<1>. DEFINE s == ServerAt(servers[k].fd, q.name)
            l == LocationBlock(Config, s, q.path)
            e == Construct(EmptyQuery, s, l)
            this == <<s, l>>
<1>2. stage = "serving" /\ held[c] = 0
  BY DEF HeadRead
<1>3. s \in ToSet(HttpServers(Config))
  BY <1>2, ServerAtServes
<1>4. this \in Served
  BY <1>3 DEF Served
<1>5. s = Query!ServerOf(q) /\ l = Query!LocationOf(q)
  BY <1>1, <1>2, ServerFound, SameLocation DEF Query!LocationOf
<1>6. l \in DOMAIN Config
  <2>1. this[2] = l
    OBVIOUS
  <2>. HIDE DEF this
  <2>. QED  BY <1>4, <2>1 DEF RoomForAll, Located
<1>7. PICK p \in Nat \ {0} : Gives(c, e, p)
  <2>. HIDE DEF s, l
  <2>1. Hit(c, s, l) \/ Insert(c, s, l)
    BY <1>1 DEF s, l
  <2>. QED  BY <1>4, <2>1, HitGives, InsertGives
<1>8. [server |-> e.server, root |-> e.root, index |-> e.index]
      = Query!Properties(Query!ServerOf(q), Query!LocationOf(q))
  <2>. HIDE DEF s, l
  <2>. QED  BY <1>5, <1>6, ConstructOf DEF Query!Properties
<1>9. IsOf(e, this)
  BY DEF IsOf
<1>10. asked' = [asked EXCEPT ![c] = q]
  BY <1>1
<1>. HIDE DEF s, l, e, this
<1>11. held' \in [Clients -> Nat] /\ \A d \in Clients : held'[d] = IF d = c THEN p ELSE held[d]
  BY <1>7 DEF Gives, TypeInv
<1>12. \A d \in Clients : d # c /\ held[d] # 0 => held[d] \in DOMAIN cache
  <2>1. PICK S : cache \in Seq(S)
    BY DEF TypeInv
  <2>. QED  BY <2>1 DEF TypeInv
<1>13. \A d \in Clients :
           Seen(d)' = IF d = c THEN Query!Properties(Query!ServerOf(q), Query!LocationOf(q))
                      ELSE Seen(d)
  BY <1>7, <1>8, <1>11, <1>12 DEF Gives, Seen
<1>14. Query!Answer(c)
  <2>1. asked[c] = Query!NoRequest
    BY <1>2 DEF Holds
  <2>2. [d \in Clients |-> Seen(d)']
        = [[d \in Clients |-> Seen(d)] EXCEPT
              ![c] = Query!Properties(Query!ServerOf(q), Query!LocationOf(q))]
    BY <1>13
  <2>. QED  BY <1>10, <2>1, <2>2 DEF Query!Answer
<1>15. Holds'
  <2>1. ASSUME NEW r \in DOMAIN cache'  PROVE \E x \in Served : IsOf(cache'[r], x)
    BY <1>4, <1>7, <1>9 DEF Gives, Holds
  <2>2. asked' \in [Clients -> Requests \cup {Query!NoRequest}]
    BY <1>10 DEF Holds
  <2>3. ASSUME NEW d \in Clients  PROVE held'[d] = 0 <=> asked'[d] = Query!NoRequest
    BY <1>10, <1>11, RequestsAssumption DEF Holds
  <2>. QED  BY <2>1, <2>2, <2>3 DEF Holds, IsOf, Construct, EmptyQuery, Served,
            Query!RootOf, Query!IndexOf
<1>. QED  BY <1>14, <1>15

\* ... one that ends leaves nothing, and no other step changes what a client sees.
LEMMA ResetFinishes ==
    ASSUME TypeInv, Holds, NEW c \in Clients, Reset(c)
    PROVE  Holds' /\ Query!Finish(c)
<1>1. /\ held[c] # 0 /\ held' = [held EXCEPT ![c] = 0]
      /\ asked' = [asked EXCEPT ![c] = Query!NoRequest] /\ cache' = cache
  BY DEF Reset
<1>2. \A d \in Clients : held'[d] = IF d = c THEN 0 ELSE held[d]
  BY <1>1 DEF TypeInv
<1>3. \A d \in Clients : Seen(d)' = IF d = c THEN Query!NoAnswer ELSE Seen(d)
  BY <1>1, <1>2 DEF Seen, Query!NoAnswer, NoBlock, NoValue, Query!NoBlock, Query!NoValue
<1>4. [d \in Clients |-> Seen(d)]' = [[d \in Clients |-> Seen(d)] EXCEPT ![c] = Query!NoAnswer]
  BY <1>3
<1>5. Query!Finish(c)
  BY <1>1, <1>4 DEF Query!Finish, Holds
<1>6. Holds'
  <2>1. asked' \in [Clients -> Requests \cup {Query!NoRequest}]
    BY <1>1 DEF Holds
  <2>2. ASSUME NEW d \in Clients  PROVE held'[d] = 0 <=> asked'[d] = Query!NoRequest
    BY <1>1, <1>2 DEF Holds
  <2>. QED  BY <1>1, <2>1, <2>2 DEF Holds, IsOf
<1>. QED  BY <1>5, <1>6

LEMMA NextAnswers ==
    ASSUME RoomForAll, PortsOnce
    PROVE  OpenInv /\ ServesInv /\ TypeInv /\ Holds /\ [Next]_vars
           => Holds' /\ [Query!QueryNext]_<<asked, [c \in Clients |-> Seen(c)]>>
<1>. SUFFICES ASSUME OpenInv, ServesInv, TypeInv, Holds, [Next]_vars
              PROVE  Holds' /\ [Query!QueryNext]_<<asked, [c \in Clients |-> Seen(c)]>>
  OBVIOUS
<1>1. CASE UNCHANGED queries
  <2>1. UNCHANGED <<asked, [c \in Clients |-> Seen(c)]>>
    BY <1>1 DEF queries, Seen
  <2>. QED  BY <1>1, <2>1 DEF queries, Holds, IsOf
<1>2. ASSUME NEW c \in Clients, HeadRead(c)
      PROVE  Holds' /\ Query!QueryNext
  BY <1>2, HeadReadAnswers DEF Query!QueryNext
<1>3. ASSUME NEW c \in Clients, Reset(c)
      PROVE  Holds' /\ Query!QueryNext
  BY <1>3, ResetFinishes DEF Query!QueryNext
<1>. QED  BY <1>1, <1>2, <1>3 DEF Next, vars

\* A client has the properties the file gives to its request, in the server block that
\* listens on its socket, from the head of the request to its end, whatever the file,
\* the clients and the order of requests, if the cache has room for every location
\* (Configuration.cpp:67-79, 125-234).
THEOREM ImplementsQueryAlways ==
    ASSUME RoomForAll, PortsOnce
    PROVE  Spec => ImplementsQuery
<1>1. Init => Holds /\ Query!QueryInit
  <2>. SUFFICES ASSUME Init  PROVE Holds /\ Query!QueryInit
    OBVIOUS
  <2>1. DOMAIN cache = {} /\ asked = [c \in Clients |-> Query!NoRequest]
        /\ held = [c \in Clients |-> 0]
    BY DEF Init
  <2>. QED  BY <2>1 DEF Holds, Query!QueryInit, Seen, Query!NoAnswer, NoBlock, NoValue,
            Query!NoBlock, Query!NoValue
<1>2. OpenInv /\ ServesInv /\ TypeInv /\ [Next]_vars => (OpenInv /\ ServesInv /\ TypeInv)'
  BY NextTypes DEF RoomForAll
<1>3. OpenInv /\ ServesInv /\ TypeInv /\ Holds /\ [Next]_vars
      => Holds' /\ [Query!QueryNext]_<<asked, [c \in Clients |-> Seen(c)]>>
  BY NextAnswers
<1>. QED  BY InitTypes, <1>1, <1>2, <1>3, PTL DEF Spec, ImplementsQuery, Query!QuerySpec
===============================================================================

--------------------------- MODULE DirectivesProofs ---------------------------
(***************************************************************************)
(* Lemmas about Directives, for files of any size.  Its operators are      *)
(* folds and recursive functions, so induction comes first; since an       *)
(* operator cannot be handed to a theorem here, what is proved by          *)
(* induction is a set of numbers, and the step of a recursion a function.  *)
(***************************************************************************)
EXTENDS Directives, WellFoundedInduction, FiniteSetTheorems, TLAPS

\* The smallest element of a set of natural numbers.  An operator need not be given to
\* a theorem for this: the order is that of the finite sets 0 .. n.
LEMMA Least ==
    ASSUME NEW T, T \subseteq Nat, T # {}
    PROVE  \E x \in T : \A y \in T : x <= y
<1>. DEFINE U == {0 .. x : x \in T}
<1>1. U \subseteq FiniteSubsetsOf(Nat) /\ U # {}
  <2>1. \A x \in T : IsFiniteSet(0 .. x) /\ 0 .. x \in SUBSET Nat
    BY FS_Interval
  <2>. QED  BY <2>1 DEF FiniteSubsetsOf
<1>2. PICK s \in U : \A y \in U : ~ (<<y, s>> \in StrictSubsetOrdering(Nat))
  <2>. HIDE DEF U
  <2>. QED  BY <1>1, WFMin, FS_StrictSubsetOrderingWellFounded
<1>3. PICK x \in T : s = 0 .. x
  OBVIOUS
<1>4. ASSUME NEW y \in T, y < x  PROVE FALSE
  <2>1. 0 .. y \in U /\ x \in Nat /\ y \in Nat
    OBVIOUS
  <2>2. 0 .. y \subseteq 0 .. x /\ x \notin 0 .. y /\ x \in 0 .. x
    BY <1>4, <2>1
  <2>3. 0 .. y \in SUBSET Nat /\ 0 .. x \in SUBSET Nat
    BY <2>1
  <2>. QED  BY <1>2, <1>3, <2>1, <2>2, <2>3 DEF StrictSubsetOrdering
<1>. QED  BY <1>3, <1>4

\* Induction: a set that has 0 and the successor of each of its numbers has them all.
LEMMA Inductive ==
    ASSUME NEW T, 0 \in T, \A n \in Nat : n \in T => n + 1 \in T
    PROVE  \A n \in Nat : n \in T
<1>. DEFINE U == {n \in Nat : n \notin T}
<1>. SUFFICES ASSUME U # {}  PROVE FALSE
  OBVIOUS
<1>1. PICK x \in U : \A y \in U : x <= y
  <2>. HIDE DEF U
  <2>1. U \subseteq Nat
    BY DEF U
  <2>. QED  BY <2>1, Least
<1>2. x \in Nat /\ x # 0 /\ x - 1 \in Nat /\ x - 1 \notin U
  BY <1>1
<1>. QED  BY <1>1, <1>2

\* Recursion: a step from values to values, given as a function, is the step of a
\* function on the natural numbers.
Upto(n, f, V, b, F) ==
    /\ f \in [0 .. n -> V] /\ f[0] = b
    /\ \A i \in 0 .. n : i < n => f[i + 1] = F[<<i, f[i]>>]

LEMMA UptoUnique ==
    ASSUME NEW V, NEW b, NEW F, NEW n \in Nat, NEW f, NEW g,
           Upto(n + 1, f, V, b, F), Upto(n, g, V, b, F)
    PROVE  f[n] = g[n]
<1>. DEFINE T == {i \in Nat : i <= n => f[i] = g[i]}
<1>1. 0 \in T
  BY DEF Upto
<1>2. ASSUME NEW i \in Nat, i \in T  PROVE i + 1 \in T
  <2>. SUFFICES ASSUME i + 1 <= n  PROVE f[i + 1] = g[i + 1]
    OBVIOUS
  <2>1. f[i + 1] = F[<<i, f[i]>>] /\ g[i + 1] = F[<<i, g[i]>>] /\ f[i] = g[i]
    BY <1>2 DEF Upto
  <2>. QED  BY <2>1
<1>3. \A i \in Nat : i \in T
  <2>. HIDE DEF T
  <2>. QED  BY <1>1, <1>2, Inductive
<1>. QED  BY <1>3

LEMMA UptoExists ==
    ASSUME NEW V, NEW b \in V, NEW F \in [Nat \X V -> V]
    PROVE  \A n \in Nat : \E f : Upto(n, f, V, b, F)
<1>. DEFINE T == {n \in Nat : \E f : Upto(n, f, V, b, F)}
<1>1. 0 \in T
  <2>1. Upto(0, [i \in 0 .. 0 |-> b], V, b, F)
    BY DEF Upto
  <2>. QED  BY <2>1
<1>2. ASSUME NEW n \in Nat, n \in T  PROVE n + 1 \in T
  <2>1. PICK f : Upto(n, f, V, b, F)
    BY <1>2
  <2>. DEFINE g == [i \in 0 .. (n + 1) |-> IF i <= n THEN f[i] ELSE F[<<n, f[n]>>]]
  <2>2. f \in [0 .. n -> V] /\ f[n] \in V /\ F[<<n, f[n]>>] \in V /\ f[0] = b
    BY <2>1 DEF Upto
  <2>3. g \in [0 .. (n + 1) -> V]
    BY <2>2
  <2>4. g[0] = b
    BY <2>2
  <2>5. ASSUME NEW i \in 0 .. (n + 1), i < n + 1  PROVE g[i + 1] = F[<<i, g[i]>>]
    <3>1. CASE i < n
      <4>1. g[i + 1] = f[i + 1] /\ g[i] = f[i]
        BY <3>1
      <4>2. f[i + 1] = F[<<i, f[i]>>]
        BY <2>1, <3>1 DEF Upto
      <4>. QED  BY <4>1, <4>2
    <3>2. CASE i = n
      BY <3>2
    <3>. QED  BY <2>5, <3>1, <3>2
  <2>6. Upto(n + 1, g, V, b, F)
    <3>. HIDE DEF g
    <3>. QED  BY <2>3, <2>4, <2>5 DEF Upto
  <2>. QED  BY <2>6
<1>3. \A n \in Nat : n \in T
  <2>. HIDE DEF T
  <2>. QED  BY <1>1, <1>2, Inductive
<1>. QED  BY <1>3

Recurses(f, V, b, F) ==
    f \in [Nat -> V] /\ f[0] = b /\ \A n \in Nat : f[n + 1] = F[<<n, f[n]>>]

LEMMA Recursive ==
    ASSUME NEW V, NEW b \in V, NEW F \in [Nat \X V -> V]
    PROVE  \E f : Recurses(f, V, b, F)
<1>. DEFINE part == [n \in Nat |-> CHOOSE f : Upto(n, f, V, b, F)]
<1>1. \A n \in Nat : Upto(n, part[n], V, b, F)
  BY UptoExists
<1>. HIDE DEF part
<1>. DEFINE h == [n \in Nat |-> part[n][n]]
<1>2. \A n \in Nat : part[n][n] \in V
  BY <1>1 DEF Upto
<1>3. h \in [Nat -> V] /\ h[0] = b
  BY <1>1, <1>2 DEF Upto
<1>4. ASSUME NEW n \in Nat  PROVE h[n + 1] = F[<<n, h[n]>>]
  <2>1. Upto(n + 1, part[n + 1], V, b, F) /\ Upto(n, part[n], V, b, F)
    BY <1>1
  <2>2. part[n + 1][n] = part[n][n]
    BY <2>1, UptoUnique
  <2>3. part[n + 1][n + 1] = F[<<n, part[n + 1][n]>>]
    BY <2>1 DEF Upto
  <2>. QED  BY <2>2, <2>3
<1>. HIDE DEF h
<1>. QED  BY <1>3, <1>4 DEF Recurses

-------------------------------------------------------------------------------
(* Folds *)

LEMMA MaxOfPrefix ==
    ASSUME NEW n \in Nat
    PROVE  Max(1 .. (n + 1)) = n + 1 /\ (1 .. (n + 1)) \ {n + 1} = 1 .. n
BY DEF Max

\* What MapThenFoldSet() iterates when FoldLeft() calls it: each set of positions is
\* folded without its greatest element, which comes last.
FoldsTo(it, n, V, b, F) ==
    /\ it \in [SUBSET (1 .. n) -> V]
    /\ \A s \in SUBSET (1 .. n) :
          it[s] = IF s = {} THEN b ELSE F[<<it[s \ {Max(s)}], Max(s)>>]

LEMMA MaxOfNumbers ==
    ASSUME NEW n \in Nat, NEW s \in SUBSET (1 .. n), s # {}
    PROVE  Max(s) \in s /\ \A x \in s : x <= Max(s)
<1>. DEFINE T == {n - x : x \in s}
<1>1. T \subseteq Nat /\ T # {}
  <2>1. \A x \in s : x \in Int /\ n - x \in Nat
    OBVIOUS
  <2>. QED  BY <2>1
<1>2. PICK y \in T : \A z \in T : y <= z
  <2>. HIDE DEF T
  <2>. QED  BY <1>1, Least
<1>3. n - y \in s /\ \A x \in s : n - y >= x
  BY <1>2
<1>. QED  BY <1>3 DEF Max

LEMMA FoldGrows ==
    ASSUME NEW V, NEW b \in V, NEW n \in Nat, NEW F \in [V \X (1 .. n) -> V],
           NEW m \in Nat, m + 1 <= n, NEW it, FoldsTo(it, m, V, b, F)
    PROVE  \E more : FoldsTo(more, m + 1, V, b, F)
<1>. DEFINE more == [s \in SUBSET (1 .. (m + 1)) |->
                        IF m + 1 \in s THEN F[<<it[s \ {m + 1}], m + 1>>] ELSE it[s]]
<1>1. \A s \in SUBSET (1 .. (m + 1)) : s \ {m + 1} \in SUBSET (1 .. m)
  OBVIOUS
<1>2. \A s \in SUBSET (1 .. (m + 1)) : m + 1 \notin s => s \in SUBSET (1 .. m)
  OBVIOUS
<1>3. more \in [SUBSET (1 .. (m + 1)) -> V]
  <2>1. m + 1 \in 1 .. n
    OBVIOUS
  <2>. QED  BY <1>1, <1>2, <2>1 DEF FoldsTo
<1>4. ASSUME NEW s \in SUBSET (1 .. (m + 1))
      PROVE  more[s] = IF s = {} THEN b ELSE F[<<more[s \ {Max(s)}], Max(s)>>]
  <2>1. CASE m + 1 \in s
    <3>1. Max(s) = m + 1
      <4>1. m + 1 \in Nat /\ s # {} /\ \A x \in s : x \in Int /\ x <= m + 1
        BY <2>1
      <4>2. Max(s) \in s /\ \A x \in s : x <= Max(s)
        BY <4>1, MaxOfNumbers
      <4>3. Max(s) \in Int /\ Max(s) <= m + 1 /\ m + 1 <= Max(s)
        BY <2>1, <4>1, <4>2
      <4>. QED  BY <4>3
    <3>2. more[s \ {Max(s)}] = it[s \ {m + 1}]
      BY <3>1, <1>1
    <3>. QED  BY <2>1, <3>1, <3>2
  <2>2. CASE m + 1 \notin s /\ s # {}
    <3>1. s \in SUBSET (1 .. m) /\ Max(s) \in s
      BY <1>2, <2>2, MaxOfNumbers
    <3>2. s \ {Max(s)} \in SUBSET (1 .. (m + 1)) /\ m + 1 \notin s \ {Max(s)}
      BY <2>2
    <3>3. more[s \ {Max(s)}] = it[s \ {Max(s)}] /\ more[s] = it[s]
      BY <2>2, <3>2
    <3>. HIDE DEF more
    <3>. QED  BY <2>2, <3>1, <3>3 DEF FoldsTo
  <2>3. CASE s = {}
    BY <2>3 DEF FoldsTo
  <2>. QED  BY <2>1, <2>2, <2>3
<1>. HIDE DEF more
<1>. QED  BY <1>3, <1>4 DEF FoldsTo

LEMMA FoldExists ==
    ASSUME NEW V, NEW b \in V, NEW n \in Nat, NEW F \in [V \X (1 .. n) -> V]
    PROVE  \E it : FoldsTo(it, n, V, b, F)
<1>. DEFINE T == {m \in Nat : m <= n => \E it : FoldsTo(it, m, V, b, F)}
<1>1. 0 \in T
  <2>1. SUBSET (1 .. 0) = {{}}
    OBVIOUS
  <2>2. FoldsTo([s \in SUBSET (1 .. 0) |-> b], 0, V, b, F)
    BY <2>1 DEF FoldsTo
  <2>. QED  BY <2>2
<1>2. ASSUME NEW m \in Nat, m \in T  PROVE m + 1 \in T
  <2>. SUFFICES ASSUME m + 1 <= n  PROVE \E it : FoldsTo(it, m + 1, V, b, F)
    OBVIOUS
  <2>1. PICK it : FoldsTo(it, m, V, b, F)
    BY <1>2
  <2>. QED  BY <2>1, FoldGrows
<1>3. n \in T
  <2>. HIDE DEF T
  <2>. QED  BY <1>1, <1>2, Inductive
<1>. QED  BY <1>3

\* The sets a fold over 1 .. n goes through, from {} to 1 .. n.
LEMMA NextPrefix ==
    ASSUME NEW n \in Nat, NEW k \in 0 .. n, k < n
    PROVE  /\ k + 1 \in 1 .. n /\ k + 1 \in 0 .. n
           /\ 1 .. (k + 1) \in SUBSET (1 .. n) /\ 1 .. (k + 1) # {}
           /\ Max(1 .. (k + 1)) = k + 1 /\ (1 .. (k + 1)) \ {k + 1} = 1 .. k
<1>1. k \in Nat /\ k + 1 \in 1 .. n /\ k + 1 \in 1 .. (k + 1)
  OBVIOUS
<1>2. 1 .. (k + 1) \in SUBSET (1 .. n) /\ k + 1 \in 0 .. n
  BY <1>1
<1>3. Max(1 .. (k + 1)) = k + 1 /\ (1 .. (k + 1)) \ {k + 1} = 1 .. k
  BY <1>1, MaxOfPrefix
<1>. QED  BY <1>1, <1>2, <1>3

LEMMA FoldValues ==
    ASSUME NEW it, NEW n \in Nat, NEW V, NEW b, NEW F, FoldsTo(it, n, V, b, F),
           NEW s \in SUBSET (1 .. n), s # {}
    PROVE  /\ Max(s) \in 1 .. n /\ it[s \ {Max(s)}] \in V
           /\ it[s] = F[<<it[s \ {Max(s)}], Max(s)>>]
<1>1. Max(s) \in 1 .. n
  BY MaxOfNumbers
<1>. QED  BY <1>1 DEF FoldsTo

LEMMA MinOf ==
    ASSUME NEW T, T \subseteq Nat, T # {}
    PROVE  Min(T) \in T /\ \A x \in T : Min(T) <= x
BY Least DEF Min

\* The first of some elements of a sequence that never falls is the smallest of them.
LEMMA FirstIsMin ==
    ASSUME NEW s \in Seq(Nat), \A j, k \in DOMAIN s : j <= k => s[j] <= s[k], NEW N,
           NEW K, K # {}, \A k : k \in K <=> k \in DOMAIN s /\ s[k] \in N
    PROVE  Min(K) \in DOMAIN s /\ s[Min(K)] = Min(ToSet(s) \cap N)
<1>. DEFINE T == ToSet(s) \cap N
            m == Min(K)
<1>1. K \subseteq Nat /\ T \subseteq Nat
  BY DEF ToSet
<1>2. m \in K /\ \A k \in K : m <= k
  BY <1>1, MinOf
<1>. HIDE DEF m
<1>3. s[m] \in T /\ \A x \in T : s[m] <= x
  <2>1. s[m] \in T
    BY <1>2 DEF ToSet
  <2>2. ASSUME NEW x \in T  PROVE s[m] <= x
    <3>1. PICK k \in DOMAIN s : x = s[k]
      BY DEF ToSet
    <3>. QED  BY <1>2, <3>1
  <2>. QED  BY <2>1, <2>2
<1>4. Min(T) \in T /\ \A x \in T : Min(T) <= x
  <2>. HIDE DEF T
  <2>. QED  BY <1>1, <1>3, MinOf
<1>5. s[m] \in Nat /\ Min(T) \in Nat
  BY <1>1, <1>3, <1>4
<1>6. s[m] = Min(T)
  <2>. HIDE DEF T
  <2>. QED  BY <1>3, <1>4, <1>5
<1>. QED  BY <1>2, <1>6 DEF m

-------------------------------------------------------------------------------
(* The directives of a type                                                    *)

\* OfType() takes the directives one after the other.
Took(taken, items, type) ==
    /\ taken[0] = <<>>
    /\ \A k \in 0 .. Len(items) :
          k < Len(items) =>
              taken[k + 1] = IF items[k + 1].type = type THEN Append(taken[k], items[k + 1])
                             ELSE taken[k]

LEMMA OfTypeSteps ==
    ASSUME NEW S, NEW items \in Seq(S), NEW type
    PROVE  \E taken : Took(taken, items, type) /\ OfType(items, type) = taken[Len(items)]
<1>. DEFINE n    == Len(items)
            V    == Seq(S)
            Take(v, d) == IF d.type = type THEN Append(v, d) ELSE v
            F    == [x \in V \X (1 .. n) |-> Take(x[1], items[x[2]])]
            Eq(it) == it = [s \in SUBSET (1 .. n) |->
                              IF s = {} THEN <<>> ELSE Take(it[s \ {Max(s)}], items[Max(s)])]
<1>1. n \in Nat /\ DOMAIN items = 1 .. n /\ <<>> \in V
  OBVIOUS
<1>2. F \in [V \X (1 .. n) -> V]
  OBVIOUS
<1>3. OfType(items, type) = (CHOOSE it : Eq(it))[1 .. n]
  BY <1>1 DEF OfType, FoldLeft, MapThenFoldSet
<1>4. \E it : Eq(it)
  <2>1. PICK it : FoldsTo(it, n, V, <<>>, F)
    <3>. HIDE DEF n, V, F
    <3>. QED  BY <1>1, <1>2, FoldExists
  <2>2. it = [s \in SUBSET (1 .. n) |-> IF s = {} THEN <<>>
                                        ELSE F[<<it[s \ {Max(s)}], Max(s)>>]]
    BY <2>1 DEF FoldsTo
  <2>3. \A s \in SUBSET (1 .. n) : s # {} =>
            F[<<it[s \ {Max(s)}], Max(s)>>] = Take(it[s \ {Max(s)}], items[Max(s)])
    <3>1. \A s \in SUBSET (1 .. n) : s # {} => Max(s) \in 1 .. n /\ it[s \ {Max(s)}] \in V
      <4>. HIDE DEF n, V, F
      <4>. QED  BY <1>1, <2>1, FoldValues
    <3>. HIDE DEF n, V, Take
    <3>. QED  BY <3>1
  <2>. HIDE DEF n, Take, F
  <2>. QED  BY <2>2, <2>3
<1>. DEFINE c     == CHOOSE it : Eq(it)
            taken == [k \in 0 .. n |-> c[1 .. k]]
<1>5. Eq(c)
  <2>. HIDE DEF Eq
  <2>. QED  BY <1>4
<1>6. OfType(items, type) = c[1 .. n]
  BY <1>3
<1>. HIDE DEF n, c, Take
<1>7. taken[0] = <<>> /\ OfType(items, type) = taken[n]
  BY <1>1, <1>5, <1>6
<1>8. ASSUME NEW k \in 0 .. n, k < n  PROVE taken[k + 1] = Take(taken[k], items[k + 1])
  <2>1. /\ k + 1 \in 0 .. n /\ 1 .. (k + 1) \in SUBSET (1 .. n) /\ 1 .. (k + 1) # {}
        /\ Max(1 .. (k + 1)) = k + 1 /\ (1 .. (k + 1)) \ {k + 1} = 1 .. k
    BY <1>1, <1>8, NextPrefix
  <2>2. c[1 .. (k + 1)] = Take(c[1 .. k], items[k + 1])
    BY <1>5, <2>1
  <2>. QED  BY <2>1, <2>2
<1>9. Took(taken, items, type)
  BY <1>7, <1>8 DEF Took, n, Take
<1>. HIDE DEF taken
<1>. QED  BY <1>7, <1>9 DEF n

-------------------------------------------------------------------------------
(* The blocks around a block                                                   *)

LEMMA ChainExists ==
    ASSUME NEW bs, Parsed(bs)
    PROVE  \E up : up = [c \in DOMAIN bs |->
                            <<c>> \o (IF bs[c].parent = NoBlock THEN <<>> ELSE up[bs[c].parent])]
<1>. DEFINE Eq(n, up) == up = [c \in 1 .. n |->
                <<c>> \o (IF bs[c].parent = NoBlock THEN <<>> ELSE up[bs[c].parent])]
            T == {n \in Nat : n <= Len(bs) => \E up : Eq(n, up)}
<1>1. DOMAIN bs = 1 .. Len(bs) /\ Len(bs) \in Nat
  BY DEF Parsed
<1>2. \A c \in 1 .. Len(bs) : bs[c].parent \in 0 .. (c - 1)
  BY <1>1 DEF Parsed
<1>3. 0 \in T
  <2>1. 1 .. 0 = {}
    OBVIOUS
  <2>. DEFINE none == [c \in {} |-> <<>>]
  <2>2. Eq(0, none)
    BY <2>1
  <2>. QED  BY <2>2
<1>4. ASSUME NEW n \in Nat, n \in T  PROVE n + 1 \in T
  <2>1. ASSUME n + 1 <= Len(bs)  PROVE \E up : Eq(n + 1, up)
    <3>1. PICK up : Eq(n, up)
      BY <1>1, <1>4, <2>1
    <3>. DEFINE link(f, c) ==
                  <<c>> \o (IF bs[c].parent = NoBlock THEN <<>> ELSE f[bs[c].parent])
                more == [c \in 1 .. (n + 1) |-> IF c = n + 1 THEN link(up, c) ELSE up[c]]
    <3>2. \A c \in 1 .. (n + 1) :
              /\ c = n + 1 \/ c \in 1 .. n
              /\ bs[c].parent # NoBlock => bs[c].parent \in 1 .. n /\ bs[c].parent # n + 1
      <4>1. \A c \in 1 .. (n + 1) : c \in 1 .. Len(bs)
        BY <1>1, <2>1
      <4>2. \A c \in 1 .. (n + 1) : bs[c].parent \in 0 .. (c - 1)
        BY <1>2, <4>1
      <4>. QED  BY <4>2 DEF NoBlock
    <3>3. \A c \in 1 .. n : c # n + 1 /\ c \in 1 .. (n + 1)
      OBVIOUS
    <3>4. \A c \in 1 .. n : more[c] = up[c]
      BY <3>3
    <3>5. \A c \in 1 .. (n + 1) : link(more, c) = link(up, c)
      <4>. HIDE DEF more
      <4>. QED  BY <3>2, <3>4
    <3>6. \A c \in 1 .. n : up[c] = link(up, c)
      BY <3>1
    <3>7. more = [c \in 1 .. (n + 1) |-> link(more, c)]
      <4>1. \A c \in 1 .. (n + 1) : more[c] = link(more, c)
        <5>1. more[n + 1] = link(up, n + 1)
          OBVIOUS
        <5>. HIDE DEF more, link
        <5>. QED  BY <3>2, <3>4, <3>5, <3>6, <5>1
      <4>2. more = [c \in 1 .. (n + 1) |-> more[c]]
        OBVIOUS
      <4>. HIDE DEF more, link
      <4>. QED  BY <4>1, <4>2
    <3>8. Eq(n + 1, more)
      <4>. HIDE DEF more
      <4>. QED  BY <3>7
    <3>. QED  BY <3>8
  <2>. HIDE DEF Eq
  <2>. QED  BY <2>1
<1>5. \A n \in Nat : n \in T
  <2>. HIDE DEF T
  <2>. QED  BY <1>3, <1>4, Inductive
<1>6. PICK up : Eq(Len(bs), up)
  <2>. HIDE DEF Eq
  <2>. QED  BY <1>1, <1>5
<1>. QED  BY <1>1, <1>6

\* A block, and then what is around its parent.
LEMMA ChainStep ==
    ASSUME NEW bs, Parsed(bs), NEW b \in DOMAIN bs
    PROVE  Chain(bs, b) = <<b>> \o (IF bs[b].parent = NoBlock THEN <<>>
                                    ELSE Chain(bs, bs[b].parent))
<1>. DEFINE Eq(up) == up = [c \in DOMAIN bs |->
                <<c>> \o (IF bs[c].parent = NoBlock THEN <<>> ELSE up[bs[c].parent])]
            up == CHOOSE f : Eq(f)
<1>1. Eq(up)
  <2>1. \E f : Eq(f)
    BY ChainExists
  <2>. HIDE DEF Eq
  <2>. QED  BY <2>1
<1>2. \A c : Chain(bs, c) = up[c]
  BY DEF Chain
<1>. HIDE DEF up
<1>. QED  BY <1>1, <1>2

Around(bs, b) ==
    /\ Chain(bs, b) \in Seq(DOMAIN bs) /\ Len(Chain(bs, b)) > 0 /\ Chain(bs, b)[1] = b
    /\ \A k \in 1 .. Len(Chain(bs, b)) : k > 1 =>
          /\ k - 1 \in 1 .. Len(Chain(bs, b)) /\ bs[Chain(bs, b)[k - 1]].parent # NoBlock
          /\ Chain(bs, b)[k] = bs[Chain(bs, b)[k - 1]].parent

LEMMA ChainIsAround ==
    ASSUME NEW bs, Parsed(bs), NEW b \in DOMAIN bs
    PROVE  Around(bs, b)
<1>. DEFINE T == {n \in Nat : \A c \in DOMAIN bs : c <= n => Around(bs, c)}
<1>1. DOMAIN bs = 1 .. Len(bs) /\ Len(bs) \in Nat
  BY DEF Parsed
<1>2. \A c \in DOMAIN bs : bs[c].parent \in 0 .. (c - 1)
  BY DEF Parsed
<1>3. 0 \in T
  BY <1>1
<1>4. ASSUME NEW n \in Nat, n \in T  PROVE n + 1 \in T
  <2>. SUFFICES ASSUME NEW c \in DOMAIN bs, c = n + 1  PROVE Around(bs, c)
    BY <1>1, <1>4
  <2>. DEFINE p == bs[c].parent
  <2>1. Chain(bs, c) = <<c>> \o (IF p = NoBlock THEN <<>> ELSE Chain(bs, p))
    BY ChainStep
  <2>2. CASE p = NoBlock
    <3>. DEFINE one == <<c>>
    <3>1. Chain(bs, c) = one
      BY <2>1, <2>2
    <3>2. one \in Seq(DOMAIN bs) /\ Len(one) = 1 /\ one[1] = c
      OBVIOUS
    <3>. HIDE DEF one
    <3>3. Chain(bs, c) \in Seq(DOMAIN bs) /\ Len(Chain(bs, c)) = 1 /\ Chain(bs, c)[1] = c
      BY <3>1, <3>2
    <3>. DEFINE m == Len(Chain(bs, c))
    <3>4. m = 1
      BY <3>3
    <3>. HIDE DEF m
    <3>5. \A k \in 1 .. m : ~ (k > 1)
      BY <3>4
    <3>. QED  BY <3>3, <3>5 DEF Around, m
  <2>3. CASE p # NoBlock
    <3>1. p \in DOMAIN bs /\ p <= n
      BY <1>1, <1>2, <2>3 DEF NoBlock
    <3>2. Around(bs, p)
      BY <1>4, <3>1
    <3>. DEFINE up   == Chain(bs, p)
                m    == Len(up)
                more == <<c>> \o up
    <3>3. /\ up \in Seq(DOMAIN bs) /\ m > 0 /\ up[1] = p /\ m \in Nat
          /\ \A k \in 1 .. m : k > 1 =>
                /\ k - 1 \in 1 .. m /\ bs[up[k - 1]].parent # NoBlock
                /\ up[k] = bs[up[k - 1]].parent
      BY <3>2 DEF Around
    <3>. HIDE DEF up
    <3>4. /\ more \in Seq(DOMAIN bs) /\ Len(more) = m + 1 /\ more[1] = c
          /\ \A k \in 1 .. (m + 1) : k > 1 => more[k] = up[k - 1]
      BY <3>3
    <3>. HIDE DEF more, m
    <3>5. ASSUME NEW k \in 1 .. (m + 1), k > 1
          PROVE  /\ k - 1 \in 1 .. (m + 1) /\ bs[more[k - 1]].parent # NoBlock
                 /\ more[k] = bs[more[k - 1]].parent
      <4>1. CASE k = 2
        <5>1. more[2] = p /\ more[1] = c /\ k - 1 = 1
          BY <3>3, <3>4, <4>1
        <5>. QED  BY <2>3, <3>3, <4>1, <5>1
      <4>2. CASE k > 2
        <5>1. k - 1 \in 1 .. m /\ k - 1 > 1 /\ k - 1 \in 1 .. (m + 1)
          BY <3>3, <3>5, <4>2
        <5>2. more[k] = up[k - 1] /\ more[k - 1] = up[(k - 1) - 1]
          BY <3>4, <3>5, <5>1
        <5>. QED  BY <3>3, <5>1, <5>2
      <4>. QED  BY <3>3, <3>5, <4>1, <4>2
    <3>6. Chain(bs, c) = more
      BY <2>1, <2>3 DEF more, up
    <3>. QED  BY <3>3, <3>4, <3>5, <3>6 DEF Around
  <2>. QED  BY <2>2, <2>3
<1>5. \A n \in Nat : n \in T
  <2>. HIDE DEF T
  <2>. QED  BY <1>3, <1>4, Inductive
<1>. QED  BY <1>1, <1>5

-------------------------------------------------------------------------------
(* Sequences that are made of others                                           *)

LEMMA OfTypeSeq ==
    ASSUME NEW S, NEW items \in Seq(S), NEW type
    PROVE  OfType(items, type) \in Seq(S)
<1>1. PICK taken : Took(taken, items, type) /\ OfType(items, type) = taken[Len(items)]
  BY OfTypeSteps
<1>. DEFINE T == {n \in Nat : n <= Len(items) => taken[n] \in Seq(S)}
<1>2. 0 \in T
  <2>1. taken[0] = <<>> /\ <<>> \in Seq(S)
    BY <1>1 DEF Took
  <2>. QED  BY <2>1
<1>3. ASSUME NEW n \in Nat, n \in T  PROVE n + 1 \in T
  <2>1. ASSUME n + 1 <= Len(items)  PROVE taken[n + 1] \in Seq(S)
    <3>1. n \in 0 .. Len(items) /\ n < Len(items) /\ n + 1 \in DOMAIN items
      BY <2>1
    <3>2. taken[n] \in Seq(S) /\ items[n + 1] \in S
      BY <1>3, <3>1
    <3>3. Append(taken[n], items[n + 1]) \in Seq(S)
      BY <3>2
    <3>4. taken[n + 1] = IF items[n + 1].type = type THEN Append(taken[n], items[n + 1])
                         ELSE taken[n]
      BY <1>1, <3>1 DEF Took
    <3>. QED  BY <3>2, <3>3, <3>4
  <2>. QED  BY <2>1
<1>4. Len(items) \in T
  <2>. HIDE DEF T
  <2>. QED  BY <1>2, <1>3, Inductive
<1>. QED  BY <1>1, <1>4

\* FlattenSeq() appends one sequence after the other.
Flattens(flat, seqs) ==
    /\ flat[1] = seqs[1]
    /\ \A k \in 1 .. Len(seqs) : k < Len(seqs) => flat[k + 1] = flat[k] \o seqs[k + 1]

LEMMA FlattenSteps ==
    ASSUME NEW S, NEW seqs \in Seq(Seq(S)), seqs # <<>>
    PROVE  \E flat : Flattens(flat, seqs) /\ FlattenSeq(seqs) = flat[Len(seqs)]
<1>. DEFINE n == Len(seqs)
            V == Seq(S)
            Eq(f) == f = [k \in 1 .. n |-> IF k = 1 THEN seqs[k] ELSE f[k - 1] \o seqs[k]]
            step(k, v) == IF k + 2 <= n THEN v \o seqs[k + 2] ELSE v
            F == [x \in Nat \X V |-> step(x[1], x[2])]
<1>1. n \in Nat /\ n > 0 /\ \A k \in 1 .. n : seqs[k] \in V
  OBVIOUS
<1>2. F \in [Nat \X V -> V]
  <2>1. \A k \in Nat, v \in V : step(k, v) \in V
    <3>1. ASSUME NEW k \in Nat, NEW v \in V, k + 2 <= n  PROVE v \o seqs[k + 2] \in V
      <4>1. k + 2 \in 1 .. n
        BY <1>1, <3>1
      <4>. QED  BY <1>1, <4>1
    <3>. QED  BY <3>1
  <2>. HIDE DEF step, V
  <2>. QED  BY <2>1
<1>3. PICK f : Recurses(f, V, seqs[1], F)
  <2>1. seqs[1] \in V
    BY <1>1
  <2>. HIDE DEF F, V
  <2>. QED  BY <1>2, <2>1, Recursive
<1>4. f \in [Nat -> V] /\ f[0] = seqs[1] /\ \A k \in Nat : f[k + 1] = step(k, f[k])
  <2>. HIDE DEF step, V
  <2>. QED  BY <1>3 DEF Recurses
<1>. DEFINE g == [k \in 1 .. n |-> f[k - 1]]
<1>5. Eq(g)
  <2>1. ASSUME NEW k \in 1 .. n  PROVE g[k] = IF k = 1 THEN seqs[k] ELSE g[k - 1] \o seqs[k]
    <3>1. CASE k = 1
      BY <1>1, <1>4, <3>1
    <3>2. CASE k # 1
      <4>1. k - 2 \in Nat /\ (k - 2) + 1 = k - 1 /\ (k - 2) + 2 = k /\ k - 1 \in 1 .. n /\ k <= n
            /\ (k - 1) - 1 = k - 2
        BY <1>1, <3>2
      <4>2. f[k - 1] = f[k - 2] \o seqs[k]
        <5>1. f[(k - 2) + 1] = step(k - 2, f[k - 2])
          BY <1>4, <4>1
        <5>. QED  BY <4>1, <5>1
      <4>3. g[k] = f[k - 1] /\ g[k - 1] = f[k - 2]
        BY <4>1
      <4>. HIDE DEF g
      <4>. QED  BY <3>2, <4>2, <4>3
    <3>. QED  BY <3>1, <3>2
  <2>2. g = [k \in 1 .. n |-> g[k]]
    OBVIOUS
  <2>. HIDE DEF g
  <2>. QED  BY <2>1, <2>2
<1>. DEFINE flat == CHOOSE h : Eq(h)
<1>6. Eq(flat)
  <2>. HIDE DEF Eq, g
  <2>. QED  BY <1>5
<1>7. FlattenSeq(seqs) = flat[n]
  BY <1>1 DEF FlattenSeq
<1>. HIDE DEF flat
<1>8. Flattens(flat, seqs)
  <2>1. flat[1] = seqs[1]
    BY <1>1, <1>6
  <2>2. ASSUME NEW k \in 1 .. n, k < n  PROVE flat[k + 1] = flat[k] \o seqs[k + 1]
    <3>1. k + 1 \in 1 .. n /\ k + 1 # 1 /\ (k + 1) - 1 = k
      BY <1>1, <2>2
    <3>. QED  BY <1>6, <3>1
  <2>. QED  BY <2>1, <2>2 DEF Flattens
<1>. QED  BY <1>7, <1>8

LEMMA FlattenSeqOf ==
    ASSUME NEW S, NEW seqs \in Seq(Seq(S))
    PROVE  FlattenSeq(seqs) \in Seq(S)
<1>1. CASE seqs = <<>>
  BY <1>1 DEF FlattenSeq
<1>2. CASE seqs # <<>>
  <2>1. PICK flat : Flattens(flat, seqs) /\ FlattenSeq(seqs) = flat[Len(seqs)]
    BY <1>2, FlattenSteps
  <2>2. Len(seqs) \in Nat /\ Len(seqs) > 0 /\ \A k \in 1 .. Len(seqs) : seqs[k] \in Seq(S)
    BY <1>2
  <2>. DEFINE T == {n \in Nat : n + 1 <= Len(seqs) => flat[n + 1] \in Seq(S)}
  <2>3. 0 \in T
    BY <2>1, <2>2 DEF Flattens
  <2>4. ASSUME NEW n \in Nat, n \in T  PROVE n + 1 \in T
    <3>1. ASSUME (n + 1) + 1 <= Len(seqs)  PROVE flat[(n + 1) + 1] \in Seq(S)
      <4>1. n + 1 \in 1 .. Len(seqs) /\ n + 1 < Len(seqs) /\ (n + 1) + 1 \in 1 .. Len(seqs)
        BY <2>2, <3>1
      <4>2. flat[n + 1] \in Seq(S) /\ seqs[(n + 1) + 1] \in Seq(S)
        BY <2>2, <2>4, <4>1
      <4>3. flat[(n + 1) + 1] = flat[n + 1] \o seqs[(n + 1) + 1]
        BY <2>1, <4>1 DEF Flattens
      <4>. QED  BY <4>2, <4>3
    <3>. QED  BY <3>1
  <2>5. \A n \in Nat : n \in T
    <3>. HIDE DEF T
    <3>. QED  BY <2>3, <2>4, Inductive
  <2>6. Len(seqs) - 1 \in Nat /\ (Len(seqs) - 1) + 1 = Len(seqs)
    BY <2>2
  <2>7. Len(seqs) - 1 \in T
    <3>. HIDE DEF T
    <3>. QED  BY <2>5, <2>6
  <2>8. Len(seqs) <= Len(seqs)
    BY <2>2
  <2>9. flat[Len(seqs)] \in Seq(S)
    BY <2>6, <2>7, <2>8
  <2>. QED  BY <2>1, <2>9
<1>. QED  BY <1>1, <1>2

\* What is in front of the rest comes first.
LEMMA JoinOf ==
    ASSUME NEW S, NEW x \in S, NEW outer \in Seq(S)
    PROVE  /\ <<x>> \o outer \in Seq(S) /\ Len(<<x>> \o outer) = Len(outer) + 1
           /\ DOMAIN (<<x>> \o outer) = 1 .. (Len(outer) + 1)
           /\ (<<x>> \o outer)[1] = x
           /\ \A k \in 1 .. Len(outer) : (<<x>> \o outer)[k + 1] = outer[k]
OBVIOUS

LEMMA FlattenOut ==
    ASSUME NEW S, NEW x \in Seq(S), NEW seqs \in Seq(Seq(S))
    PROVE  FlattenSeq(<<x>> \o seqs) = x \o FlattenSeq(seqs)
<1>. DEFINE more == <<x>> \o seqs
            n    == Len(seqs)
<1>1. /\ more \in Seq(Seq(S)) /\ Len(more) = n + 1 /\ n \in Nat
      /\ more[1] = x /\ \A k \in 1 .. n : more[k + 1] = seqs[k] /\ seqs[k] \in Seq(S)
  BY JoinOf
<1>. HIDE DEF more
<1>2. PICK f : Flattens(f, more) /\ FlattenSeq(more) = f[Len(more)]
  <2>1. more # <<>>
    BY <1>1
  <2>. QED  BY <1>1, <2>1, FlattenSteps
<1>3. f[1] = x
  BY <1>1, <1>2 DEF Flattens
<1>4. CASE seqs = <<>>
  <2>1. FlattenSeq(seqs) = <<>> /\ n = 0 /\ x \o <<>> = x
    BY <1>4 DEF FlattenSeq
  <2>. QED  BY <1>1, <1>2, <1>3, <2>1 DEF more
<1>5. CASE seqs # <<>>
  <2>1. PICK g : Flattens(g, seqs) /\ FlattenSeq(seqs) = g[n]
    BY <1>5, FlattenSteps
  <2>. DEFINE T == {k \in Nat : k + 1 <= n =>
                                   g[k + 1] \in Seq(S) /\ f[(k + 1) + 1] = x \o g[k + 1]}
  <2>2. \A k \in 1 .. n : f[k + 1] = f[k] \o seqs[k]
    <3>1. ASSUME NEW k \in 1 .. n  PROVE k \in 1 .. Len(more) /\ k < Len(more)
      BY <1>1
    <3>. QED  BY <1>1, <1>2, <3>1 DEF Flattens
  <2>3. n > 0 /\ n # 0 /\ 1 \in 1 .. n /\ 0 + 1 = 1
    BY <1>1, <1>5
  <2>4. 0 \in T
    <3>1. f[1 + 1] = x \o seqs[1] /\ g[1] = seqs[1] /\ seqs[1] \in Seq(S)
      <4>1. f[1 + 1] = f[1] \o seqs[1]
        BY <2>2, <2>3
      <4>. QED  BY <1>1, <1>3, <2>1, <2>3, <4>1 DEF Flattens
    <3>. HIDE DEF n
    <3>. QED  BY <2>3, <3>1
  <2>5. ASSUME NEW k \in Nat, k \in T  PROVE k + 1 \in T
    <3>. SUFFICES ASSUME (k + 1) + 1 <= n
                  PROVE  g[(k + 1) + 1] \in Seq(S) /\ f[((k + 1) + 1) + 1] = x \o g[(k + 1) + 1]
      OBVIOUS
    <3>. DEFINE i == k + 1
                j == i + 1
    <3>1. i \in 1 .. n /\ i < n /\ j \in 1 .. n /\ i <= n
      BY <1>1
    <3>. HIDE DEF j
    <3>2. g[j] = g[i] \o seqs[j]
      BY <2>1, <3>1 DEF Flattens, j
    <3>3. g[i] \in Seq(S) /\ f[j] = x \o g[i] /\ seqs[j] \in Seq(S)
      BY <1>1, <2>5, <3>1 DEF j
    <3>4. f[j + 1] = (x \o g[i]) \o seqs[j]
      BY <2>2, <3>1, <3>3
    <3>. HIDE DEF i
    <3>5. g[i] \o seqs[j] \in Seq(S)
      BY <3>3
    <3>6. (x \o g[i]) \o seqs[j] = x \o (g[i] \o seqs[j])
      <4>1. ASSUME NEW y \in Seq(S), NEW z \in Seq(S)
            PROVE  (x \o y) \o z = x \o (y \o z)
        OBVIOUS
      <4>. QED  BY <3>3, <4>1
    <3>. QED  BY <3>2, <3>4, <3>5, <3>6 DEF i, j
  <2>6. \A k \in Nat : k \in T
    <3>. HIDE DEF T
    <3>. QED  BY <2>4, <2>5, Inductive
  <2>7. n - 1 \in Nat /\ (n - 1) + 1 = n /\ n <= n
    BY <1>1, <2>3
  <2>8. n - 1 \in T
    <3>. HIDE DEF T
    <3>. QED  BY <2>6, <2>7
  <2>9. f[n + 1] = x \o g[n]
    BY <2>7, <2>8
  <2>. QED  BY <1>1, <1>2, <2>1, <2>9 DEF more
<1>. QED  BY <1>4, <1>5

\* The values of the directives of a file.
ValuesIn(bs) == {bs[b].items[k].value : b \in DOMAIN bs, k \in Nat}

\* What is visible of a block: all of it, or what is in front of the next block.
LEMMA LevelsOf ==
    ASSUME NEW bs, Parsed(bs), NEW b \in DOMAIN bs, NEW type
    PROVE  /\ DOMAIN Levels(bs, b, type) = 1 .. Len(Chain(bs, b))
           /\ \A k \in 1 .. Len(Chain(bs, b)) :
                 Levels(bs, b, type)[k] \in Seq(ToSet(bs[Chain(bs, b)[k]].items))
<1>. DEFINE chain   == Chain(bs, b)
            seen(k) == IF k = 1 THEN bs[chain[k]].items
                       ELSE SubSeq(bs[chain[k]].items, 1, bs[chain[k - 1]].index)
<1>1. /\ chain \in Seq(DOMAIN bs) /\ DOMAIN chain = 1 .. Len(chain)
      /\ \A k \in 1 .. Len(chain) : k > 1 =>
            /\ k - 1 \in 1 .. Len(chain) /\ bs[chain[k - 1]].parent # NoBlock
            /\ chain[k] = bs[chain[k - 1]].parent
  BY ChainIsAround DEF Around
<1>. HIDE DEF chain
<1>2. ASSUME NEW k \in 1 .. Len(chain)  PROVE seen(k) \in Seq(ToSet(bs[chain[k]].items))
  <2>1. chain[k] \in DOMAIN bs /\ bs[chain[k]].items \in Seq(ToSet(bs[chain[k]].items))
    BY <1>1 DEF Parsed
  <2>2. CASE k = 1
    BY <2>1, <2>2
  <2>3. CASE k # 1
    <3>1. /\ k - 1 \in 1 .. Len(chain) /\ bs[chain[k - 1]].parent # NoBlock
          /\ chain[k] = bs[chain[k - 1]].parent
      BY <1>1, <2>3
    <3>2. chain[k - 1] \in DOMAIN bs
      BY <1>1, <3>1
    <3>3. bs[chain[k - 1]].index \in 0 .. Len(bs[chain[k]].items)
      BY <3>1, <3>2 DEF Parsed
    <3>. DEFINE items == bs[chain[k]].items
                n     == bs[chain[k - 1]].index
    <3>. HIDE DEF items, n
    <3>4. SubSeq(items, 1, n) \in Seq(ToSet(items))
      BY <2>1, <3>3 DEF items, n
    <3>. QED  BY <2>3, <3>4 DEF items, n
  <2>. QED  BY <2>2, <2>3
<1>3. Levels(bs, b, type) = [k \in DOMAIN chain |-> OfType(seen(k), type)]
  BY DEF Levels, chain
<1>4. ASSUME NEW k \in 1 .. Len(chain)
      PROVE  OfType(seen(k), type) \in Seq(ToSet(bs[chain[k]].items))
  <2>. HIDE DEF seen
  <2>. QED  BY <1>2, OfTypeSeq
<1>. HIDE DEF seen
<1>. QED  BY <1>1, <1>3, <1>4 DEF chain

\* What Collected() goes through.
LEMMA ReverseValues ==
    ASSUME NEW S, NEW items \in Seq(S), NEW V, \A d \in S : d.value \in V
    PROVE  Reverse(Values(items)) \in Seq(V)
<1>1. /\ Len(items) \in Nat /\ DOMAIN items = 1 .. Len(items)
      /\ \A k \in 1 .. Len(items) : items[k] \in S
  OBVIOUS
<1>2. Values(items) \in Seq(V) /\ Len(Values(items)) = Len(items)
  <2>1. \A k \in 1 .. Len(items) : items[k].value \in V
    BY <1>1
  <2>2. Values(items) = [k \in 1 .. Len(items) |-> items[k].value]
    BY <1>1 DEF Values
  <2>. QED  BY <1>1, <2>1, <2>2
<1>. DEFINE s == Values(items)
<1>. HIDE DEF s
<1>3. \A k \in 1 .. Len(s) : Len(s) - k + 1 \in 1 .. Len(s)
  BY <1>1, <1>2 DEF s
<1>4. [k \in 1 .. Len(s) |-> s[(Len(s) - k) + 1]] \in Seq(V)
  <2>1. \A k \in 1 .. Len(s) : s[(Len(s) - k) + 1] \in V
    BY <1>2, <1>3 DEF s
  <2>. QED  BY <1>1, <1>2, <2>1 DEF s
<1>. QED  BY <1>4 DEF Reverse, s

LEMMA AllCollected ==
    ASSUME NEW bs, Parsed(bs), NEW b \in DOMAIN bs, NEW type
    PROVE  LET levels == Levels(bs, b, type)
           IN  [k \in DOMAIN levels |-> Reverse(Values(levels[k]))] \in Seq(Seq(ValuesIn(bs)))
<1>. DEFINE levels == Levels(bs, b, type)
            chain  == Chain(bs, b)
            n      == Len(chain)
<1>1. n \in Nat /\ \A k \in 1 .. n : chain[k] \in DOMAIN bs
  BY ChainIsAround DEF Around
<1>2. DOMAIN levels = 1 .. n /\ \A k \in 1 .. n : levels[k] \in Seq(ToSet(bs[chain[k]].items))
  BY LevelsOf
<1>3. ASSUME NEW k \in 1 .. n  PROVE Reverse(Values(levels[k])) \in Seq(ValuesIn(bs))
  <2>1. chain[k] \in DOMAIN bs /\ DOMAIN bs[chain[k]].items \subseteq Nat
    BY <1>1 DEF Parsed
  <2>2. \A d \in ToSet(bs[chain[k]].items) : d.value \in ValuesIn(bs)
    BY <2>1 DEF ToSet, ValuesIn
  <2>. HIDE DEF levels, chain, n
  <2>. QED  BY <1>2, <2>2, ReverseValues
<1>. HIDE DEF levels, chain, n
<1>4. [k \in 1 .. n |-> Reverse(Values(levels[k]))] \in Seq(Seq(ValuesIn(bs)))
  BY <1>1, <1>3
<1>. QED  BY <1>2, <1>4 DEF levels

-------------------------------------------------------------------------------
(* Values none twice                                                           *)

Once(known, v) == IF v \in ToSet(known) THEN known ELSE Append(known, v)

\* From some values on, one after the other of a sequence.
Adds(added, known, seq) ==
    /\ added[0] = known
    /\ \A k \in 0 .. Len(seq) : k < Len(seq) => added[k + 1] = Once(added[k], seq[k + 1])

LEMMA OnceSteps ==
    ASSUME NEW V, NEW seq \in Seq(V)
    PROVE  \E added : Adds(added, <<>>, seq) /\ FoldLeft(Once, <<>>, seq) = added[Len(seq)]
<1>. DEFINE n == Len(seq)
            W == Seq(V)
            F == [x \in W \X (1 .. n) |-> Once(x[1], seq[x[2]])]
            Eq(it) == it = [s \in SUBSET (1 .. n) |->
                              IF s = {} THEN <<>> ELSE Once(it[s \ {Max(s)}], seq[Max(s)])]
<1>1. n \in Nat /\ DOMAIN seq = 1 .. n /\ <<>> \in W
  OBVIOUS
<1>2. F \in [W \X (1 .. n) -> W]
  <2>1. \A w \in W, k \in 1 .. n : Once(w, seq[k]) \in W
    BY DEF Once
  <2>. HIDE DEF W, n
  <2>. QED  BY <2>1
<1>3. FoldLeft(Once, <<>>, seq) = (CHOOSE it : Eq(it))[1 .. n]
  BY <1>1 DEF FoldLeft, MapThenFoldSet
<1>4. \E it : Eq(it)
  <2>1. PICK it : FoldsTo(it, n, W, <<>>, F)
    <3>. HIDE DEF n, W, F
    <3>. QED  BY <1>1, <1>2, FoldExists
  <2>2. it = [s \in SUBSET (1 .. n) |-> IF s = {} THEN <<>>
                                        ELSE F[<<it[s \ {Max(s)}], Max(s)>>]]
    BY <2>1 DEF FoldsTo
  <2>3. \A s \in SUBSET (1 .. n) : s # {} =>
            F[<<it[s \ {Max(s)}], Max(s)>>] = Once(it[s \ {Max(s)}], seq[Max(s)])
    <3>1. \A s \in SUBSET (1 .. n) : s # {} => Max(s) \in 1 .. n /\ it[s \ {Max(s)}] \in W
      <4>. HIDE DEF n, W, F
      <4>. QED  BY <1>1, <2>1, FoldValues
    <3>. HIDE DEF n, W
    <3>. QED  BY <3>1
  <2>4. Eq(it)
    <3>. HIDE DEF n, F
    <3>. QED  BY <2>2, <2>3
  <2>. HIDE DEF Eq
  <2>. QED  BY <2>4
<1>. DEFINE c     == CHOOSE it : Eq(it)
            added == [k \in 0 .. n |-> c[1 .. k]]
<1>5. Eq(c)
  <2>. HIDE DEF Eq
  <2>. QED  BY <1>4
<1>6. FoldLeft(Once, <<>>, seq) = c[1 .. n]
  BY <1>3
<1>. DEFINE all == FoldLeft(Once, <<>>, seq)
<1>. HIDE DEF n, c, all
<1>7. added[0] = <<>> /\ all = added[n]
  <2>1. 1 .. 0 = {} /\ 0 \in 0 .. n /\ n \in 0 .. n
    BY <1>1
  <2>2. c[{}] = <<>>
    BY <1>5
  <2>. QED  BY <1>6, <2>1, <2>2 DEF all
<1>8. ASSUME NEW k \in 0 .. n, k < n  PROVE added[k + 1] = Once(added[k], seq[k + 1])
  <2>1. /\ k + 1 \in 0 .. n /\ 1 .. (k + 1) \in SUBSET (1 .. n) /\ 1 .. (k + 1) # {}
        /\ Max(1 .. (k + 1)) = k + 1 /\ (1 .. (k + 1)) \ {k + 1} = 1 .. k
    BY <1>1, <1>8, NextPrefix
  <2>2. c[1 .. (k + 1)] = Once(c[1 .. k], seq[k + 1])
    BY <1>5, <2>1
  <2>. QED  BY <2>1, <2>2
<1>9. Adds(added, <<>>, seq)
  BY <1>7, <1>8 DEF Adds, n
<1>. HIDE DEF added
<1>. QED  BY <1>7, <1>9 DEF n, all

\* The first elements of a sequence.
Firsts(seq, k) == {seq[j] : j \in 1 .. k}

\* What is added is in the sequence.
LEMMA AddsValues ==
    ASSUME NEW V, NEW seq \in Seq(V), NEW known \in Seq(V), NEW added,
           Adds(added, known, seq), NEW k \in 0 .. Len(seq)
    PROVE  /\ added[k] \in Seq(V)
           /\ ToSet(added[k]) = ToSet(known) \cup Firsts(seq, k)
<1>. DEFINE n == Len(seq)
            P(i) == /\ added[i] \in Seq(V)
                    /\ ToSet(added[i]) = ToSet(known) \cup {seq[j] : j \in 1 .. i}
            T == {i \in Nat : i <= n => P(i)}
<1>1. n \in Nat /\ \A j \in 1 .. n : seq[j] \in V
  OBVIOUS
<1>2. P(0)
  BY DEF Adds
<1>3. ASSUME NEW i \in Nat, i + 1 <= n, P(i)  PROVE P(i + 1)
  <2>1. added[i + 1] = Once(added[i], seq[i + 1]) /\ seq[i + 1] \in V
    <3>1. i \in 0 .. n /\ i < n /\ i + 1 \in 1 .. n
      BY <1>1, <1>3
    <3>. QED  BY <1>1, <3>1 DEF Adds
  <2>. DEFINE v    == seq[i + 1]
              old  == added[i]
              more == Append(old, v)
              m    == Len(old)
  <2>2. {seq[j] : j \in 1 .. (i + 1)} = {seq[j] : j \in 1 .. i} \cup {v}
    <3>1. \A j : j \in 1 .. (i + 1) <=> j \in 1 .. i \/ j = i + 1
      OBVIOUS
    <3>. QED  BY <3>1
  <2>3. old \in Seq(V) /\ ToSet(old) = ToSet(known) \cup {seq[j] : j \in 1 .. i} /\ v \in V
    BY <1>3, <2>1
  <2>. HIDE DEF v, old
  <2>4. more \in Seq(V) /\ ToSet(more) = ToSet(old) \cup {v}
    <3>1. /\ m \in Nat /\ more \in Seq(V) /\ DOMAIN old = 1 .. m /\ DOMAIN more = 1 .. (m + 1)
          /\ \A j \in 1 .. m : more[j] = old[j]
          /\ more[m + 1] = v
      BY <2>3
    <3>2. \A j : j \in 1 .. (m + 1) <=> j \in 1 .. m \/ j = m + 1
      BY <3>1
    <3>. HIDE DEF more, m
    <3>3. \A x : x \in ToSet(more) <=> x \in ToSet(old) \/ x = v
      BY <3>1, <3>2 DEF ToSet
    <3>. QED  BY <3>1, <3>3
  <2>5. added[i + 1] = IF v \in ToSet(old) THEN old ELSE more
    BY <2>1 DEF Once, v, old
  <2>. HIDE DEF more
  <2>6. added[i + 1] \in Seq(V) /\ ToSet(added[i + 1]) = ToSet(old) \cup {v}
    BY <2>3, <2>4, <2>5
  <2>. QED  BY <2>2, <2>3, <2>6
<1>4. n \in Nat /\ \A i \in Nat : i \in T
  <2>. HIDE DEF P
  <2>1. 0 \in T
    BY <1>2
  <2>2. ASSUME NEW i \in Nat, i \in T  PROVE i + 1 \in T
    BY <1>1, <1>3, <2>2
  <2>. HIDE DEF T
  <2>. QED  BY <1>1, <2>1, <2>2, Inductive
<1>5. P(k)
  <2>1. k \in Nat /\ k <= n
    BY <1>1
  <2>. HIDE DEF P
  <2>. QED  BY <1>4, <2>1
<1>. QED  BY <1>5 DEF Firsts

\* The values collected for a block are a sequence of values of the file.
LEMMA CollectedSeq ==
    ASSUME NEW bs, Parsed(bs), NEW b \in DOMAIN bs, NEW type
    PROVE  Collected(bs, b, type) \in Seq(ValuesIn(bs))
<1>. DEFINE levels == Levels(bs, b, type)
            all    == FlattenSeq([k \in DOMAIN levels |-> Reverse(Values(levels[k]))])
<1>1. all \in Seq(ValuesIn(bs))
  BY AllCollected, FlattenSeqOf
<1>2. Collected(bs, b, type) = FoldLeft(Once, <<>>, all)
  BY DEF Collected, Once, FoldLeft, MapThenFoldSet
<1>. HIDE DEF all
<1>3. PICK added : Adds(added, <<>>, all) /\ FoldLeft(Once, <<>>, all) = added[Len(all)]
  BY <1>1, OnceSteps
<1>4. Len(all) \in 0 .. Len(all) /\ <<>> \in Seq(ValuesIn(bs))
  BY <1>1
<1>5. added[Len(all)] \in Seq(ValuesIn(bs))
  BY <1>1, <1>3, <1>4, AddsValues
<1>6. FoldLeft(Once, <<>>, all) \in Seq(ValuesIn(bs))
  BY <1>3, <1>5
<1>. QED  BY <1>2, <1>6
=============================================================================

------------------------------ MODULE Up_proofs ------------------------------
(***************************************************************************)
(* Proofs about Ordering and Up, for every formula, every number of        *)
(* variables, every option, and whatever communities and matchings are     *)
(* found.                                                                  *)
(***************************************************************************)
EXTENDS Up, FiniteSetTheorems, FunctionTheorems, SequenceTheorems,
        WellFoundedInduction, TLAPS

-----------------------------------------------------------------------------
(* Least elements, and the places of a sequence *)

LEMMA LeastNat ==
  ASSUME NEW S \in SUBSET Nat, S # {}
  PROVE  \E x \in S : \A y \in S : x <= y
<1>1. PICK x \in S : \A y \in S : ~ (<<y, x>> \in OpToRel(<, Nat))
  BY NatLessThanWellFounded, WFMin
<1>2. \A y \in S : ~ (y < x)
  BY <1>1 DEF OpToRel
<1> QED
  BY <1>2

LEMMA MinNat ==
  ASSUME NEW S \in SUBSET Nat, S # {}
  PROVE  Min(S) \in S /\ \A y \in S : Min(S) <= y
BY LeastNat DEF Min

LEMMA MaxPair ==
  ASSUME NEW a \in Int, NEW b \in Int
  PROVE  Max({a, b}) = IF a >= b THEN a ELSE b
<1> DEFINE S == {a, b}
           m == IF a >= b THEN a ELSE b
<1>1. m \in S /\ \A y \in S : m >= y
  OBVIOUS
<1>2. Max(S) \in S /\ \A y \in S : Max(S) >= y
  BY <1>1 DEF Max
<1>3. Max(S) >= a /\ Max(S) >= b /\ (Max(S) = a \/ Max(S) = b)
  BY <1>2
<1> QED
  BY <1>3

LEMMA MinPair ==
  ASSUME NEW a \in Int, NEW b \in Int
  PROVE  Min({a, b}) = IF a <= b THEN a ELSE b
<1> DEFINE S == {a, b}
           m == IF a <= b THEN a ELSE b
<1>1. m \in S /\ \A y \in S : m =< y
  OBVIOUS
<1>2. Min(S) \in S /\ \A y \in S : Min(S) =< y
  BY <1>1 DEF Min
<1>3. Min(S) <= a /\ Min(S) <= b /\ (Min(S) = a \/ Min(S) = b)
  BY <1>2
<1> QED
  BY <1>3

LEMMA IntervalCount ==
  ASSUME NEW n \in Nat
  PROVE  IsFiniteSet(1 .. n) /\ Cardinality(1 .. n) = n
<1>1. IsFiniteSet(1 .. n) /\ Cardinality(1 .. n) = IF 1 > n THEN 0 ELSE n - 1 + 1
  BY FS_Interval
<1> QED
  BY <1>1

LEMMA SameInterval ==
  ASSUME NEW m \in Nat, NEW n \in Nat, 1 .. m = 1 .. n
  PROVE  m = n
BY IntervalCount

LEMMA RankFacts ==
  ASSUME NEW n \in Nat, NEW K \in SUBSET (1 .. n)
  PROVE  /\ IsFiniteSet(K)
         /\ \A x \in 0 .. n : Rank(K, x) \in Nat
         /\ Rank(K, 0) = 0 /\ Rank(K, n) = Cardinality(K)
         /\ \A x \in 1 .. n : Rank(K, x) = IF x \in K THEN Rank(K, x - 1) + 1 ELSE Rank(K, x - 1)
<1>0. \A j \in K : j \in Int /\ 1 <= j /\ j <= n
  OBVIOUS
<1>1. IsFiniteSet(K)
  BY IntervalCount, FS_Subset
<1>2. \A x \in 0 .. n : {j \in K : j <= x} \in SUBSET K
  OBVIOUS
<1>3. \A x \in 0 .. n : IsFiniteSet({j \in K : j <= x}) /\ Rank(K, x) \in Nat
  BY <1>1, <1>2, FS_Subset, FS_CardinalityType DEF Rank
<1>4. Rank(K, 0) = 0
  <2>1. {j \in K : j <= 0} = {}
    <3>1. \A j \in K : ~(j <= 0)
      BY <1>0
    <3> QED
      BY <3>1, Zenon
  <2> QED
    BY <2>1, FS_EmptySet DEF Rank
<1>5. Rank(K, n) = Cardinality(K)
  <2> DEFINE A == {j \in K : j <= n}
  <2>1. A = K
    BY <1>0
  <2>2. Rank(K, n) = Cardinality(A)
    BY DEF Rank
  <2> HIDE DEF A
  <2> QED
    BY <2>1, <2>2
<1>6. ASSUME NEW x \in 1 .. n
      PROVE  Rank(K, x) = IF x \in K THEN Rank(K, x - 1) + 1 ELSE Rank(K, x - 1)
  <2> DEFINE B == {j \in K : j <= x - 1}
             A == {j \in K : j <= x}
  <2>1. x - 1 \in 0 .. n /\ x \notin B
    OBVIOUS
  <2>2. IsFiniteSet(B)
    BY <1>3, <2>1
  <2>3. A = IF x \in K THEN B \cup {x} ELSE B
    <3>1. \A j \in K : j <= x <=> j <= x - 1 \/ j = x
      BY <1>0
    <3>2. x \in K => A = B \cup {x}
      BY <3>1
    <3>3. x \notin K => A = B
      BY <3>1
    <3> QED
      BY <3>2, <3>3
  <2> HIDE DEF A, B
  <2>4. Cardinality(A) = IF x \in K THEN Cardinality(B) + 1 ELSE Cardinality(B)
    BY <2>1, <2>2, <2>3, FS_AddElement
  <2> QED
    BY <2>4 DEF Rank, A, B
<1> QED
  BY <1>1, <1>3, <1>4, <1>5, <1>6

\* Of numbers up to n there is an m-th one.
LEMMA PlaceExists ==
  ASSUME NEW n \in Nat, NEW K \in SUBSET (1 .. n), NEW m \in 1 .. Cardinality(K)
  PROVE  \E k \in K : Rank(K, k) = m
<1>1. /\ IsFiniteSet(K) /\ Cardinality(K) \in Nat
      /\ \A x \in 0 .. n : Rank(K, x) \in Nat
      /\ Rank(K, 0) = 0 /\ Rank(K, n) = Cardinality(K)
      /\ \A x \in 1 .. n : Rank(K, x) = IF x \in K THEN Rank(K, x - 1) + 1 ELSE Rank(K, x - 1)
  BY RankFacts, FS_CardinalityType
<1> DEFINE S == {x \in 0 .. n : Rank(K, x) >= m}
<1>2. S \in SUBSET Nat /\ n \in S
  BY <1>1
<1>3. PICK x \in S : \A y \in S : x <= y
  BY <1>2, LeastNat
<1>4. x \in 1 .. n
  BY <1>1, <1>3
<1>5. x - 1 \in 0 .. n /\ x - 1 \notin S
  BY <1>3, <1>4
<1>6. Rank(K, x - 1) < m /\ Rank(K, x - 1) \in Nat /\ Rank(K, x) >= m
  BY <1>1, <1>3, <1>5
<1>7. Rank(K, x) = IF x \in K THEN Rank(K, x - 1) + 1 ELSE Rank(K, x - 1)
  BY <1>1, <1>4
<1>8. x \in K /\ Rank(K, x) = m
  BY <1>1, <1>6, <1>7
<1> QED
  BY <1>8

LEMMA RankGrows ==
  ASSUME NEW n \in Nat, NEW K \in SUBSET (1 .. n), NEW k \in K, NEW l \in K, k < l
  PROVE  Rank(K, k) < Rank(K, l)
<1> DEFINE A == {j \in K : j <= k}
           B == {j \in K : j <= l}
<1>1. IsFiniteSet(K)
  BY RankFacts
<1>2. A \in SUBSET B /\ B \in SUBSET K /\ l \in B /\ l \notin A
  <2>1. \A j \in K : j \in Int
    OBVIOUS
  <2>2. \A j \in K : j <= k => j <= l
    BY <2>1
  <2>3. l <= l /\ ~(l <= k)
    BY <2>1
  <2> QED
    BY <2>2, <2>3
<1> HIDE DEF A, B
<1>3. IsFiniteSet(B) /\ IsFiniteSet(A) /\ Cardinality(A) <= Cardinality(B) /\ Cardinality(A) # Cardinality(B)
  BY <1>1, <1>2, FS_Subset
<1>4. Cardinality(A) \in Nat /\ Cardinality(B) \in Nat
  BY <1>3, FS_CardinalityType
<1>5. Cardinality(A) < Cardinality(B)
  BY <1>3, <1>4
<1> QED
  BY <1>5 DEF Rank, A, B

\* At(s, K) is s at the places p(1) < p(2) < ... of K.
Picks(s, K, p) ==
  LET n == Len(At(s, K)) IN
  /\ p \in [1 .. n -> K]
  /\ \A m \in 1 .. n : At(s, K)[m] = s[p[m]]
  /\ \A j, k \in 1 .. n : j < k => p[j] < p[k]
  /\ \A q \in K : \E m \in 1 .. n : p[m] = q

LEMMA AtFacts ==
  ASSUME NEW T, NEW s \in Seq(T), NEW K \in SUBSET (DOMAIN s)
  PROVE  /\ At(s, K) \in Seq(T) /\ Len(At(s, K)) = Cardinality(K)
         /\ \E p : Picks(s, K, p)
<1> DEFINE n == Len(s)
           N == Cardinality(K)
           p == [m \in 1 .. N |-> CHOOSE k \in K : Rank(K, k) = m]
           t == [m \in 1 .. N |-> s[p[m]]]
<1>1. n \in Nat /\ DOMAIN s = 1 .. n /\ \A k \in 1 .. n : s[k] \in T
  BY LenProperties, ElementOfSeq
<1>2. K \in SUBSET (1 .. n) /\ IsFiniteSet(K) /\ N \in Nat /\ \A x \in 0 .. n : Rank(K, x) \in Nat
  BY <1>1, RankFacts, FS_CardinalityType
<1>3. \A m \in 1 .. N : p[m] \in K /\ Rank(K, p[m]) = m
  BY <1>1, <1>2, PlaceExists
<1>4. p \in [1 .. N -> K]
  BY <1>3
<1>5. t = At(s, K)
  <2>1. \A m \in 1 .. N : s[p[m]] = s[CHOOSE k \in K : Rank(K, k) = m]
    OBVIOUS
  <2> QED
    BY <2>1 DEF At
<1>6. \A m \in 1 .. N : s[p[m]] \in T
  BY <1>1, <1>2, <1>3
<1>7. t \in Seq(T)
  BY <1>2, <1>6, IsASeq
<1>8. Len(t) = N
  <2>1. Len(t) \in Nat /\ DOMAIN t = 1 .. Len(t) /\ DOMAIN t = 1 .. N
    BY <1>7, LenProperties
  <2> QED
    BY <1>2, <2>1, SameInterval
<1>9. \A j, k \in 1 .. N : j < k => p[j] < p[k]
  <2>1. SUFFICES ASSUME NEW j \in 1 .. N, NEW k \in 1 .. N, j < k, ~(p[j] < p[k])
                 PROVE  FALSE
    OBVIOUS
  <2>2. p[j] \in K /\ p[k] \in K /\ Rank(K, p[j]) = j /\ Rank(K, p[k]) = k
    BY <1>3, <2>1
  <2>3. p[j] \in Int /\ p[k] \in Int /\ p[j] # p[k]
    BY <1>2, <2>1, <2>2
  <2>4. p[k] < p[j]
    BY <2>1, <2>3
  <2>5. Rank(K, p[k]) < Rank(K, p[j])
    BY <1>1, <1>2, <2>2, <2>4, RankGrows
  <2> QED
    BY <2>1, <2>2, <2>5
<1>10. ASSUME NEW q \in K PROVE \E m \in 1 .. N : p[m] = q
  <2>1. q \in 1 .. n
    BY <1>2
  <2>2. Rank(K, q) \in 1 .. N
    <3>1. q \in {j \in K : j <= q} /\ {j \in K : j <= q} \in SUBSET K
      BY <1>2
    <3>2. IsFiniteSet({j \in K : j <= q}) /\ Rank(K, q) <= N
      BY <1>2, <3>1, FS_Subset DEF Rank
    <3>3. Rank(K, q) # 0
      BY <3>1, <3>2, FS_EmptySet DEF Rank
    <3>4. Rank(K, q) \in Nat
      BY <1>2, <2>1
    <3> QED
      BY <1>2, <3>2, <3>3, <3>4
  <2>3. p[Rank(K, q)] \in K /\ Rank(K, p[Rank(K, q)]) = Rank(K, q)
    BY <1>3, <2>2
  <2>4. p[Rank(K, q)] = q
    <3>1. p[Rank(K, q)] \in Int /\ q \in Int
      BY <1>2, <2>3
    <3>2. Rank(K, q) \in Int
      BY <1>2, <2>1
    <3>3. p[Rank(K, q)] < q => Rank(K, p[Rank(K, q)]) < Rank(K, q)
      BY <1>1, <1>2, <2>3, RankGrows
    <3>4. q < p[Rank(K, q)] => Rank(K, q) < Rank(K, p[Rank(K, q)])
      BY <1>1, <1>2, <2>3, RankGrows
    <3> HIDE DEF p
    <3> QED
      BY <2>3, <3>1, <3>2, <3>3, <3>4
  <2> QED
    BY <2>2, <2>4
<1>11. \A m \in 1 .. N : t[m] = s[p[m]]
  OBVIOUS
<1> HIDE DEF t, p, N
<1>12. Picks(s, K, p)
  BY <1>4, <1>5, <1>8, <1>9, <1>10, <1>11 DEF Picks
<1> QED
  BY <1>5, <1>7, <1>8, <1>12 DEF N

-----------------------------------------------------------------------------
(* The communities of a level, which are defined by recursion *)

Composite(c) ==
  CHOOSE f : f = [k \in Nat |-> IF k <= 1 THEN c[1] ELSE [w \in Vars |-> c[k][f[k - 1][w]]]]

\* The recursion up to n.
Upto(c, n, g) ==
  g = [k \in 0 .. n |-> IF k <= 1 THEN c[1] ELSE [w \in Vars |-> c[k][g[k - 1][w]]]]

LEMMA UptoValues ==
  ASSUME NEW c, NEW n \in Nat, NEW g, Upto(c, n, g)
  PROVE  /\ \A k \in 0 .. n : k <= 1 => g[k] = c[1]
         /\ \A k \in 2 .. n : g[k] = [w \in Vars |-> c[k][g[k - 1][w]]]
<1> DEFINE E(k) == IF k <= 1 THEN c[1] ELSE [w \in Vars |-> c[k][g[k - 1][w]]]
<1>1. g = [k \in 0 .. n |-> E(k)]
  BY DEF Upto
<1> HIDE DEF E
<1>2. \A k \in 0 .. n : g[k] = E(k)
  BY <1>1
<1>3. \A k \in 0 .. n : k <= 1 => E(k) = c[1]
  BY DEF E
<1>4. ASSUME NEW k \in 2 .. n PROVE E(k) = [w \in Vars |-> c[k][g[k - 1][w]]]
  BY DEF E
<1> QED
  BY <1>2, <1>3, <1>4

LEMMA UptoExists ==
  ASSUME NEW c
  PROVE  \A n \in Nat : \E g : Upto(c, n, g)
<1> DEFINE S == {n \in Nat : ~ \E g : Upto(c, n, g)}
<1>1. SUFFICES ASSUME S # {} PROVE FALSE
  OBVIOUS
<1>2. PICK n \in S : \A y \in S : n <= y
  BY <1>1, LeastNat
<1>3. n \in Nat /\ ~ \E g : Upto(c, n, g)
  BY <1>2
<1>4. CASE n = 0
  <2> DEFINE g == [k \in 0 .. 0 |-> c[1]]
  <2>1. g = [k \in 0 .. 0 |-> IF k <= 1 THEN c[1] ELSE [w \in Vars |-> c[k][g[k - 1][w]]]]
    OBVIOUS
  <2> HIDE DEF g
  <2>2. Upto(c, 0, g)
    BY <2>1 DEF Upto
  <2> QED
    BY <1>3, <1>4, <2>2
<1>5. CASE n # 0
  <2>1. n - 1 \in Nat /\ n - 1 \notin S
    BY <1>2, <1>5
  <2>2. PICK g : Upto(c, n - 1, g)
    BY <2>1
  <2>3. /\ \A k \in 0 .. n - 1 : k <= 1 => g[k] = c[1]
        /\ \A k \in 2 .. n - 1 : g[k] = [w \in Vars |-> c[k][g[k - 1][w]]]
    BY <2>1, <2>2, UptoValues
  <2> DEFINE last == IF n <= 1 THEN c[1] ELSE [w \in Vars |-> c[n][g[n - 1][w]]]
             h == [k \in 0 .. n |-> IF k = n THEN last ELSE g[k]]
             E(k) == IF k <= 1 THEN c[1] ELSE [w \in Vars |-> c[k][h[k - 1][w]]]
  <2>4. h[n] = last /\ \A k \in 0 .. n - 1 : h[k] = g[k]
    BY <1>3
  <2>5. DOMAIN h = 0 .. n /\ h = [k \in 0 .. n |-> h[k]]
    OBVIOUS
  <2> HIDE DEF h
  <2>6. ASSUME NEW k \in 0 .. n PROVE h[k] = E(k)
    <3>1. CASE k <= 1
      <4>1. E(k) = c[1]
        BY <3>1
      <4>2. k = n => h[k] = c[1]
        BY <2>4, <3>1
      <4>3. k # n => h[k] = c[1]
        BY <1>3, <2>3, <2>4, <3>1
      <4> QED
        BY <4>1, <4>2, <4>3
    <3>2. CASE ~(k <= 1)
      <4>1. k \in 2 .. n /\ k - 1 \in 0 .. n - 1
        BY <1>3, <3>2
      <4>2. h[k - 1] = g[k - 1]
        BY <2>4, <4>1
      <4>3. E(k) = [w \in Vars |-> c[k][g[k - 1][w]]]
        BY <3>2, <4>2
      <4>4. k = n => h[k] = [w \in Vars |-> c[k][g[k - 1][w]]]
        BY <2>4, <3>2
      <4>5. k # n => h[k] = [w \in Vars |-> c[k][g[k - 1][w]]]
        <5>1. SUFFICES ASSUME k # n PROVE h[k] = [w \in Vars |-> c[k][g[k - 1][w]]]
          OBVIOUS
        <5>2. k \in 2 .. n - 1 /\ k \in 0 .. n - 1
          BY <1>3, <4>1, <5>1
        <5> QED
          BY <2>3, <2>4, <5>2
      <4> HIDE DEF E
      <4> QED
        BY <4>3, <4>4, <4>5
    <3> QED
      BY <3>1, <3>2
  <2> HIDE DEF E
  <2>7. h = [k \in 0 .. n |-> E(k)]
    BY <2>5, <2>6
  <2>8. Upto(c, n, h)
    BY <2>7 DEF Upto, E
  <2> QED
    BY <1>3, <2>8
<1> QED
  BY <1>4, <1>5

\* Two functions that obey the recursion agree where both do, also with other values of c
\* beyond.
LEMMA UptoUnique ==
  ASSUME NEW c, NEW d, NEW n \in Nat, NEW m \in Nat, n <= m, \A k \in 1 .. n : c[k] = d[k],
         c[1] = d[1], NEW g, NEW h, Upto(c, n, g), Upto(d, m, h)
  PROVE  \A k \in 0 .. n : g[k] = h[k]
<1> DEFINE S == {k \in 0 .. n : g[k] # h[k]}
<1>1. SUFFICES ASSUME S # {} PROVE FALSE
  OBVIOUS
<1>2. S \in SUBSET Nat
  OBVIOUS
<1>3. PICK k \in S : \A y \in S : k <= y
  BY <1>1, <1>2, LeastNat
<1>4. k \in 0 .. n /\ g[k] # h[k] /\ k \in 0 .. m
  BY <1>3
<1>5. /\ \A j \in 0 .. n : j <= 1 => g[j] = c[1]
      /\ \A j \in 2 .. n : g[j] = [w \in Vars |-> c[j][g[j - 1][w]]]
  <2>1. Upto(c, n, g)
    OBVIOUS
  <2> QED
    BY ONLY <2>1, n \in Nat, UptoValues
<1>6. /\ \A j \in 0 .. m : j <= 1 => h[j] = d[1]
      /\ \A j \in 2 .. m : h[j] = [w \in Vars |-> d[j][h[j - 1][w]]]
  <2>1. Upto(d, m, h)
    OBVIOUS
  <2> QED
    BY ONLY <2>1, m \in Nat, UptoValues
<1>7. ~(k <= 1)
  BY <1>4, <1>5, <1>6
<1>8. k \in 2 .. n /\ k \in 2 .. m /\ k - 1 \in 0 .. n /\ k \in 1 .. n
  BY <1>4, <1>7
<1>9. k - 1 \notin S
  BY <1>3, <1>8
<1>10. g[k - 1] = h[k - 1] /\ c[k] = d[k]
  BY <1>8, <1>9
<1>11. g[k] = [w \in Vars |-> c[k][g[k - 1][w]]] /\ h[k] = [w \in Vars |-> d[k][h[k - 1][w]]]
  BY <1>5, <1>6, <1>8
<1> QED
  BY <1>4, <1>10, <1>11

LEMMA CompositeValues ==
  ASSUME NEW c
  PROVE  /\ Composite(c)[1] = c[1]
         /\ \A k \in Nat : k > 1 => Composite(c)[k] = [w \in Vars |-> c[k][Composite(c)[k - 1][w]]]
         /\ \A n \in Nat : \E g : Upto(c, n, g) /\ \A k \in 0 .. n : g[k] = Composite(c)[k]
<1> DEFINE G(n) == CHOOSE g : Upto(c, n, g)
           f == [k \in Nat |-> G(k)[k]]
           E(k, q) == IF k <= 1 THEN c[1] ELSE [w \in Vars |-> c[k][q[k - 1][w]]]
<1>1. \A n \in Nat : Upto(c, n, G(n))
  BY UptoExists
<1>2. \A n \in Nat : \A k \in 0 .. n : G(n)[k] = f[k]
  <2>1. SUFFICES ASSUME NEW n \in Nat, NEW k \in 0 .. n PROVE G(n)[k] = f[k]
    OBVIOUS
  <2>2. k \in Nat /\ k <= n /\ k \in 0 .. k
    OBVIOUS
  <2>3. Upto(c, k, G(k)) /\ Upto(c, n, G(n))
    BY <1>1, <2>2
  <2> HIDE DEF G
  <2>4. G(k)[k] = G(n)[k]
    BY <2>2, <2>3, UptoUnique
  <2> QED
    BY <2>2, <2>4
<1>3. \A k \in Nat : f[k] = E(k, f)
  <2>1. SUFFICES ASSUME NEW k \in Nat PROVE f[k] = E(k, f)
    OBVIOUS
  <2>2. Upto(c, k, G(k))
    BY <1>1
  <2> HIDE DEF G, f
  <2>3. /\ \A j \in 0 .. k : j <= 1 => G(k)[j] = c[1]
        /\ \A j \in 2 .. k : G(k)[j] = [w \in Vars |-> c[j][G(k)[j - 1][w]]]
    BY <2>2, UptoValues
  <2>4. k \in 0 .. k /\ G(k)[k] = f[k]
    BY <1>2
  <2>5. CASE k <= 1
    BY <2>3, <2>4, <2>5
  <2>6. CASE ~(k <= 1)
    <3>1. k \in 2 .. k /\ k - 1 \in 0 .. k
      BY <2>6
    <3>2. G(k)[k - 1] = f[k - 1]
      BY <1>2, <3>1
    <3>3. f[k] = [w \in Vars |-> c[k][f[k - 1][w]]]
      BY <2>3, <2>4, <3>1, <3>2
    <3> QED
      BY <2>6, <3>3
  <2> QED
    BY <2>5, <2>6
<1>4. f = [k \in Nat |-> f[k]]
  OBVIOUS
<1> HIDE DEF f, G
<1>5. f = [k \in Nat |-> E(k, f)]
  <2> HIDE DEF E
  <2> QED
    BY <1>3, <1>4
<1>6. Composite(c) = [k \in Nat |-> E(k, Composite(c))]
  BY <1>5 DEF Composite
<1> DEFINE q == Composite(c)
<1>7. q = [k \in Nat |-> E(k, q)]
  BY <1>6
<1> HIDE DEF q
<1>8. \A k \in Nat : q[k] = E(k, q)
  <2> HIDE DEF E
  <2> QED
    BY <1>7
<1>81. \A k \in Nat : k <= 1 => q[k] = c[1]
  <2>1. \A k \in Nat : k <= 1 => E(k, q) = c[1]
    OBVIOUS
  <2> HIDE DEF E
  <2> QED
    BY <1>8, <2>1
<1>9. q[1] = c[1]
  BY <1>81
<1>10. \A k \in Nat : k > 1 => q[k] = [w \in Vars |-> c[k][q[k - 1][w]]]
  <2>1. SUFFICES ASSUME NEW k \in Nat, k > 1 PROVE q[k] = [w \in Vars |-> c[k][q[k - 1][w]]]
    OBVIOUS
  <2>2. ~(k <= 1) /\ q[k] = E(k, q)
    BY <1>8, <2>1
  <2> QED
    BY <2>2
<1>11. ASSUME NEW n \in Nat
       PROVE  \E g : Upto(c, n, g) /\ \A k \in 0 .. n : g[k] = q[k]
  <2> DEFINE g == [k \in 0 .. n |-> q[k]]
  <2>1. \A k \in 0 .. n : k <= 1 => q[k] = c[1]
    BY <1>81
  <2>2. ASSUME NEW k \in 0 .. n
        PROVE  q[k] = E(k, g)
    <3>1. CASE k <= 1
      BY <2>1, <3>1
    <3>2. CASE ~(k <= 1)
      <4>1. k - 1 \in 0 .. n /\ k > 1 /\ k \in Nat
        BY <3>2
      <4>2. g[k - 1] = q[k - 1]
        BY <4>1
      <4>3. q[k] = [w \in Vars |-> c[k][q[k - 1][w]]]
        BY <1>10, <4>1
      <4> HIDE DEF g
      <4> QED
        BY <3>2, <4>2, <4>3
    <3> QED
      BY <3>1, <3>2
  <2> HIDE DEF E
  <2>3. g = [k \in 0 .. n |-> E(k, g)]
    BY <2>2
  <2>4. \A k \in 0 .. n : g[k] = q[k]
    OBVIOUS
  <2> HIDE DEF g
  <2>5. Upto(c, n, g)
    BY <2>3 DEF Upto, E
  <2> QED
    BY <2>4, <2>5
<1> QED
  BY <1>9, <1>10, <1>11 DEF q

\* The communities of the levels up to n depend on these levels only.
LEMMA CompositePrefix ==
  ASSUME NEW c, NEW d, NEW n \in Nat \ {0}, \A k \in 1 .. n : c[k] = d[k]
  PROVE  \A k \in 1 .. n : Composite(c)[k] = Composite(d)[k]
<1>1. PICK g : Upto(c, n, g) /\ \A k \in 0 .. n : g[k] = Composite(c)[k]
  BY CompositeValues
<1>2. PICK h : Upto(d, n, h) /\ \A k \in 0 .. n : h[k] = Composite(d)[k]
  BY CompositeValues
<1>3. c[1] = d[1] /\ n <= n
  OBVIOUS
<1>4. \A k \in 0 .. n : g[k] = h[k]
  BY <1>1, <1>2, <1>3, UptoUnique
<1> QED
  BY <1>1, <1>2, <1>4

LEMMA CommunitiesComposite == Communities = Composite(clustering)
BY DEF Communities, Composite

-----------------------------------------------------------------------------
(* Graphs *)

LEMMA VarsFacts ==
  /\ NbVars \in Nat /\ Vars \subseteq Nat /\ Vars = 1 .. NbVars
  /\ IsFiniteSet(Vars) /\ Cardinality(Vars) = NbVars
BY OrderingAssumption, IntervalCount DEF Vars

LEMMA PairFacts ==
  ASSUME NEW S, IsFiniteSet(S)
  PROVE  /\ \A e \in Pairs(S) : \E a, b \in S : a # b /\ e = {a, b}
         /\ \A a, b \in S : a # b => {a, b} \in Pairs(S)
<1>1. Pairs(S) = {s \in SUBSET S : Cardinality(s) = 2}
  BY DEF Pairs, kSubset
<1>2. ASSUME NEW e \in Pairs(S) PROVE \E a, b \in S : a # b /\ e = {a, b}
  <2>1. e \in SUBSET S /\ Cardinality(e) = 2 /\ IsFiniteSet(e)
    BY <1>1, FS_Subset
  <2>2. e # {}
    BY <2>1, FS_EmptySet
  <2>3. PICK a \in e : TRUE
    BY <2>2
  <2>4. IsFiniteSet(e \ {a}) /\ Cardinality(e \ {a}) = 1
    BY <2>1, FS_RemoveElement
  <2>5. PICK b : e \ {a} = {b}
    BY <2>4, FS_Singleton
  <2>6. a # b /\ e = {a, b}
    BY <2>5
  <2> QED
    BY <2>1, <2>6
<1>3. ASSUME NEW a \in S, NEW b \in S, a # b PROVE {a, b} \in Pairs(S)
  <2>1. IsFiniteSet({b}) /\ Cardinality({b}) = 1
    BY FS_Singleton
  <2>2. Cardinality({b} \cup {a}) = 2
    BY <1>3, <2>1, FS_AddElement
  <2>3. {b} \cup {a} = {a, b}
    OBVIOUS
  <2> QED
    BY <1>1, <2>2, <2>3
<1> QED
  BY <1>2, <1>3

GraphOK(g) == g.nodes \subseteq Vars /\ g.edges \subseteq Pairs(g.nodes)

\* A function from the nodes takes the edges to edges or to single nodes.
LEMMA CoarseFacts ==
  ASSUME NEW g, GraphOK(g), NEW f \in [g.nodes -> Vars]
  PROVE  /\ GraphOK(Coarse(g, f))
         /\ Coarse(g, f).nodes = {f[n] : n \in g.nodes}
         /\ \A a, b \in g.nodes :
              {a, b} \in g.edges /\ f[a] # f[b] => {f[a], f[b]} \in Coarse(g, f).edges
<1> DEFINE N == {f[n] : n \in g.nodes}
           Images == {{f[n] : n \in d} : d \in g.edges}
           E == {e \in Images : Cardinality(e) = 2}
<1>1. Coarse(g, f) = [nodes |-> N, edges |-> E]
  BY DEF Coarse
<1>2. N \subseteq Vars /\ IsFiniteSet(N) /\ IsFiniteSet(g.nodes)
  BY VarsFacts, FS_Subset DEF GraphOK
<1>3. \A d \in g.edges : d \subseteq g.nodes
  BY DEF GraphOK, Pairs, kSubset
<1>4. E \subseteq Pairs(N)
  <2>1. SUFFICES ASSUME NEW e \in E PROVE e \in Pairs(N)
    OBVIOUS
  <2>2. PICK d \in g.edges : e = {f[n] : n \in d}
    OBVIOUS
  <2>3. e \in SUBSET N /\ Cardinality(e) = 2
    BY <1>3, <2>2
  <2> QED
    BY <2>3 DEF Pairs, kSubset
<1>5. ASSUME NEW a \in g.nodes, NEW b \in g.nodes, {a, b} \in g.edges, f[a] # f[b]
      PROVE  {f[a], f[b]} \in E
  <2>1. {f[a], f[b]} = {f[n] : n \in {a, b}}
    OBVIOUS
  <2>2. {f[a], f[b]} \in Images
    BY <1>5, <2>1
  <2>3. f[a] \in N /\ f[b] \in N
    OBVIOUS
  <2>4. {f[a], f[b]} \in Pairs(N)
    <3> HIDE DEF N
    <3> QED
      BY <1>2, <1>5, <2>3, PairFacts
  <2>5. Cardinality({f[a], f[b]}) = 2
    BY <2>4 DEF Pairs, kSubset
  <2> QED
    BY <2>2, <2>5
<1> HIDE DEF N, E
<1> QED
  BY <1>1, <1>2, <1>4, <1>5 DEF GraphOK, N

\* The pairs of a matching are merged, and the nodes keep numbers within those of the
\* variables.
LEMMA MatchingFacts ==
  ASSUME NEW g, GraphOK(g), NEW m \in Matchings(g) \ {{}}
  PROVE  /\ FineToCoarse(g, m) \in [g.nodes -> Vars]
         /\ IsFiniteSet(g.nodes) /\ IsFiniteSet({FineToCoarse(g, m)[n] : n \in g.nodes})
         /\ 0 < Cardinality({FineToCoarse(g, m)[n] : n \in g.nodes})
         /\ Cardinality({FineToCoarse(g, m)[n] : n \in g.nodes}) < Cardinality(g.nodes)
<1> DEFINE N == g.nodes
           f == FineToCoarse(g, m)
           around(n) == {n} \cup UNION {e \in m : n \in e}
           below(n) == {c \in CarriedOver(g, m) : c <= Mate(m, n)}
<1>1. /\ m \subseteq g.edges /\ m # {}
      /\ \A d, e \in m : d # e => d \cap e = {}
  BY DEF Matchings
<1>2. /\ N \subseteq Vars /\ N \subseteq Nat /\ IsFiniteSet(N)
      /\ Cardinality(N) \in Nat /\ Cardinality(N) <= NbVars
  BY VarsFacts, FS_Subset, FS_CardinalityType DEF GraphOK
<1>3. \A e \in m : \E a, b \in N : a # b /\ e = {a, b}
  BY <1>1, <1>2, PairFacts DEF GraphOK
<1>4. ASSUME NEW n \in N PROVE around(n) \in SUBSET N /\ n \in around(n)
  BY <1>3
<1>5. ASSUME NEW n \in N PROVE Mate(m, n) \in around(n) /\ Mate(m, n) \in N
  <2>1. around(n) \in SUBSET Nat /\ around(n) # {}
    BY <1>2, <1>4
  <2>2. Min(around(n)) \in around(n)
    BY <2>1, MinNat
  <2> QED
    BY <1>4, <2>2 DEF Mate
<1>6. ASSUME NEW n \in N, NEW e \in m, n \in e PROVE around(n) = e
  <2>1. {d \in m : n \in d} = {e}
    BY <1>1, <1>6
  <2> QED
    BY <1>6, <2>1
<1>7. ASSUME NEW n \in N PROVE Mate(m, n) \in CarriedOver(g, m)
  <2>1. SUFFICES ASSUME NEW e \in m, Mate(m, n) \in e PROVE Mate(m, n) = Min(e)
    BY <1>5 DEF CarriedOver
  <2>2. CASE n \in e
    BY <1>6, <2>2 DEF Mate
  <2>3. CASE n \notin e
    <3>1. Mate(m, n) # n
      BY <2>1, <2>3
    <3>2. PICK d \in m : n \in d /\ Mate(m, n) \in d
      BY <1>5, <3>1
    <3>3. d = e
      BY <1>1, <2>1, <3>2
    <3> QED
      BY <2>3, <3>2, <3>3
  <2> QED
    BY <2>2, <2>3
<1>8. ASSUME NEW n \in N PROVE Cardinality(below(n)) \in Vars
  <2>1. below(n) \in SUBSET N
    BY DEF CarriedOver
  <2>2. IsFiniteSet(below(n)) /\ Cardinality(below(n)) <= Cardinality(N) /\ Cardinality(below(n)) \in Nat
    BY <1>2, <2>1, FS_Subset, FS_CardinalityType
  <2>3. Mate(m, n) \in below(n)
    BY <1>2, <1>5, <1>7
  <2>4. Cardinality(below(n)) # 0
    <3> HIDE DEF below
    <3> QED
      BY <2>2, <2>3, FS_EmptySet
  <2> HIDE DEF below
  <2> QED
    BY <1>2, <2>2, <2>4, VarsFacts
<1>9. f = [n \in N |-> Cardinality(below(n))]
  BY DEF FineToCoarse
<1>10. \A n \in N : f[n] = Cardinality(below(n))
  <2> HIDE DEF below, f
  <2> QED
    BY <1>9
<1>11. f \in [N -> Vars]
  <2> HIDE DEF below, f
  <2> QED
    BY <1>8, <1>9
<1>12. PICK e \in m : TRUE
  BY <1>1
<1>13. PICK a \in N, b \in N : a # b /\ e = {a, b}
  BY <1>3
<1>14. around(a) = e /\ around(b) = e
  <2>1. a \in e /\ b \in e
    BY <1>13
  <2> HIDE DEF around
  <2> QED
    BY <1>6, <2>1
<1>15. Mate(m, a) = Mate(m, b)
  <2>1. Mate(m, a) = Min(around(a)) /\ Mate(m, b) = Min(around(b))
    BY DEF Mate
  <2> HIDE DEF around
  <2> QED
    BY <1>14, <2>1
<1>16. f[a] = f[b]
  <2>1. below(a) = below(b)
    BY <1>15
  <2> HIDE DEF below, f
  <2> QED
    BY <1>10, <1>13, <2>1
<1> DEFINE Im == {f[n] : n \in N}
           h == [n \in N \ {b} |-> f[n]]
<1>17. h \in Surjection(N \ {b}, Im)
  <2> HIDE DEF f
  <2>1. \A n \in N : \E x \in N \ {b} : h[x] = f[n]
    <3>1. SUFFICES ASSUME NEW n \in N PROVE \E x \in N \ {b} : h[x] = f[n]
      OBVIOUS
    <3>2. CASE n = b
      <4>1. a \in N \ {b} /\ h[a] = f[n]
        BY <1>13, <1>16, <3>2
      <4> QED
        BY <4>1
    <3>3. CASE n # b
      <4>1. n \in N \ {b} /\ h[n] = f[n]
        BY <3>3
      <4> QED
        BY <4>1
    <3> QED
      BY <3>2, <3>3
  <2> QED
    BY <2>1 DEF Surjection
<1>18. IsFiniteSet(N \ {b}) /\ Cardinality(N \ {b}) = Cardinality(N) - 1
  BY <1>2, <1>13, FS_RemoveElement
<1>19. f[a] \in Im
  BY <1>13
<1> HIDE DEF f, Im, h, N
<1>20. IsFiniteSet(Im) /\ Cardinality(Im) <= Cardinality(N) - 1
  BY <1>17, <1>18, FS_Surjection
<1>21. Cardinality(Im) \in Nat /\ Cardinality(Im) # 0
  BY <1>19, <1>20, FS_CardinalityType, FS_EmptySet
<1>22. 0 < Cardinality(Im) /\ Cardinality(Im) < Cardinality(N)
  BY <1>2, <1>20, <1>21
<1> QED
  BY <1>2, <1>11, <1>20, <1>22 DEF f, Im, N

-----------------------------------------------------------------------------
(* The invariant of the orderings *)

Maps == UNION {[S -> Vars] : S \in SUBSET Vars}

\* Every level starts from the communities of the level before.
Chain(c) ==
  /\ Len(c) >= 1
  /\ c[1] \in [Vars -> Vars]
  /\ \A k \in 2 .. Len(c) : DOMAIN c[k] = {Composite(c)[k - 1][w] : w \in Vars}

\* Two variables of a clause are in one community, or their communities share an edge.
Covers(c, g) ==
  /\ g.nodes = {Composite(c)[Len(c)][w] : w \in Vars}
  /\ \A id \in Ids : \A w, x \in VarsOf(id) :
       \/ Composite(c)[Len(c)][w] = Composite(c)[Len(c)][x]
       \/ {Composite(c)[Len(c)][w], Composite(c)[Len(c)][x]} \in g.edges

TypesInv ==
  /\ job \in Jobs
  /\ pc \in {"start", "cluster", "collect", "ordered", "ign", "smp", "done"}
  /\ GraphOK(graph)
  /\ clustering \in Seq(Maps) /\ Len(clustering) <= Max({1, NbVars})
  /\ i \in Nat \ {0} /\ (i = 1 \/ i <= Len(clustering))
  /\ clids \in Seq(Ids) /\ res \in Seq(Ids)

PhaseInv ==
  /\ pc = "start" => clustering = <<>> /\ clids = <<>> /\ res = <<>> /\ i = 1
  /\ job.tool = "smp" => pc \in {"start", "done"} /\ clustering = <<>> /\ clids = <<>> /\ res = <<>>
  /\ pc \in {"cluster", "collect"} => job.tool = "up" /\ job.order = "community"
  /\ job.tool = "up" /\ pc # "start" /\ job.order = "community" => Chain(clustering)

\* Every level has fewer communities than the one before.
GrowInv ==
  pc = "cluster" =>
    /\ res = <<>> /\ i = 1 /\ level = Composite(clustering)[1]
    /\ Covers(clustering, graph)
    /\ Cardinality(graph.nodes) + Len(clustering) <= NbVars + 1

\* In the end every clause is in one community.
CollectInv ==
  pc = "collect" =>
    /\ i \in 1 .. Len(clustering) /\ level = Composite(clustering)[i]
    /\ \A id \in Ids : \A w, x \in VarsOf(id) :
         Composite(clustering)[Len(clustering)][w] = Composite(clustering)[Len(clustering)][x]

EachOnce(s, r, T) ==
  /\ \A j, k \in DOMAIN s : s[j] = s[k] => j = k
  /\ \A j, k \in DOMAIN r : r[j] = r[k] => j = k
  /\ \A j \in DOMAIN s, k \in DOMAIN r : s[j] # r[k]
  /\ \A x \in T : (\E j \in DOMAIN s : s[j] = x) \/ (\E k \in DOMAIN r : r[k] = x)

OnceInv ==
  pc # "start" /\ job.tool = "up" =>
    /\ EachOnce(clids, res, Ids)
    /\ pc \notin {"cluster", "collect"} => clids = <<>>

BySize(s) == \A j, k \in DOMAIN s : j < k => Size(s[j]) <= Size(s[k])
ByStage ==
  \A j, k \in DOMAIN res : j < k =>
    \/ Stage(res[j]) < Stage(res[k])
    \/ Stage(res[j]) = Stage(res[k]) /\ Size(res[j]) <= Size(res[k])

\* What is left is good at no level that has been visited, what is ordered at one of them.
SortInv ==
  /\ pc \in {"cluster", "collect"} => BySize(clids)
  /\ pc = "collect" =>
       /\ \A j \in DOMAIN clids : \A k \in 1 .. i - 1 : ~Inside(clids[j], k)
       /\ \A j \in DOMAIN res : Stage(res[j]) \in 1 .. i - 1
  /\ job.order # "random" => ByStage

OInv == TypesInv /\ PhaseInv /\ GrowInv /\ CollectInv /\ OnceInv /\ SortInv

-----------------------------------------------------------------------------

LEMMA JobFacts ==
  ASSUME job \in Jobs
  PROVE  /\ job.clauses \in Seq(SUBSET ((-NbVars .. NbVars) \ {0}))
         /\ Ids = 1 .. Len(job.clauses) /\ Len(job.clauses) \in Nat /\ IsFiniteSet(Ids)
         /\ Cardinality(Ids) \in Nat
         /\ \A id \in Ids : VarsOf(id) \subseteq Vars /\ IsFiniteSet(VarsOf(id))
         /\ \A id \in Ids : Size(id) \in Nat
         /\ job.quarters \in Int /\ job.tool \in {"up", "smp"}
         /\ job.order \in {"ascending", "community", "random"}
<1>1. job \in JobFields
  BY OrderingAssumption
<1>2. /\ job.clauses \in Seq(SUBSET ((-NbVars .. NbVars) \ {0}))
      /\ job.quarters \in Int /\ job.tool \in {"up", "smp"}
      /\ job.order \in {"ascending", "community", "random"}
  BY <1>1 DEF JobFields
<1>3. Ids = 1 .. Len(job.clauses) /\ Len(job.clauses) \in Nat
  BY <1>2, LenProperties DEF Ids
<1>4. IsFiniteSet(Ids) /\ Cardinality(Ids) \in Nat
  BY <1>3, IntervalCount, FS_CardinalityType
<1>5. \A id \in Ids : job.clauses[id] \in SUBSET ((-NbVars .. NbVars) \ {0})
  BY <1>2, <1>3, ElementOfSeq
<1>6. ASSUME NEW id \in Ids
      PROVE  VarsOf(id) \subseteq Vars /\ IsFiniteSet(VarsOf(id)) /\ Size(id) \in Nat
  <2>1. \A l \in job.clauses[id] : l \in Int /\ l # 0 /\ -NbVars <= l /\ l <= NbVars
    BY <1>5, OrderingAssumption
  <2>2. \A l \in job.clauses[id] : (IF l > 0 THEN l ELSE -l) \in 1 .. NbVars
    BY <2>1, OrderingAssumption
  <2>3. VarsOf(id) \subseteq Vars
    BY <2>2 DEF VarsOf, Vars
  <2>4. IsFiniteSet(-NbVars .. NbVars)
    BY OrderingAssumption, FS_Interval
  <2>5. IsFiniteSet(job.clauses[id])
    BY <1>5, <2>4, FS_Subset
  <2> QED
    BY <2>3, <2>5, VarsFacts, FS_Subset, FS_CardinalityType DEF Size
<1> QED
  BY <1>2, <1>3, <1>4, <1>6

LEMMA ChainFacts ==
  ASSUME NEW c \in Seq(Maps), Chain(c)
  PROVE  /\ Len(c) \in Nat /\ DOMAIN c = 1 .. Len(c)
         /\ Composite(c)[1] = c[1]
         /\ \A k \in 1 .. Len(c) : Composite(c)[k] \in [Vars -> Vars]
         /\ \A k \in 1 .. Len(c) - 1 :
              Composite(c)[k + 1] = [w \in Vars |-> c[k + 1][Composite(c)[k][w]]]
<1>1. Len(c) \in Nat /\ DOMAIN c = 1 .. Len(c) /\ \A k \in 1 .. Len(c) : c[k] \in Maps
  BY LenProperties, ElementOfSeq
<1>2. Composite(c)[1] = c[1]
  BY CompositeValues
<1>3. \A k \in Nat : k > 1 => Composite(c)[k] = [w \in Vars |-> c[k][Composite(c)[k - 1][w]]]
  BY CompositeValues
<1>4. ASSUME NEW k \in 1 .. Len(c) PROVE Composite(c)[k] \in [Vars -> Vars]
  <2>1. CASE k = 1
    BY <1>2, <2>1 DEF Chain
  <2>2. CASE k # 1
    <3>1. k \in 2 .. Len(c) /\ k \in Nat /\ k > 1
      BY <1>1, <2>2
    <3>2. PICK S \in SUBSET Vars : c[k] \in [S -> Vars]
      BY <1>1 DEF Maps
    <3>3. S = {Composite(c)[k - 1][w] : w \in Vars}
      BY <3>1, <3>2 DEF Chain
    <3>4. \A w \in Vars : c[k][Composite(c)[k - 1][w]] \in Vars
      BY <3>2, <3>3
    <3>5. Composite(c)[k] = [w \in Vars |-> c[k][Composite(c)[k - 1][w]]]
      BY <1>3, <3>1
    <3> QED
      BY <3>4, <3>5
  <2> QED
    BY <2>1, <2>2
<1>5. ASSUME NEW k \in 1 .. Len(c) - 1
      PROVE  Composite(c)[k + 1] = [w \in Vars |-> c[k + 1][Composite(c)[k][w]]]
  <2>1. k + 1 \in Nat /\ k + 1 > 1 /\ (k + 1) - 1 = k
    BY <1>1
  <2>2. Composite(c)[k + 1] = [w \in Vars |-> c[k + 1][Composite(c)[(k + 1) - 1][w]]]
    BY <1>3, <2>1
  <2> QED
    BY <2>1, <2>2
<1> QED
  BY <1>1, <1>2, <1>4, <1>5

LEMMA ChainAppend ==
  ASSUME NEW c \in Seq(Maps), Chain(c),
         NEW f \in [{Composite(c)[Len(c)][w] : w \in Vars} -> Vars],
         NEW d, d = Append(c, f)
  PROVE  /\ d \in Seq(Maps) /\ Len(d) = Len(c) + 1 /\ Chain(d)
         /\ Composite(d)[1] = Composite(c)[1]
         /\ Composite(d)[Len(d)] = [w \in Vars |-> f[Composite(c)[Len(c)][w]]]
<1> DEFINE n == Len(c)
           S == {Composite(c)[Len(c)][w] : w \in Vars}
<1>1. n \in Nat /\ n >= 1 /\ \A k \in 1 .. n : Composite(c)[k] \in [Vars -> Vars]
  BY ChainFacts DEF Chain
<1>2. n \in 1 .. n
  BY <1>1
<1>3. S \in SUBSET Vars /\ f \in [S -> Vars]
  BY <1>1, <1>2
<1>4. f \in Maps
  BY <1>3 DEF Maps
<1>5. d \in Seq(Maps) /\ Len(d) = n + 1 /\ d[n + 1] = f /\ \A k \in 1 .. n : d[k] = c[k]
  BY <1>4, AppendProperties
<1>6. \A k \in 1 .. n : Composite(d)[k] = Composite(c)[k]
  <2>1. n \in Nat \ {0} /\ \A k \in 1 .. n : d[k] = c[k]
    BY <1>1, <1>5
  <2> HIDE DEF n
  <2> QED
    BY ONLY <2>1, CompositePrefix
<1>7. 1 \in 1 .. n
  BY <1>1
<1>8. d[1] \in [Vars -> Vars]
  <2>1. d[1] = c[1]
    BY <1>5, <1>7
  <2> QED
    BY <2>1 DEF Chain
<1>9. ASSUME NEW k \in 2 .. Len(d)
      PROVE  DOMAIN d[k] = {Composite(d)[k - 1][w] : w \in Vars}
  <2>1. k - 1 \in 1 .. n
    BY <1>1, <1>5
  <2>2. Composite(d)[k - 1] = Composite(c)[k - 1]
    BY <1>6, <2>1
  <2>3. CASE k = n + 1
    <3>1. k - 1 = n
      BY <1>1, <2>3
    <3> QED
      BY <1>3, <1>5, <2>2, <2>3, <3>1
  <2>4. CASE k # n + 1
    <3>1. k \in 2 .. n /\ k \in 1 .. n
      BY <1>1, <1>5, <2>4
    <3>2. d[k] = c[k] /\ DOMAIN c[k] = {Composite(c)[k - 1][w] : w \in Vars}
      BY <1>5, <3>1 DEF Chain
    <3> QED
      BY <2>2, <3>2
  <2> QED
    BY <2>3, <2>4
<1>10. Len(d) >= 1
  BY <1>1, <1>5
<1>11. Chain(d)
  BY <1>8, <1>9, <1>10 DEF Chain
<1>12. n + 1 \in Nat /\ n + 1 > 1 /\ (n + 1) - 1 = n
  BY <1>1
<1>13. Composite(d)[n + 1] = [w \in Vars |-> d[n + 1][Composite(d)[(n + 1) - 1][w]]]
  <2>1. \A k \in Nat : k > 1 => Composite(d)[k] = [w \in Vars |-> d[k][Composite(d)[k - 1][w]]]
    BY ONLY CompositeValues
  <2> HIDE DEF n
  <2> QED
    BY ONLY <1>12, <2>1
<1>14. Composite(d)[n + 1] = [w \in Vars |-> f[Composite(c)[n][w]]]
  BY <1>2, <1>5, <1>6, <1>12, <1>13
<1> QED
  BY <1>5, <1>6, <1>7, <1>11, <1>14

-----------------------------------------------------------------------------

LEMMA OrdersFacts ==
  ASSUME job \in Jobs, NEW s \in Orders
  PROVE  /\ s \in Seq(Ids) /\ DOMAIN s = 1 .. Cardinality(Ids) /\ Len(s) = Cardinality(Ids)
         /\ \A j, k \in DOMAIN s : s[j] = s[k] => j = k
         /\ \A x \in Ids : \E j \in DOMAIN s : s[j] = x
<1> DEFINE n == Cardinality(Ids)
<1>1. n \in Nat /\ IsFiniteSet(Ids)
  BY JobFacts
<1>2. s \in [1 .. n -> Ids] /\ \A j, k \in DOMAIN s : s[j] = s[k] => j = k
  BY DEF Orders
<1>3. s \in Seq(Ids) /\ Len(s) = n
  <2> HIDE DEF n
  <2>1. \A j \in 1 .. n : s[j] \in Ids
    BY <1>2
  <2>2. [j \in 1 .. n |-> s[j]] \in Seq(Ids)
    BY <1>1, <2>1, IsASeq
  <2>3. s = [j \in 1 .. n |-> s[j]]
    BY <1>2
  <2>4. s \in Seq(Ids)
    BY <2>2, <2>3
  <2> QED
    BY <1>1, <1>2, <2>4, LenProperties, SameInterval
<1>4. s \in Injection(1 .. n, Ids)
  BY <1>2 DEF Injection, IsInjective
<1>5. IsFiniteSet(1 .. n) /\ Cardinality(1 .. n) = n
  BY <1>1, IntervalCount
<1>6. s \in Surjection(1 .. n, Ids)
  BY <1>1, <1>4, <1>5, FS_Injection
<1> QED
  BY <1>2, <1>3, <1>6 DEF Surjection

\* Two duplicate-free sequences that share nothing and hold all of T are together as long
\* as T is large.
LEMMA OnceCount ==
  ASSUME NEW T, NEW s \in Seq(T), NEW r \in Seq(T), EachOnce(s, r, T)
  PROVE  Len(s) + Len(r) = Cardinality(T)
<1> DEFINE A == {s[j] : j \in DOMAIN s}
           B == {r[k] : k \in DOMAIN r}
<1>1. /\ Len(s) \in Nat /\ DOMAIN s = 1 .. Len(s) /\ s \in [1 .. Len(s) -> T]
      /\ Len(r) \in Nat /\ DOMAIN r = 1 .. Len(r) /\ r \in [1 .. Len(r) -> T]
  BY LenProperties
<1>2. s \in Surjection(1 .. Len(s), A) /\ s \in Injection(1 .. Len(s), A)
  <2>1. \A j, k \in 1 .. Len(s) : s[j] = s[k] => j = k
    BY <1>1 DEF EachOnce
  <2>2. s \in [1 .. Len(s) -> A] /\ \A x \in A : \E j \in 1 .. Len(s) : s[j] = x
    BY <1>1
  <2> QED
    BY <2>1, <2>2 DEF Surjection, Injection, IsInjective
<1>3. r \in Surjection(1 .. Len(r), B) /\ r \in Injection(1 .. Len(r), B)
  <2>1. \A j, k \in 1 .. Len(r) : r[j] = r[k] => j = k
    BY <1>1 DEF EachOnce
  <2>2. r \in [1 .. Len(r) -> B] /\ \A x \in B : \E j \in 1 .. Len(r) : r[j] = x
    BY <1>1
  <2> QED
    BY <2>1, <2>2 DEF Surjection, Injection, IsInjective
<1>4. IsFiniteSet(A) /\ Cardinality(A) = Len(s) /\ IsFiniteSet(B) /\ Cardinality(B) = Len(r)
  <2> HIDE DEF A, B
  <2>1. IsFiniteSet(1 .. Len(s)) /\ Cardinality(1 .. Len(s)) = Len(s)
    BY <1>1, IntervalCount
  <2>2. IsFiniteSet(1 .. Len(r)) /\ Cardinality(1 .. Len(r)) = Len(r)
    BY <1>1, IntervalCount
  <2>3. IsFiniteSet(A) /\ Cardinality(A) = Len(s)
    BY <1>2, <2>1, FS_Surjection
  <2>4. IsFiniteSet(B) /\ Cardinality(B) = Len(r)
    BY <1>3, <2>2, FS_Surjection
  <2> QED
    BY <2>3, <2>4
<1>5. A \cap B = {} /\ A \cup B = T
  BY <1>1 DEF EachOnce
<1> HIDE DEF A, B
<1>6. Cardinality(A \cap B) = 0 /\ Cardinality(A \cup B) = Cardinality(T)
  <2>1. Cardinality({}) = 0
    BY FS_EmptySet
  <2> QED
    BY <1>5, <2>1, Zenon
<1>7. Cardinality(A \cup B) = Cardinality(A) + Cardinality(B) - Cardinality(A \cap B)
  BY <1>4, FS_Union
<1> QED
  BY <1>1, <1>4, <1>6, <1>7

LEMMA InsideFacts ==
  ASSUME job \in Jobs, NEW id \in Ids, NEW k
  PROVE  Inside(id, k) <=>
           \A w, x \in VarsOf(id) : Composite(clustering)[k][w] = Composite(clustering)[k][x]
<1> DEFINE c == Composite(clustering)[k]
           T == {c[w] : w \in VarsOf(id)}
           f == [w \in VarsOf(id) |-> c[w]]
<1>1. Inside(id, k) <=> Cardinality(T) <= 1
  BY CommunitiesComposite DEF Inside
<1>2. IsFiniteSet(VarsOf(id))
  BY JobFacts
<1>3. f \in Surjection(VarsOf(id), T)
  BY DEF Surjection
<1>4. IsFiniteSet(T) /\ Cardinality(T) \in Nat
  BY <1>2, <1>3, FS_Surjection, FS_CardinalityType
<1>5. ASSUME Cardinality(T) <= 1, NEW w \in VarsOf(id), NEW x \in VarsOf(id)
      PROVE  c[w] = c[x]
  <2>1. c[w] \in T /\ c[x] \in T
    OBVIOUS
  <2> HIDE DEF T, c
  <2>2. Cardinality(T) = 0 \/ Cardinality(T) = 1
    BY <1>4, <1>5
  <2>3. T = {} \/ \E y : T = {y}
    BY <1>4, <2>2, FS_EmptySet, FS_Singleton
  <2> QED
    BY <2>1, <2>3
<1>6. ASSUME \A w, x \in VarsOf(id) : c[w] = c[x]
      PROVE  Cardinality(T) <= 1
  <2>1. CASE VarsOf(id) = {}
    <3>1. T = {}
      BY <2>1
    <3> QED
      BY <3>1, FS_EmptySet
  <2>2. CASE VarsOf(id) # {}
    <3>1. PICK w \in VarsOf(id) : TRUE
      BY <2>2
    <3>2. T = {c[w]}
      BY <1>6
    <3> HIDE DEF T
    <3>3. Cardinality(T) = 1
      BY <3>2, FS_Singleton
    <3> QED
      BY <3>3
  <2> QED
    BY <2>1, <2>2
<1> QED
  BY <1>1, <1>5, <1>6

\* A clause that is good at level k and at none before comes at level k.
LEMMA StageFacts ==
  ASSUME job \in Jobs, job.order = "community", clustering \in Seq(Maps), NEW id \in Ids,
         NEW k \in DOMAIN clustering, Inside(id, k), \A m \in 1 .. k - 1 : ~Inside(id, m)
  PROVE  Stage(id) = k
<1> DEFINE S == {m \in DOMAIN clustering : Inside(id, m)}
<1>1. DOMAIN clustering = 1 .. Len(clustering) /\ Len(clustering) \in Nat
  BY LenProperties
<1>2. S \in SUBSET Nat /\ k \in S
  BY <1>1
<1>3. \A m \in S : k <= m
  <2>1. SUFFICES ASSUME NEW m \in S, ~(k <= m) PROVE FALSE
    OBVIOUS
  <2>2. m \in 1 .. k - 1
    BY <1>1, <2>1
  <2> QED
    BY <2>2
<1> DEFINE x == Min(S)
<1> HIDE DEF S
<1>4. x \in S /\ \A y \in S : x <= y
  BY <1>2, MinNat
<1>5. x <= k /\ k <= x /\ x \in Nat /\ k \in Nat
  BY <1>2, <1>3, <1>4
<1>6. x = k
  BY <1>5
<1> QED
  BY <1>6 DEF Stage, S

LEMMA StageKept ==
  ASSUME job' = job, clustering' = clustering
  PROVE  /\ \A id, k : Inside(id, k)' <=> Inside(id, k)
         /\ \A id : Stage(id)' = Stage(id)
         /\ \A id : Size(id)' = Size(id)
<1>1. \A id : VarsOf(id)' = VarsOf(id)
  BY DEF VarsOf
<1>2. Communities' = Composite(clustering') /\ Communities = Composite(clustering)
  BY DEF Communities, Composite
<1>3. Communities' = Communities
  BY <1>2
<1>4. \A id, k : Inside(id, k)' <=> Inside(id, k)
  BY <1>1, <1>3 DEF Inside
<1>5. \A id : {k \in DOMAIN clustering' : Inside(id, k)'} = {k \in DOMAIN clustering : Inside(id, k)}
  BY <1>4
<1>6. \A id : Stage(id)' = Stage(id)
  BY <1>5 DEF Stage
<1> QED
  BY <1>4, <1>6 DEF Size

-----------------------------------------------------------------------------
(* Every step of the orderings keeps the invariant *)

LEMMA InitOInv == OrderingInit => OInv
<1> SUFFICES ASSUME OrderingInit PROVE OInv
  OBVIOUS
<1> USE DEF OrderingInit
<1>1. job \in Jobs /\ pc = "start" /\ clustering = <<>> /\ clids = <<>> /\ res = <<>> /\ i = 1
      /\ graph.nodes = {} /\ graph.edges = {}
  OBVIOUS
<1>2. /\ clustering \in Seq(Maps) /\ Len(clustering) = 0
      /\ clids \in Seq(Ids) /\ res \in Seq(Ids) /\ DOMAIN res = {}
  BY <1>1
<1>3. 0 <= Max({1, NbVars})
  BY MaxPair, VarsFacts
<1>4. TypesInv
  BY <1>1, <1>2, <1>3 DEF TypesInv, GraphOK
<1>5. PhaseInv
  BY <1>1, JobFacts DEF PhaseInv
<1>6. GrowInv /\ CollectInv /\ OnceInv
  BY <1>1 DEF GrowInv, CollectInv, OnceInv
<1>7. SortInv
  BY <1>1, <1>2 DEF SortInv, ByStage
<1> QED
  BY <1>4, <1>5, <1>6, <1>7 DEF OInv

LEMMA OrderAtOnceStep == OInv /\ OrderAtOnce => OInv'
<1> SUFFICES ASSUME OInv, OrderAtOnce PROVE OInv'
  OBVIOUS
<1>1. /\ pc = "start" /\ job.tool = "up" /\ pc' = "ordered"
      /\ job' = job /\ graph' = graph /\ clustering' = clustering /\ i' = i /\ clids' = clids
      /\ \/ job.order = "ascending" /\ res' \in Ascending
         \/ job.order = "random" /\ res' \in Orders
  BY DEF OrderAtOnce
<1>2. TypesInv /\ clids = <<>> /\ clustering = <<>>
  BY <1>1 DEF OInv, PhaseInv
<1>3. job \in Jobs /\ Ids' = Ids /\ res' \in Orders
  BY <1>1, <1>2 DEF TypesInv, Ids, Ascending
<1>4. /\ res' \in Seq(Ids)
      /\ \A j, k \in DOMAIN res' : res'[j] = res'[k] => j = k
      /\ \A x \in Ids : \E j \in DOMAIN res' : res'[j] = x
  BY <1>3, OrdersFacts
<1>5. TypesInv'
  BY <1>1, <1>2, <1>3, <1>4 DEF TypesInv
<1>6. PhaseInv'
  BY <1>1 DEF PhaseInv
<1>7. GrowInv' /\ CollectInv'
  BY <1>1 DEF GrowInv, CollectInv
<1>8. OnceInv'
  <2>1. DOMAIN clids' = {} /\ clids' = <<>>
    BY <1>1, <1>2
  <2>2. EachOnce(clids', res', Ids')
    BY <1>3, <1>4, <2>1 DEF EachOnce
  <2> QED
    BY <2>1, <2>2 DEF OnceInv
<1>9. SortInv'
  <2>1. SUFFICES ASSUME job.order # "random" PROVE ByStage'
    BY <1>1 DEF SortInv
  <2>2. job.order = "ascending" /\ res' \in Ascending
    BY <1>1, <2>1
  <2>3. \A j, k \in DOMAIN res' : j < k => Size(res'[j]) <= Size(res'[k])
    BY <2>2 DEF Ascending
  <2>4. \A id : Size(id)' = Size(id) /\ Stage(id)' = 1
    BY <1>1, <2>2 DEF Size, Stage
  <2> QED
    BY <2>3, <2>4 DEF ByStage
<1> QED
  BY <1>5, <1>6, <1>7, <1>8, <1>9 DEF OInv

LEMMA InitialCoarsenStep == OInv /\ InitialCoarsen => OInv'
<1> SUFFICES ASSUME OInv, InitialCoarsen PROVE OInv'
  OBVIOUS
<1>1. PICK f \in Partitions :
        graph' = Coarse(Vig, f) /\ clustering' = <<f>> /\ level' = f
  BY DEF InitialCoarsen
<1>2. /\ pc = "start" /\ job.tool = "up" /\ job.order = "community" /\ pc' = "cluster"
      /\ job' = job /\ i' = i /\ res' = res /\ clids' \in Ascending
  BY DEF InitialCoarsen
<1>3. TypesInv /\ res = <<>> /\ i = 1
  BY <1>2 DEF OInv, PhaseInv
<1>4. job \in Jobs /\ Ids' = Ids /\ clids' \in Orders /\ \A id : VarsOf(id)' = VarsOf(id)
  BY <1>2, <1>3 DEF TypesInv, Ids, Ascending, VarsOf
<1>5. /\ clids' \in Seq(Ids)
      /\ \A j, k \in DOMAIN clids' : clids'[j] = clids'[k] => j = k
      /\ \A x \in Ids : \E j \in DOMAIN clids' : clids'[j] = x
  BY <1>4, OrdersFacts
<1>6. f \in [Vars -> Vars] /\ f \in Maps
  BY <1>1 DEF Partitions, Maps
<1>7. GraphOK(Vig) /\ Vig.nodes = Vars /\ Vig.edges = UNION {Pairs(VarsOf(id)) : id \in Ids}
  <2>1. \A id \in Ids : Pairs(VarsOf(id)) \subseteq Pairs(Vars)
    BY <1>4, JobFacts DEF Pairs, kSubset
  <2> QED
    BY <2>1 DEF GraphOK, Vig
<1>8. /\ GraphOK(graph') /\ graph'.nodes = {f[n] : n \in Vars}
      /\ \A a, b \in Vars : {a, b} \in Vig.edges /\ f[a] # f[b] => {f[a], f[b]} \in graph'.edges
  BY <1>1, <1>6, <1>7, CoarseFacts
<1> DEFINE c == clustering'
<1>9. c \in Seq(Maps) /\ Len(c) = 1 /\ c[1] = f
  BY <1>1, <1>6
<1>10. Composite(c)[1] = f
  <2>1. Composite(c)[1] = c[1]
    BY ONLY CompositeValues
  <2> QED
    BY <1>9, <2>1
<1> HIDE DEF c
<1>11. Chain(c)
  BY <1>6, <1>9 DEF Chain
<1>12. TypesInv'
  <2>1. Len(clustering') <= Max({1, NbVars})
    BY <1>9, MaxPair, VarsFacts DEF c
  <2>2. clustering' \in Seq(Maps)
    BY <1>9 DEF c
  <2>3. res' \in Seq(Ids') /\ clids' \in Seq(Ids')
    BY <1>2, <1>3, <1>4, <1>5 DEF TypesInv
  <2> QED
    BY <1>2, <1>3, <1>8, <2>1, <2>2, <2>3 DEF TypesInv
<1>13. PhaseInv'
  BY <1>2, <1>11 DEF PhaseInv, c
<1>14. GrowInv'
  <2>1. graph'.nodes = {Composite(c)[Len(c)][w] : w \in Vars}
    BY <1>8, <1>9, <1>10
  <2>2. ASSUME NEW id \in Ids, NEW w \in VarsOf(id), NEW x \in VarsOf(id), f[w] # f[x]
        PROVE  {f[w], f[x]} \in graph'.edges
    <3>1. w # x /\ w \in Vars /\ x \in Vars /\ IsFiniteSet(VarsOf(id))
      BY <1>4, <2>2, JobFacts
    <3>2. {w, x} \in Pairs(VarsOf(id))
      BY <3>1, PairFacts
    <3> QED
      BY <1>7, <1>8, <2>2, <3>1, <3>2
  <2>3. (Covers(clustering, graph))'
    <3>1. \A id \in Ids : \A w, x \in VarsOf(id) :
            f[w] = f[x] \/ {f[w], f[x]} \in graph'.edges
      BY <2>2
    <3>2. \A id \in Ids' : \A w, x \in VarsOf(id)' :
             \/ Composite(c)[Len(c)][w] = Composite(c)[Len(c)][x]
             \/ {Composite(c)[Len(c)][w], Composite(c)[Len(c)][x]} \in graph'.edges
      <4>1. SUFFICES ASSUME NEW id \in Ids', NEW w \in VarsOf(id)', NEW x \in VarsOf(id)'
                     PROVE  \/ Composite(c)[Len(c)][w] = Composite(c)[Len(c)][x]
                            \/ {Composite(c)[Len(c)][w], Composite(c)[Len(c)][x]} \in graph'.edges
        OBVIOUS
      <4>2. id \in Ids /\ w \in VarsOf(id) /\ x \in VarsOf(id)
        BY <1>4
      <4>3. Composite(c)[Len(c)] = f
        BY <1>9, <1>10
      <4> QED
        BY <3>1, <4>2, <4>3
    <3> QED
      BY <2>1, <3>2 DEF Covers, c
  <2>4. Cardinality(graph'.nodes) + Len(c) <= NbVars + 1
    <3>1. IsFiniteSet(Vars) /\ Cardinality(Vars) = NbVars /\ NbVars \in Nat
      BY VarsFacts
    <3>2. Cardinality(graph'.nodes) <= Cardinality(Vars) /\ Cardinality(graph'.nodes) \in Nat
      BY <1>8, <3>1, FS_Subset, FS_CardinalityType DEF GraphOK
    <3> QED
      BY <1>9, <3>1, <3>2
  <2> QED
    BY <1>1, <1>2, <1>3, <1>10, <2>3, <2>4 DEF GrowInv, c
<1>15. CollectInv'
  BY <1>2 DEF CollectInv
<1>16. OnceInv'
  <2>1. DOMAIN res' = {}
    BY <1>2, <1>3
  <2>2. EachOnce(clids', res', Ids')
    BY <1>4, <1>5, <2>1 DEF EachOnce
  <2> QED
    BY <1>2, <2>2 DEF OnceInv
<1>17. SortInv'
  <2>1. \A id : Size(id)' = Size(id)
    BY <1>2 DEF Size
  <2>2. \A j, k \in DOMAIN clids' : j < k => Size(clids'[j]) <= Size(clids'[k])
    BY <1>2 DEF Ascending
  <2>3. BySize(clids)'
    BY <2>1, <2>2 DEF BySize
  <2>4. DOMAIN res' = {}
    BY <1>2, <1>3
  <2>5. ByStage'
    BY <2>4 DEF ByStage
  <2> QED
    BY <1>2, <2>3, <2>5 DEF SortInv
<1> QED
  BY <1>12, <1>13, <1>14, <1>15, <1>16, <1>17 DEF OInv

LEMMA CoarsenGraphStep == OInv /\ CoarsenGraph => OInv'
<1> SUFFICES ASSUME OInv, CoarsenGraph PROVE OInv'
  OBVIOUS
<1>1. PICK m \in Matchings(graph) \ {{}} :
        /\ graph' = Coarse(graph, FineToCoarse(graph, m))
        /\ clustering' = Append(clustering, FineToCoarse(graph, m))
  BY DEF CoarsenGraph
<1>2. /\ pc = "cluster" /\ pc' = pc
      /\ job' = job /\ i' = i /\ level' = level /\ clids' = clids /\ res' = res
  BY DEF CoarsenGraph
<1>3. TypesInv /\ job.tool = "up" /\ job.order = "community" /\ Chain(clustering)
  BY <1>2 DEF OInv, PhaseInv
<1>4. /\ res = <<>> /\ i = 1 /\ level = Composite(clustering)[1]
      /\ Covers(clustering, graph)
      /\ Cardinality(graph.nodes) + Len(clustering) <= NbVars + 1
  BY <1>2 DEF OInv, GrowInv
<1>5. job \in Jobs /\ Ids' = Ids /\ \A id : VarsOf(id)' = VarsOf(id)
  BY <1>2, <1>3 DEF TypesInv, Ids, VarsOf
<1> DEFINE f == FineToCoarse(graph, m)
           c == clustering
           d == clustering'
           C == Composite(clustering)[Len(clustering)]
           D == Composite(clustering')[Len(clustering')]
<1>6. GraphOK(graph) /\ c \in Seq(Maps)
  BY <1>3 DEF TypesInv
<1>7. /\ f \in [graph.nodes -> Vars]
      /\ IsFiniteSet(graph.nodes) /\ IsFiniteSet({f[n] : n \in graph.nodes})
      /\ 0 < Cardinality({f[n] : n \in graph.nodes})
      /\ Cardinality({f[n] : n \in graph.nodes}) < Cardinality(graph.nodes)
  BY <1>6, MatchingFacts
<1>8. graph.nodes = {C[w] : w \in Vars}
  BY <1>4 DEF Covers
<1>9. d = Append(c, f) /\ f \in [{Composite(c)[Len(c)][w] : w \in Vars} -> Vars]
  BY <1>1, <1>7, <1>8
<1> HIDE DEF f
<1>10. /\ GraphOK(graph') /\ graph'.nodes = {f[n] : n \in graph.nodes}
       /\ \A a, b \in graph.nodes : {a, b} \in graph.edges /\ f[a] # f[b] => {f[a], f[b]} \in graph'.edges
  BY <1>1, <1>6, <1>7, CoarseFacts DEF f
<1> HIDE DEF d
<1>11. /\ d \in Seq(Maps) /\ Len(d) = Len(c) + 1 /\ Chain(d)
       /\ Composite(d)[1] = Composite(c)[1]
       /\ Composite(d)[Len(d)] = [w \in Vars |-> f[Composite(c)[Len(c)][w]]]
  BY <1>3, <1>6, <1>9, ChainAppend
<1>12. D = [w \in Vars |-> f[C[w]]]
  BY <1>11 DEF d
<1>13. \A w \in Vars : D[w] = f[C[w]] /\ C[w] \in graph.nodes
  BY <1>8, <1>12
<1>14. Len(c) \in Nat /\ Len(c) >= 1
  BY <1>3, <1>6, LenProperties DEF Chain
<1>15. /\ Cardinality(graph'.nodes) \in Nat /\ Cardinality(graph.nodes) \in Nat
       /\ 0 < Cardinality(graph'.nodes) /\ Cardinality(graph'.nodes) < Cardinality(graph.nodes)
  BY <1>7, <1>10, FS_CardinalityType
<1>16. Len(d) <= NbVars /\ Cardinality(graph'.nodes) + Len(d) <= NbVars + 1
  BY <1>4, <1>11, <1>14, <1>15, VarsFacts
<1>17. Len(d) <= Max({1, NbVars})
  BY <1>11, <1>14, <1>16, MaxPair, VarsFacts
<1>18. TypesInv'
  BY <1>2, <1>3, <1>4, <1>5, <1>10, <1>11, <1>17 DEF TypesInv, d
<1>19. PhaseInv'
  BY <1>2, <1>3, <1>11 DEF PhaseInv, d
<1>20. GrowInv'
  <2>1. graph'.nodes = {D[w] : w \in Vars}
    <3>1. {f[n] : n \in {C[w] : w \in Vars}} = {f[C[w]] : w \in Vars}
      OBVIOUS
    <3>2. {f[C[w]] : w \in Vars} = {D[w] : w \in Vars}
      BY <1>13
    <3> HIDE DEF C, D
    <3> QED
      BY <1>8, <1>10, <3>1, <3>2
  <2>2. ASSUME NEW id \in Ids, NEW w \in VarsOf(id), NEW x \in VarsOf(id), D[w] # D[x]
        PROVE  {D[w], D[x]} \in graph'.edges
    <3>1. w \in Vars /\ x \in Vars
      BY <1>5, JobFacts
    <3>2. C[w] = C[x] \/ {C[w], C[x]} \in graph.edges
      BY <1>4 DEF Covers
    <3>3. D[w] = f[C[w]] /\ D[x] = f[C[x]] /\ C[w] \in graph.nodes /\ C[x] \in graph.nodes
      BY <1>13, <3>1
    <3> HIDE DEF C, D
    <3> QED
      BY <1>10, <2>2, <3>2, <3>3
  <2>3. (Covers(clustering, graph))'
    <3> HIDE DEF C, D
    <3>1. ASSUME NEW id \in Ids', NEW w \in VarsOf(id)', NEW x \in VarsOf(id)'
          PROVE  D[w] = D[x] \/ {D[w], D[x]} \in graph'.edges
      <4>1. id \in Ids /\ w \in VarsOf(id) /\ x \in VarsOf(id)
        BY <1>5
      <4> QED
        BY <2>2, <4>1
    <3> QED
      BY <2>1, <3>1 DEF Covers, D
  <2> QED
    BY <1>2, <1>4, <1>11, <1>16, <2>3 DEF GrowInv, d
<1>21. CollectInv'
  BY <1>2 DEF CollectInv
<1>22. OnceInv'
  BY <1>2, <1>5 DEF OInv, OnceInv
<1>23. SortInv'
  <2>1. BySize(clids)'
    <3>1. BySize(clids)
      BY <1>2 DEF OInv, SortInv
    <3>2. \A id : Size(id)' = Size(id)
      BY <1>2 DEF Size
    <3> QED
      BY <1>2, <3>1, <3>2 DEF BySize
  <2>2. DOMAIN res' = {}
    BY <1>2, <1>4
  <2> QED
    BY <1>2, <2>1, <2>2 DEF SortInv, ByStage
<1> QED
  BY <1>18, <1>19, <1>20, <1>21, <1>22, <1>23 DEF OInv

LEMMA ClusteredStep == OInv /\ Clustered => OInv'
<1> SUFFICES ASSUME OInv, Clustered PROVE OInv'
  OBVIOUS
<1>1. /\ pc = "cluster" /\ graph.edges = {} /\ pc' = "collect"
      /\ job' = job /\ graph' = graph /\ clustering' = clustering /\ i' = i
      /\ level' = level /\ clids' = clids /\ res' = res
  BY DEF Clustered
<1>2. TypesInv /\ job.tool = "up" /\ job.order = "community" /\ Chain(clustering)
  BY <1>1 DEF OInv, PhaseInv
<1>3. /\ res = <<>> /\ i = 1 /\ level = Composite(clustering)[1]
      /\ Covers(clustering, graph)
  BY <1>1 DEF OInv, GrowInv
<1>4. job \in Jobs /\ Ids' = Ids /\ \A id : VarsOf(id)' = VarsOf(id)
  BY <1>1, <1>2 DEF TypesInv, Ids, VarsOf
<1>5. TypesInv'
  BY <1>1, <1>2, <1>4 DEF TypesInv
<1>6. PhaseInv' /\ GrowInv'
  BY <1>1, <1>2 DEF PhaseInv, GrowInv
<1>7. CollectInv'
  <2>1. 1 \in 1 .. Len(clustering)
    BY <1>2, LenProperties DEF TypesInv, Chain
  <2>2. \A id \in Ids' : \A w, x \in VarsOf(id)' :
          Composite(clustering)[Len(clustering)][w] = Composite(clustering)[Len(clustering)][x]
    <3>1. SUFFICES ASSUME NEW id \in Ids', NEW w \in VarsOf(id)', NEW x \in VarsOf(id)'
                   PROVE  Composite(clustering)[Len(clustering)][w]
                            = Composite(clustering)[Len(clustering)][x]
      OBVIOUS
    <3>2. id \in Ids /\ w \in VarsOf(id) /\ x \in VarsOf(id)
      BY <1>4
    <3> QED
      BY <1>1, <1>3, <3>2 DEF Covers
  <2> QED
    BY <1>1, <1>3, <2>1, <2>2 DEF CollectInv
<1>8. OnceInv'
  BY <1>1, <1>4 DEF OInv, OnceInv
<1>9. SortInv'
  <2>1. BySize(clids)'
    <3>1. BySize(clids)
      BY <1>1 DEF OInv, SortInv
    <3>2. \A id : Size(id)' = Size(id)
      BY <1>1 DEF Size
    <3> QED
      BY <1>1, <3>1, <3>2 DEF BySize
  <2>2. DOMAIN res' = {}
    BY <1>1, <1>3
  <2>3. 1 .. i' - 1 = {}
    BY <1>1, <1>3
  <2> QED
    BY <1>1, <2>1, <2>2, <2>3 DEF SortInv, ByStage
<1> QED
  BY <1>5, <1>6, <1>7, <1>8, <1>9 DEF OInv

\* Elements of a sequence that move to another one are in either once, as before.
LEMMA MovedOnce ==
  ASSUME NEW T, NEW s \in Seq(T), NEW r \in Seq(T), NEW K \in SUBSET (DOMAIN s), EachOnce(s, r, T)
  PROVE  EachOnce(At(s, DOMAIN s \ K), r \o At(s, K), T)
<1> DEFINE L == DOMAIN s \ K
           a == At(s, K)
           b == At(s, L)
           q == r \o a
<1>1. L \in SUBSET (DOMAIN s)
  OBVIOUS
<1>2. a \in Seq(T) /\ Len(a) = Cardinality(K)
  BY AtFacts
<1>21. PICK p : Picks(s, K, p)
  BY AtFacts
<1>3. /\ p \in [1 .. Len(a) -> K]
      /\ \A m \in 1 .. Len(a) : a[m] = s[p[m]]
      /\ \A j, k \in 1 .. Len(a) : j < k => p[j] < p[k]
      /\ \A x \in K : \E m \in 1 .. Len(a) : p[m] = x
  BY <1>21 DEF Picks
<1> HIDE DEF L
<1>4. b \in Seq(T) /\ Len(b) = Cardinality(L)
  BY <1>1, AtFacts
<1>41. PICK o : Picks(s, L, o)
  BY <1>1, AtFacts
<1>5. /\ o \in [1 .. Len(b) -> L]
      /\ \A m \in 1 .. Len(b) : b[m] = s[o[m]]
      /\ \A j, k \in 1 .. Len(b) : j < k => o[j] < o[k]
      /\ \A x \in L : \E m \in 1 .. Len(b) : o[m] = x
  BY <1>41 DEF Picks
<1> HIDE DEF a, b
<1>6. /\ q \in Seq(T) /\ Len(q) = Len(r) + Len(a)
      /\ \A j \in 1 .. Len(r) + Len(a) : q[j] = IF j <= Len(r) THEN r[j] ELSE a[j - Len(r)]
  BY <1>2, ConcatProperties
<1> HIDE DEF q
<1>7. /\ DOMAIN s = 1 .. Len(s) /\ Len(s) \in Nat /\ DOMAIN r = 1 .. Len(r) /\ Len(r) \in Nat
      /\ DOMAIN a = 1 .. Len(a) /\ Len(a) \in Nat /\ DOMAIN b = 1 .. Len(b) /\ Len(b) \in Nat
      /\ DOMAIN q = 1 .. Len(q)
  BY <1>2, <1>4, <1>6, LenProperties
<1>8. \A j, k \in 1 .. Len(a) : a[j] = a[k] => j = k
  <2>1. SUFFICES ASSUME NEW j \in 1 .. Len(a), NEW k \in 1 .. Len(a), a[j] = a[k], j # k
                 PROVE  FALSE
    OBVIOUS
  <2>2. p[j] \in DOMAIN s /\ p[k] \in DOMAIN s /\ s[p[j]] = s[p[k]]
    BY <1>3, <2>1
  <2>3. p[j] = p[k]
    BY <2>2 DEF EachOnce
  <2>4. j < k \/ k < j
    BY <2>1
  <2>5. p[j] < p[k] \/ p[k] < p[j]
    BY <1>3, <2>4
  <2> QED
    BY <1>7, <2>2, <2>3, <2>5
<1>9. \A j, k \in 1 .. Len(b) : b[j] = b[k] => j = k
  <2>1. SUFFICES ASSUME NEW j \in 1 .. Len(b), NEW k \in 1 .. Len(b), b[j] = b[k], j # k
                 PROVE  FALSE
    OBVIOUS
  <2>2. o[j] \in DOMAIN s /\ o[k] \in DOMAIN s /\ s[o[j]] = s[o[k]]
    BY <1>1, <1>5, <2>1
  <2>3. o[j] = o[k]
    BY <2>2 DEF EachOnce
  <2>4. j < k \/ k < j
    BY <2>1
  <2>5. o[j] < o[k] \/ o[k] < o[j]
    BY <1>5, <2>4
  <2> QED
    BY <1>7, <2>2, <2>3, <2>5
<1>10. \A j \in 1 .. Len(a), k \in DOMAIN r : a[j] # r[k]
  <2>1. SUFFICES ASSUME NEW j \in 1 .. Len(a), NEW k \in DOMAIN r PROVE a[j] # r[k]
    OBVIOUS
  <2>2. p[j] \in DOMAIN s /\ a[j] = s[p[j]]
    BY <1>3
  <2> QED
    BY <2>2 DEF EachOnce
<1>11. \A j \in 1 .. Len(b), k \in DOMAIN r : b[j] # r[k]
  <2>1. SUFFICES ASSUME NEW j \in 1 .. Len(b), NEW k \in DOMAIN r PROVE b[j] # r[k]
    OBVIOUS
  <2>2. o[j] \in DOMAIN s /\ b[j] = s[o[j]]
    BY <1>1, <1>5
  <2> QED
    BY <2>2 DEF EachOnce
<1>12. \A j \in 1 .. Len(b), k \in 1 .. Len(a) : b[j] # a[k]
  <2>1. SUFFICES ASSUME NEW j \in 1 .. Len(b), NEW k \in 1 .. Len(a), b[j] = a[k] PROVE FALSE
    OBVIOUS
  <2>2. o[j] \in L /\ p[k] \in K /\ o[j] \in DOMAIN s /\ p[k] \in DOMAIN s /\ s[o[j]] = s[p[k]]
    BY <1>1, <1>3, <1>5, <2>1
  <2>3. o[j] = p[k]
    BY <2>2 DEF EachOnce
  <2> QED
    BY <2>2, <2>3 DEF L
<1>13. \A j, k \in DOMAIN q : q[j] = q[k] => j = k
  <2>1. SUFFICES ASSUME NEW j \in DOMAIN q, NEW k \in DOMAIN q, q[j] = q[k] PROVE j = k
    OBVIOUS
  <2>2. j \in 1 .. Len(r) + Len(a) /\ k \in 1 .. Len(r) + Len(a)
    BY <1>6, <1>7
  <2>3. CASE j <= Len(r) /\ k <= Len(r)
    <3>1. j \in DOMAIN r /\ k \in DOMAIN r /\ r[j] = r[k]
      BY <1>6, <1>7, <2>1, <2>2, <2>3
    <3> QED
      BY <3>1 DEF EachOnce
  <2>4. CASE j <= Len(r) /\ ~(k <= Len(r))
    <3>1. j \in DOMAIN r /\ k - Len(r) \in 1 .. Len(a) /\ r[j] = a[k - Len(r)]
      BY <1>6, <1>7, <2>1, <2>2, <2>4
    <3> QED
      BY <1>10, <3>1
  <2>5. CASE ~(j <= Len(r)) /\ k <= Len(r)
    <3>1. k \in DOMAIN r /\ j - Len(r) \in 1 .. Len(a) /\ r[k] = a[j - Len(r)]
      BY <1>6, <1>7, <2>1, <2>2, <2>5
    <3> QED
      BY <1>10, <3>1
  <2>6. CASE ~(j <= Len(r)) /\ ~(k <= Len(r))
    <3>1. j - Len(r) \in 1 .. Len(a) /\ k - Len(r) \in 1 .. Len(a) /\ a[j - Len(r)] = a[k - Len(r)]
      <4>1. j - Len(r) \in 1 .. Len(a) /\ k - Len(r) \in 1 .. Len(a)
        BY <1>7, <2>2, <2>6
      <4>2. q[j] = a[j - Len(r)] /\ q[k] = a[k - Len(r)]
        BY <1>6, <2>2, <2>6
      <4> QED
        BY <2>1, <4>1, <4>2
    <3>2. j - Len(r) = k - Len(r)
      BY <1>8, <3>1
    <3> QED
      BY <1>7, <2>2, <3>2
  <2> QED
    BY <2>3, <2>4, <2>5, <2>6
<1>14. \A j \in DOMAIN b, k \in DOMAIN q : b[j] # q[k]
  <2>1. SUFFICES ASSUME NEW j \in DOMAIN b, NEW k \in DOMAIN q PROVE b[j] # q[k]
    OBVIOUS
  <2>2. CASE k <= Len(r)
    <3>1. k \in DOMAIN r /\ q[k] = r[k]
      BY <1>6, <1>7, <2>2
    <3> QED
      BY <1>7, <1>11, <3>1
  <2>3. CASE ~(k <= Len(r))
    <3>1. k - Len(r) \in 1 .. Len(a) /\ q[k] = a[k - Len(r)]
      BY <1>6, <1>7, <2>3
    <3> QED
      BY <1>7, <1>12, <3>1
  <2> QED
    BY <2>2, <2>3
<1>15. ASSUME NEW x \in T
       PROVE  (\E j \in DOMAIN b : b[j] = x) \/ (\E k \in DOMAIN q : q[k] = x)
  <2>1. CASE \E k \in DOMAIN r : r[k] = x
    <3>1. PICK k \in DOMAIN r : r[k] = x
      BY <2>1
    <3>2. k \in DOMAIN q /\ q[k] = x
      BY <1>6, <1>7, <3>1
    <3> QED
      BY <3>2
  <2>2. CASE \E j \in DOMAIN s : s[j] = x
    <3>1. PICK j \in DOMAIN s : s[j] = x
      BY <2>2
    <3>2. CASE j \in K
      <4>1. PICK n \in 1 .. Len(a) : p[n] = j
        BY <1>3, <3>2
      <4>2. a[n] = x
        BY <1>3, <3>1, <4>1
      <4>3. n + Len(r) \in 1 .. Len(r) + Len(a) /\ ~(n + Len(r) <= Len(r)) /\ (n + Len(r)) - Len(r) = n
        BY <1>7, <4>1
      <4>4. n + Len(r) \in DOMAIN q /\ q[n + Len(r)] = x
        BY <1>6, <1>7, <4>2, <4>3
      <4> QED
        BY <4>4
    <3>3. CASE j \notin K
      <4>1. j \in L
        BY <3>1, <3>3 DEF L
      <4>2. PICK n \in 1 .. Len(b) : o[n] = j
        BY <1>5, <4>1
      <4>3. b[n] = x /\ n \in DOMAIN b
        BY <1>5, <1>7, <3>1, <4>2
      <4> QED
        BY <4>3
    <3> QED
      BY <3>2, <3>3
  <2> QED
    BY <2>1, <2>2 DEF EachOnce
<1>16. EachOnce(b, q, T)
  BY <1>7, <1>9, <1>13, <1>14, <1>15 DEF EachOnce
<1> QED
  BY <1>16 DEF a, b, q, L

LEMMA CollectStep == OInv /\ Collect => OInv'
<1> SUFFICES ASSUME OInv, Collect PROVE OInv'
  OBVIOUS
<1> DEFINE G == GoodPlaces
           L == DOMAIN clids \ G
           a == At(clids, G)
           b == At(clids, L)
           n == Len(clustering)
<1>1. /\ pc = "collect" /\ res' = res \o a /\ clids' = b /\ NextLevel
      /\ job' = job /\ graph' = graph /\ clustering' = clustering
  BY DEF Collect
<1>2. TypesInv /\ job.tool = "up" /\ job.order = "community" /\ Chain(clustering)
  BY <1>1 DEF OInv, PhaseInv
<1>3. /\ i \in 1 .. n /\ level = Composite(clustering)[i]
      /\ \A id \in Ids : \A w, x \in VarsOf(id) :
           Composite(clustering)[n][w] = Composite(clustering)[n][x]
  BY <1>1 DEF OInv, CollectInv
<1>4. EachOnce(clids, res, Ids)
  BY <1>1, <1>2 DEF OInv, OnceInv
<1>5. /\ BySize(clids) /\ ByStage
      /\ \A j \in DOMAIN clids : \A k \in 1 .. i - 1 : ~Inside(clids[j], k)
      /\ \A j \in DOMAIN res : Stage(res[j]) \in 1 .. i - 1
  BY <1>1, <1>2 DEF OInv, SortInv
<1>6. job \in Jobs /\ Ids' = Ids /\ \A id : VarsOf(id)' = VarsOf(id)
  BY <1>1, <1>2 DEF TypesInv, Ids, VarsOf
<1>7. /\ clids \in Seq(Ids) /\ res \in Seq(Ids) /\ clustering \in Seq(Maps)
      /\ i \in Nat \ {0} /\ n \in Nat /\ DOMAIN clustering = 1 .. n
  BY <1>2, LenProperties DEF TypesInv
<1>8. G \in SUBSET (DOMAIN clids) /\ L \in SUBSET (DOMAIN clids)
  BY DEF GoodPlaces
<1>9. \A k \in DOMAIN clids : clids[k] \in Ids
  BY <1>7, LenProperties, ElementOfSeq
<1>10. \A k \in DOMAIN clids : k \in G <=> Inside(clids[k], i)
  <2>1. SUFFICES ASSUME NEW k \in DOMAIN clids PROVE k \in G <=> Inside(clids[k], i)
    OBVIOUS
  <2>2. k \in G <=> Good(clids[k])
    BY DEF GoodPlaces
  <2>3. Good(clids[k]) <=>
          \A w, x \in VarsOf(clids[k]) : Composite(clustering)[i][w] = Composite(clustering)[i][x]
    BY <1>3 DEF Good
  <2> QED
    BY <1>6, <1>9, <2>2, <2>3, InsideFacts
<1> HIDE DEF G
<1>11. a \in Seq(Ids) /\ b \in Seq(Ids) /\ Len(a) \in Nat /\ Len(b) = Cardinality(L)
       /\ DOMAIN a = 1 .. Len(a) /\ DOMAIN b = 1 .. Len(b)
  <2>1. a \in Seq(Ids)
    BY <1>7, <1>8, AtFacts
  <2>2. b \in Seq(Ids) /\ Len(b) = Cardinality(L)
    BY <1>7, <1>8, AtFacts
  <2> HIDE DEF a, b
  <2> QED
    BY <2>1, <2>2, LenProperties
<1>12. EachOnce(b, res \o a, Ids)
  BY <1>4, <1>7, <1>8, MovedOnce
<1>13. PICK p : Picks(clids, G, p)
  BY <1>7, <1>8, AtFacts
<1>14. PICK o : Picks(clids, L, o)
  BY <1>7, <1>8, AtFacts
<1>15. /\ \A m \in DOMAIN a : p[m] \in G /\ a[m] = clids[p[m]]
       /\ \A j, k \in DOMAIN a : j < k => p[j] < p[k]
  BY <1>11, <1>13 DEF Picks
<1>16. /\ \A m \in DOMAIN b : o[m] \in L /\ b[m] = clids[o[m]]
       /\ \A j, k \in DOMAIN b : j < k => o[j] < o[k]
  BY <1>11, <1>14 DEF Picks
<1> HIDE DEF L, a, b
<1>17. \A m \in DOMAIN a : Stage(a[m]) = i
  <2>1. SUFFICES ASSUME NEW m \in DOMAIN a PROVE Stage(a[m]) = i
    OBVIOUS
  <2>2. p[m] \in DOMAIN clids /\ p[m] \in G /\ a[m] = clids[p[m]] /\ a[m] \in Ids
    BY <1>8, <1>9, <1>15
  <2>3. Inside(a[m], i) /\ \A k \in 1 .. i - 1 : ~Inside(a[m], k)
    BY <1>5, <1>10, <2>2
  <2>4. i \in DOMAIN clustering
    BY <1>3, <1>7
  <2> QED
    BY <1>2, <1>6, <1>7, <2>2, <2>3, <2>4, StageFacts
<1>18. \A j, k \in DOMAIN a : j < k => Size(a[j]) <= Size(a[k])
  <2>1. SUFFICES ASSUME NEW j \in DOMAIN a, NEW k \in DOMAIN a, j < k PROVE Size(a[j]) <= Size(a[k])
    OBVIOUS
  <2>2. p[j] \in DOMAIN clids /\ p[k] \in DOMAIN clids /\ p[j] < p[k]
    BY <1>8, <1>15, <2>1
  <2> QED
    BY <1>5, <1>15, <2>2 DEF BySize
<1>19. \A j, k \in DOMAIN b : j < k => Size(b[j]) <= Size(b[k])
  <2>1. SUFFICES ASSUME NEW j \in DOMAIN b, NEW k \in DOMAIN b, j < k PROVE Size(b[j]) <= Size(b[k])
    OBVIOUS
  <2>2. o[j] \in DOMAIN clids /\ o[k] \in DOMAIN clids /\ o[j] < o[k]
    BY <1>8, <1>16, <2>1
  <2> QED
    BY <1>5, <1>16, <2>2 DEF BySize
<1>20. \A j \in DOMAIN b : \A k \in 1 .. i : ~Inside(b[j], k)
  <2>1. SUFFICES ASSUME NEW j \in DOMAIN b, NEW k \in 1 .. i PROVE ~Inside(b[j], k)
    OBVIOUS
  <2>2. o[j] \in DOMAIN clids /\ o[j] \notin G /\ b[j] = clids[o[j]]
    BY <1>8, <1>16 DEF L
  <2>3. CASE k = i
    BY <1>10, <2>2, <2>3
  <2>4. CASE k # i
    <3>1. k \in 1 .. i - 1
      BY <1>7, <2>4
    <3> QED
      BY <1>5, <2>2, <3>1
  <2> QED
    BY <2>3, <2>4
<1> DEFINE q == res \o a
<1>21. /\ q \in Seq(Ids) /\ Len(q) = Len(res) + Len(a)
       /\ \A j \in 1 .. Len(res) + Len(a) : q[j] = IF j <= Len(res) THEN res[j] ELSE a[j - Len(res)]
  BY <1>7, <1>11, ConcatProperties
<1>22. Len(res) \in Nat /\ DOMAIN res = 1 .. Len(res) /\ DOMAIN q = 1 .. Len(q)
  BY <1>7, <1>21, LenProperties
<1> HIDE DEF q
<1>23. ASSUME NEW j \in DOMAIN q
       PROVE  \/ j \in DOMAIN res /\ q[j] = res[j] /\ Stage(q[j]) \in 1 .. i - 1
              \/ /\ j > Len(res) /\ j - Len(res) \in DOMAIN a /\ q[j] = a[j - Len(res)]
                 /\ Stage(q[j]) = i
  <2>1. j \in 1 .. Len(res) + Len(a)
    BY <1>21, <1>22
  <2>2. CASE j <= Len(res)
    <3>1. j \in DOMAIN res /\ q[j] = res[j]
      BY <1>21, <1>22, <2>1, <2>2
    <3> QED
      BY <1>5, <3>1
  <2>3. CASE ~(j <= Len(res))
    <3>1. j > Len(res) /\ j - Len(res) \in DOMAIN a
      BY <1>11, <1>22, <2>1, <2>3
    <3>2. q[j] = a[j - Len(res)]
      BY <1>21, <2>1, <2>3
    <3> QED
      BY <1>17, <3>1, <3>2
  <2> QED
    BY <2>2, <2>3
<1>24. \A j, k \in DOMAIN q : j < k =>
          \/ Stage(q[j]) < Stage(q[k])
          \/ Stage(q[j]) = Stage(q[k]) /\ Size(q[j]) <= Size(q[k])
  <2>1. SUFFICES ASSUME NEW j \in DOMAIN q, NEW k \in DOMAIN q, j < k
                 PROVE  \/ Stage(q[j]) < Stage(q[k])
                        \/ Stage(q[j]) = Stage(q[k]) /\ Size(q[j]) <= Size(q[k])
    OBVIOUS
  <2>2. j \in Int /\ k \in Int
    BY <1>22
  <2>3. CASE j \in DOMAIN res /\ k \in DOMAIN res /\ q[j] = res[j] /\ q[k] = res[k]
    BY <1>5, <2>1, <2>3 DEF ByStage
  <2>4. CASE Stage(q[j]) \in 1 .. i - 1 /\ Stage(q[k]) = i
    BY <1>7, <2>4
  <2>5. CASE /\ j - Len(res) \in DOMAIN a /\ q[j] = a[j - Len(res)] /\ Stage(q[j]) = i
             /\ k - Len(res) \in DOMAIN a /\ q[k] = a[k - Len(res)] /\ Stage(q[k]) = i
    <3>1. j - Len(res) < k - Len(res)
      BY <1>22, <2>1, <2>2
    <3>2. Size(a[j - Len(res)]) <= Size(a[k - Len(res)])
      BY <1>18, <2>5, <3>1
    <3> QED
      BY <2>5, <3>2
  <2>6. ~(j > Len(res) /\ k \in DOMAIN res)
    BY <1>22, <2>1
  <2> QED
    BY <1>23, <2>3, <2>4, <2>5, <2>6
<1>25. res' = q /\ q \in Seq(Ids) /\ EachOnce(b, q, Ids)
  BY <1>1, <1>12, <1>21 DEF q
<1>26. ByStage'
  <2>1. \A id : Stage(id)' = Stage(id) /\ Size(id)' = Size(id)
    BY <1>1, StageKept
  <2> QED
    BY <1>24, <1>25, <2>1 DEF ByStage
<1>27. BySize(clids)'
  <2>1. \A id : Size(id)' = Size(id)
    BY <1>1, StageKept
  <2> QED
    BY <1>1, <1>19, <2>1 DEF BySize
<1>28. CASE i < n
  <2>1. /\ i' = i + 1 /\ pc' = pc
        /\ level' = [w \in Vars |-> clustering[i + 1][level[w]]]
    BY <1>1, <1>28 DEF NextLevel
  <2>2. i \in 1 .. n - 1 /\ i + 1 \in 1 .. n
    BY <1>3, <1>7, <1>28
  <2>3. level' = Composite(clustering)[i + 1]
    BY <1>2, <1>3, <1>7, <2>1, <2>2, ChainFacts
  <2>4. TypesInv'
    <3>1. i' \in Nat \ {0} /\ i' <= Len(clustering')
      BY <1>1, <1>7, <2>1, <2>2
    <3> QED
      BY <1>1, <1>2, <1>6, <1>11, <1>25, <2>1, <3>1 DEF TypesInv
  <2>5. PhaseInv' /\ GrowInv'
    BY <1>1, <1>2, <2>1 DEF PhaseInv, GrowInv
  <2>6. CollectInv'
    <3>1. \A id \in Ids' : \A w, x \in VarsOf(id)' :
            Composite(clustering)[n][w] = Composite(clustering)[n][x]
      <4>1. SUFFICES ASSUME NEW id \in Ids', NEW w \in VarsOf(id)', NEW x \in VarsOf(id)'
                     PROVE  Composite(clustering)[n][w] = Composite(clustering)[n][x]
        OBVIOUS
      <4>2. id \in Ids /\ w \in VarsOf(id) /\ x \in VarsOf(id)
        BY <1>6
      <4> QED
        BY <1>3, <4>2
    <3> QED
      BY <1>1, <2>1, <2>2, <2>3, <3>1 DEF CollectInv
  <2>7. OnceInv'
    BY <1>1, <1>6, <1>25, <2>1 DEF OnceInv
  <2>8. SortInv'
    <3>0. i' - 1 = i /\ clids' = b /\ res' = q
      BY <1>1, <1>7, <1>25, <2>1
    <3>1. (\A j \in DOMAIN clids : \A k \in 1 .. i - 1 : ~Inside(clids[j], k))'
      <4>2. \A id, k : Inside(id, k)' <=> Inside(id, k)
        BY <1>1, StageKept
      <4> QED
        BY <1>20, <3>0, <4>2
    <3>2. (\A j \in DOMAIN res : Stage(res[j]) \in 1 .. i - 1)'
      <4>2. \A id : Stage(id)' = Stage(id)
        BY <1>1, StageKept
      <4>3. \A j \in DOMAIN q : Stage(q[j]) \in 1 .. i
        BY <1>7, <1>23
      <4> QED
        BY <3>0, <4>2, <4>3
    <3> QED
      BY <1>26, <1>27, <3>1, <3>2 DEF SortInv
  <2> QED
    BY <2>4, <2>5, <2>6, <2>7, <2>8 DEF OInv
<1>29. CASE ~(i < n)
  <2>1. i' = i /\ pc' = "ordered" /\ level' = level
    BY <1>1, <1>29 DEF NextLevel
  <2>2. i = n
    <3>1. i \in 1 .. n
      BY <1>3
    <3>2. i \in Int /\ n \in Int
      BY <1>7
    <3> HIDE DEF n
    <3> QED
      BY <1>29, <3>1, <3>2
  <2>3. L = {}
    <3>1. \A k \in DOMAIN clids : Inside(clids[k], i)
      BY <1>3, <1>6, <1>9, <2>2, InsideFacts
    <3> QED
      BY <1>10, <3>1 DEF L
  <2>4. clids' = <<>>
    <3>1. Len(b) = 0
      BY <1>11, <2>3, FS_EmptySet
    <3> QED
      BY <1>1, <1>11, <3>1, EmptySeq
  <2>5. TypesInv'
    BY <1>1, <1>2, <1>6, <1>11, <1>25, <2>1 DEF TypesInv
  <2>6. PhaseInv' /\ GrowInv' /\ CollectInv'
    BY <1>1, <1>2, <2>1 DEF PhaseInv, GrowInv, CollectInv
  <2>7. OnceInv'
    BY <1>1, <1>6, <1>25, <2>1, <2>4 DEF OnceInv
  <2>8. SortInv'
    BY <1>26, <2>1 DEF SortInv
  <2> QED
    BY <2>5, <2>6, <2>7, <2>8 DEF OInv
<1> QED
  BY <1>28, <1>29

\* The tools cut and write what is ordered.
LEMMA LaterStep ==
  ASSUME OInv, UNCHANGED <<job, graph, clustering, i, level, clids, res>>,
         \/ pc' = pc
         \/ pc \in {"ordered", "ign", "smp"} /\ pc' \in {"ign", "smp", "done"}
         \/ pc = "start" /\ job.tool = "smp" /\ pc' = "done"
  PROVE  OInv'
<1>1. /\ job' = job /\ graph' = graph /\ clustering' = clustering /\ i' = i
      /\ level' = level /\ clids' = clids /\ res' = res
  OBVIOUS
<1>2. /\ Ids' = Ids /\ \A id : VarsOf(id)' = VarsOf(id)
      /\ \A id : Stage(id)' = Stage(id) /\ Size(id)' = Size(id)
      /\ \A id, k : Inside(id, k)' <=> Inside(id, k)
  BY <1>1, StageKept DEF Ids, VarsOf
<1>3. TypesInv'
  BY <1>1, <1>2 DEF OInv, TypesInv
<1>4. ByStage' <=> ByStage
  BY <1>1, <1>2 DEF ByStage
<1>5. BySize(clids)' <=> BySize(clids)
  BY <1>1, <1>2 DEF BySize
<1>6. CASE pc' = pc
  <2>1. PhaseInv' /\ OnceInv'
    BY <1>1, <1>2, <1>6 DEF OInv, PhaseInv, OnceInv
  <2>2. Covers(clustering, graph)' <=> Covers(clustering, graph)
    BY <1>1, <1>2 DEF Covers
  <2>3. GrowInv'
    BY <1>1, <1>6, <2>2 DEF OInv, GrowInv
  <2>4. CollectInv'
    BY <1>1, <1>2, <1>6 DEF OInv, CollectInv
  <2>5. SortInv'
    BY <1>1, <1>2, <1>4, <1>5, <1>6 DEF OInv, SortInv
  <2> QED
    BY <1>3, <2>1, <2>3, <2>4, <2>5 DEF OInv
<1>7. CASE pc \in {"ordered", "ign", "smp"} /\ pc' \in {"ign", "smp", "done"}
  <2>1. PhaseInv' /\ OnceInv'
    BY <1>1, <1>2, <1>7 DEF OInv, PhaseInv, OnceInv
  <2>2. GrowInv' /\ CollectInv'
    BY <1>7 DEF GrowInv, CollectInv
  <2>3. SortInv'
    BY <1>1, <1>4, <1>7 DEF OInv, SortInv
  <2> QED
    BY <1>3, <2>1, <2>2, <2>3 DEF OInv
<1>8. CASE pc = "start" /\ job.tool = "smp" /\ pc' = "done"
  <2>1. PhaseInv' /\ OnceInv'
    BY <1>1, <1>2, <1>8 DEF OInv, PhaseInv, OnceInv
  <2>2. GrowInv' /\ CollectInv'
    BY <1>8 DEF GrowInv, CollectInv
  <2>3. SortInv'
    BY <1>1, <1>4, <1>8 DEF OInv, SortInv
  <2> QED
    BY <1>3, <2>1, <2>2, <2>3 DEF OInv
<1> QED
  BY <1>6, <1>7, <1>8
-----------------------------------------------------------------------------
(* The orderings are exact *)

LEMMA ExactHolds == OInv => OrderingExact
<1> SUFFICES ASSUME OInv PROVE OrderingExact
  OBVIOUS
<1>1. TypesInv /\ PhaseInv /\ OnceInv /\ SortInv
  BY DEF OInv
<1>2. /\ job \in Jobs
      /\ pc \in {"start", "cluster", "collect", "ordered", "ign", "smp", "done"}
      /\ GraphOK(graph) /\ clustering \in Seq(Maps) /\ Len(clustering) <= Max({1, NbVars})
      /\ i \in Nat \ {0} /\ (i = 1 \/ i <= Len(clustering))
      /\ clids \in Seq(Ids) /\ res \in Seq(Ids)
  BY <1>1 DEF TypesInv
<1>3. DOMAIN clustering = 1 .. Len(clustering) /\ Len(clustering) \in Nat
  BY <1>2, LenProperties
<1>4. OrderingTypeOK
  <2>1. ASSUME NEW k \in DOMAIN clustering, NEW n \in DOMAIN clustering[k]
        PROVE  clustering[k][n] \in Vars
    <3>1. clustering[k] \in Maps
      BY <1>2, <1>3, ElementOfSeq
    <3>2. PICK S \in SUBSET Vars : clustering[k] \in [S -> Vars]
      BY <3>1 DEF Maps
    <3> QED
      BY <3>2
  <2>2. i \in 1 .. NbVars + 1
    <3>1. Max({1, NbVars}) = IF 1 >= NbVars THEN 1 ELSE NbVars
      BY OrderingAssumption, MaxPair
    <3> HIDE DEF OrderingAssumption
    <3>2. NbVars \in Nat
      BY OrderingAssumption DEF OrderingAssumption
    <3> QED
      BY <1>2, <1>3, <3>1, <3>2
  <2>3. graph.nodes \subseteq Vars /\ graph.edges \subseteq Pairs(graph.nodes)
    BY <1>2 DEF GraphOK
  <2> QED
    BY <1>2, <2>1, <2>2, <2>3 DEF OrderingTypeOK
<1>5. ASSUME pc # "start", job.tool = "up"
      PROVE  /\ Len(clids) + Len(res) = Cardinality(Ids)
             /\ Range(clids) \cup Range(res) = Ids
             /\ pc \notin {"cluster", "collect"} => clids = <<>>
  <2>1. EachOnce(clids, res, Ids) /\ (pc \notin {"cluster", "collect"} => clids = <<>>)
    BY <1>1, <1>5 DEF OnceInv
  <2>2. Len(clids) + Len(res) = Cardinality(Ids)
    BY <1>2, <2>1, OnceCount
  <2>3. Range(clids) \cup Range(res) = Ids
    <3>1. Range(clids) \subseteq Ids /\ Range(res) \subseteq Ids
      BY <1>2, LenProperties, ElementOfSeq DEF Range
    <3>2. \A x \in Ids : x \in Range(clids) \/ x \in Range(res)
      BY <2>1 DEF EachOnce, Range
    <3> QED
      BY <3>1, <3>2
  <2> QED
    BY <2>1, <2>2, <2>3
<1>6. job.order # "random" => ByStage
  BY <1>1 DEF SortInv
<1> QED
  BY <1>2, <1>4, <1>5, <1>6 DEF OrderingExact, ByStage

LEMMA OrderingStepOInv == OInv /\ OrderingStep => OInv'
BY OrderAtOnceStep, InitialCoarsenStep, CoarsenGraphStep, ClusteredStep, CollectStep
DEF OrderingStep

-----------------------------------------------------------------------------
(* The switches of the clauses, and the cut *)

\* What set_active on every clause of the order leaves.
Wanted(On) == [id \in Ids |-> IF id \in Range(res) THEN id \in On ELSE active[id]]

Chosen(b) == {id \in Ids : b[id]}

LEMMA SwitchFacts ==
  ASSUME IsFiniteSet(Ids), active \in [Ids -> BOOLEAN], nbActive = Cardinality(Chosen(active)),
         NEW On, Switch(On)
  PROVE  /\ active' = Wanted(On) /\ active' \in [Ids -> BOOLEAN]
         /\ nbActive' = Cardinality(Chosen(active'))
<1> DEFINE W == Wanted(On)
           A == Chosen(active)
           B == Chosen(W)
           C == {id \in Ids : active[id] # W[id] /\ W[id] = TRUE}
           D == {id \in Ids : active[id] # W[id] /\ W[id] = FALSE}
<1>1. active' = W /\ nbActive' = nbActive + Cardinality(C) - Cardinality(D)
  BY DEF Switch, Wanted
<1>2. W \in [Ids -> BOOLEAN]
  <2> DEFINE Asked(id) == id \in On
             Value(id) == IF id \in Range(res) THEN Asked(id) ELSE active[id]
  <2>1. \A id \in Ids : Asked(id) \in BOOLEAN
    BY SMT
  <2>2. W = [id \in Ids |-> Value(id)]
    BY DEF Wanted
  <2> HIDE DEF Asked, W
  <2>3. \A id \in Ids : Value(id) \in BOOLEAN
    BY <2>1
  <2> HIDE DEF Value
  <2> QED
    BY <2>2, <2>3
<1> HIDE DEF W
<1>3. C = B \ A /\ D = A \ B
  BY <1>2 DEF Chosen
<1>4. A \subseteq Ids /\ B \subseteq Ids
  BY DEF Chosen
<1> HIDE DEF A, B, C, D
<1>5. IsFiniteSet(A) /\ IsFiniteSet(B) /\ Cardinality(A) \in Nat /\ Cardinality(B) \in Nat
  BY <1>4, FS_Subset, FS_CardinalityType
<1>6. IsFiniteSet(A \cap B) /\ Cardinality(A \cap B) \in Nat
  BY <1>5, FS_Intersection, FS_CardinalityType
<1>7. /\ Cardinality(C) = Cardinality(B) - Cardinality(B \cap A)
      /\ Cardinality(D) = Cardinality(A) - Cardinality(A \cap B)
  BY <1>3, <1>5, FS_Difference
<1>8. B \cap A = A \cap B
  OBVIOUS
<1>10. Cardinality(B \cap A) = Cardinality(A \cap B)
  BY <1>8
<1>9. nbActive' = Cardinality(B)
  <2>1. nbActive = Cardinality(A)
    BY DEF A
  <2> QED
    BY <1>1, <1>5, <1>6, <1>7, <1>10, <2>1
<1> QED
  BY <1>1, <1>2, <1>9 DEF B, W

\* In an order of all clauses every clause has one place.
LEMMA PositionFacts ==
  ASSUME res \in Seq(Ids), EachOnce(<<>>, res, Ids)
  PROVE  /\ \A id \in Ids : Position(id) \in DOMAIN res /\ res[Position(id)] = id
         /\ \A k \in DOMAIN res : res[k] \in Ids /\ Position(res[k]) = k
         /\ Range(res) = Ids
<1>1. \A k \in DOMAIN res : res[k] \in Ids
  BY LenProperties, ElementOfSeq
<1>2. ASSUME NEW id \in Ids PROVE Position(id) \in DOMAIN res /\ res[Position(id)] = id
  <2>1. \E k \in DOMAIN res : res[k] = id
    BY DEF EachOnce
  <2> QED
    BY <2>1 DEF Position
<1>3. ASSUME NEW k \in DOMAIN res PROVE Position(res[k]) = k
  <2>1. Position(res[k]) \in DOMAIN res /\ res[Position(res[k])] = res[k]
    BY <1>1, <1>2
  <2> QED
    BY <2>1 DEF EachOnce
<1>4. Range(res) = Ids
  BY <1>1, <1>2 DEF Range
<1> QED
  BY <1>1, <1>2, <1>3, <1>4

Kept == {id \in Ids : Position(id) <= Low}

\* How many clauses come after a place.
LEMMA AfterCount ==
  ASSUME res \in Seq(Ids), EachOnce(<<>>, res, Ids), NEW n \in Nat
  PROVE  Cardinality({id \in Ids : ~(Position(id) <= n)}) = IF n >= Len(res) THEN 0 ELSE Len(res) - n
<1> DEFINE L == Len(res)
           A == {id \in Ids : ~(Position(id) <= n)}
           K == (n + 1) .. L
           f == [k \in K |-> res[k]]
<1>1. L \in Nat /\ DOMAIN res = 1 .. L
  BY LenProperties
<1>2. /\ \A id \in Ids : Position(id) \in 1 .. L /\ res[Position(id)] = id
      /\ \A k \in 1 .. L : res[k] \in Ids /\ Position(res[k]) = k
  BY <1>1, PositionFacts
<1> HIDE DEF L
<1>3. \A k \in K : k \in 1 .. L /\ ~(k <= n)
  BY <1>1
<1>4. f \in Bijection(K, A)
  <2>1. \A k \in K : res[k] \in A
    BY <1>2, <1>3
  <2>2. f \in [K -> A]
    BY <2>1
  <2>3. \A j, k \in K : f[j] = f[k] => j = k
    BY <1>2, <1>3
  <2>4. ASSUME NEW id \in A PROVE \E k \in K : f[k] = id
    <3>1. Position(id) \in K
      BY <1>1, <1>2
    <3> QED
      BY <1>2, <3>1
  <2> QED
    BY <2>2, <2>3, <2>4 DEF Bijection, Injection, Surjection, IsInjective
<1>5. IsFiniteSet(K) /\ Cardinality(K) = IF n + 1 > L THEN 0 ELSE L - (n + 1) + 1
  BY <1>1, FS_Interval
<1> HIDE DEF K, A, f
<1>6. Cardinality(A) = Cardinality(K)
  BY <1>4, <1>5, FS_Bijection DEF ExistsBijection
<1>7. Cardinality(A) = IF n >= L THEN 0 ELSE L - n
  BY <1>1, <1>5, <1>6
<1> QED
  BY <1>7 DEF A, L

\* The cut removes as many clauses as Removed says, at every edge of the option.
LEMMA CutArithmetic ==
  ASSUME NEW L \in Nat, NEW q \in Int
  PROVE  LET low == IF q < 4 THEN (4 * L - (q * L - 4)) \div 4
                    ELSE IF q >= 4 * L THEN 0 ELSE (4 * L - q) \div 4
             asked == IF q < 4 THEN Ceiling(q * L) - 1 ELSE Ceiling(q)
         IN  /\ low \in Nat
             /\ (IF low >= L THEN 0 ELSE L - low) = Min({L, Max({0, asked})})
<1> DEFINE p == q * L
           low == IF q < 4 THEN (4 * L - (p - 4)) \div 4
                  ELSE IF q >= 4 * L THEN 0 ELSE (4 * L - q) \div 4
           asked == IF q < 4 THEN (p + 3) \div 4 - 1 ELSE (q + 3) \div 4
<1>1. p \in Int
  OBVIOUS
<1>2. q < 4 => p <= 3 * L
  <2>1. ASSUME q < 4 PROVE p <= 3 * L
    <3>1. CASE q = 3
      BY <3>1
    <3>2. CASE q = 2
      BY <3>2
    <3>3. CASE q = 1
      BY <3>3
    <3>4. CASE q <= 0
      <4>1. p <= 0
        BY <3>4
      <4> QED
        BY <4>1
    <3> QED
      BY <2>1, <3>1, <3>2, <3>3, <3>4
  <2> QED
    BY <2>1
<1> HIDE DEF p
<1>3. low \in Nat
  BY <1>1, <1>2
<1>4. asked \in Int
  BY <1>1
<1>5. (IF low >= L THEN 0 ELSE L - low) = IF asked <= 0 THEN 0 ELSE IF asked <= L THEN asked ELSE L
  BY <1>1, <1>2
<1> HIDE DEF asked, low
<1>6. Max({0, asked}) = IF 0 >= asked THEN 0 ELSE asked
  BY <1>4, MaxPair
<1>7. Max({0, asked}) \in Int
  BY <1>4, <1>6
<1>8. Min({L, Max({0, asked})}) = IF L <= Max({0, asked}) THEN L ELSE Max({0, asked})
  BY <1>7, MinPair
<1>9. (IF low >= L THEN 0 ELSE L - low) = Min({L, Max({0, asked})})
  BY <1>4, <1>5, <1>6, <1>8
<1> QED
  BY <1>3, <1>9 DEF p, low, asked, Ceiling

LEMMA CutExact ==
  ASSUME job \in Jobs, res \in Seq(Ids), EachOnce(<<>>, res, Ids)
  PROVE  Low \in Nat /\ Cardinality(Ids \ Kept) = Removed
<1>1. Len(<<>>) = 0 /\ <<>> \in Seq(Ids)
  OBVIOUS
<1>2. Len(res) = Cardinality(Ids) /\ Len(res) \in Nat
  <2>1. Len(<<>>) + Len(res) = Cardinality(Ids)
    BY <1>1, OnceCount
  <2>2. Len(res) \in Nat
    BY LenProperties
  <2> QED
    BY <1>1, <2>1, <2>2
<1>3. job.quarters \in Int
  BY JobFacts
<1>4. Low \in Nat /\ (IF Low >= Len(res) THEN 0 ELSE Len(res) - Low) = Removed
  BY <1>2, <1>3, CutArithmetic DEF Low, Removed
<1>5. Ids \ Kept = {id \in Ids : ~(Position(id) <= Low)}
  BY DEF Kept
<1> QED
  BY <1>4, <1>5, AfterCount

-----------------------------------------------------------------------------
(* The invariant of the two tools *)

SwitchInv ==
  /\ active \in [Ids -> BOOLEAN]
  /\ nbActive = Cardinality(Chosen(active))
  /\ pc = "start" => Chosen(active) = Ids

HeaderInv == \A f \in DOMAIN files : files[f].header = Cardinality(files[f].clauses)

Holds(name, S) == name \in DOMAIN files /\ files[name].clauses = S
SplitInv ==
  /\ job.tool = "up" /\ pc \in {"ign", "smp", "done"} => Holds("up", Kept)
  /\ job.tool = "up" /\ pc \in {"smp", "done"} => Holds("ign", Ids \ Kept)
  /\ pc = "done" => Holds("smp", Ids)

UInv == OInv /\ SwitchInv /\ HeaderInv /\ SplitInv

LEMMA InitUInv == Init => UInv
<1> SUFFICES ASSUME Init PROVE UInv
  OBVIOUS
<1>1. OInv
  BY InitOInv DEF Init
<1>2. /\ active = [id \in Ids |-> TRUE] /\ nbActive = Cardinality(Ids) /\ files = <<>>
      /\ pc = "start"
  BY DEF Init, OrderingInit
<1>3. Chosen(active) = Ids
  BY <1>2 DEF Chosen
<1>4. DOMAIN files = {}
  BY <1>2
<1> QED
  BY <1>1, <1>2, <1>3, <1>4 DEF UInv, SwitchInv, HeaderInv, SplitInv

LEMMA OrderStepUInv == UInv /\ Order => UInv'
<1> SUFFICES ASSUME UInv, Order PROVE UInv'
  OBVIOUS
<1>1. OrderingStep /\ active' = active /\ nbActive' = nbActive /\ files' = files
  BY DEF Order
<1>2. OInv'
  BY <1>1, OrderingStepOInv DEF UInv
<1>3. job' = job /\ pc' \notin {"start", "ign", "smp", "done"}
  <2>1. CASE OrderAtOnce
    BY <2>1 DEF OrderAtOnce
  <2>2. CASE InitialCoarsen
    BY <2>2 DEF InitialCoarsen
  <2>3. CASE CoarsenGraph
    BY <2>3 DEF CoarsenGraph
  <2>4. CASE Clustered
    BY <2>4 DEF Clustered
  <2>5. CASE Collect
    BY <2>5 DEF Collect, NextLevel
  <2> QED
    BY <1>1, <2>1, <2>2, <2>3, <2>4, <2>5 DEF OrderingStep
<1>4. Ids' = Ids
  BY <1>3 DEF Ids
<1>5. SwitchInv'
  BY <1>1, <1>3, <1>4 DEF UInv, SwitchInv, Chosen
<1>6. HeaderInv'
  BY <1>1 DEF UInv, HeaderInv
<1>7. SplitInv'
  BY <1>3 DEF SplitInv
<1> QED
  BY <1>2, <1>5, <1>6, <1>7 DEF UInv

\* A file has the clauses that are switched on, and the others are left as they are.
LEMMA WriteFacts ==
  ASSUME UInv, job' = job, clustering' = clustering, res' = res, pc' # "start",
         NEW On, Switch(On), NEW name, Write(name)
  PROVE  /\ SwitchInv' /\ HeaderInv'
         /\ Kept' = Kept /\ Ids' = Ids
         /\ name \in DOMAIN files' /\ files'[name].clauses = Chosen(Wanted(On))
         /\ \A f \in DOMAIN files : f # name => f \in DOMAIN files' /\ files'[f] = files[f]
<1>1. job \in Jobs /\ Ids' = Ids
  BY DEF UInv, OInv, TypesInv, Ids
<1>2. IsFiniteSet(Ids)
  BY <1>1, JobFacts
<1>3. /\ active' = Wanted(On) /\ active' \in [Ids -> BOOLEAN]
      /\ nbActive' = Cardinality(Chosen(active'))
  BY <1>2, SwitchFacts DEF UInv, SwitchInv
<1>4. Chosen(active)' = Chosen(active')
  BY <1>1 DEF Chosen
<1>5. SwitchInv'
  BY <1>1, <1>3, <1>4 DEF SwitchInv
<1>6. files' = [f \in DOMAIN files \cup {name} |->
                  IF f = name THEN [clauses |-> Chosen(active'), header |-> nbActive'] ELSE files[f]]
  BY DEF Write, Chosen
<1>7. /\ DOMAIN files' = DOMAIN files \cup {name}
      /\ files'[name] = [clauses |-> Chosen(active'), header |-> nbActive']
      /\ \A f \in DOMAIN files : f # name => files'[f] = files[f]
  BY <1>6
<1>8. HeaderInv'
  <2>1. SUFFICES ASSUME NEW f \in DOMAIN files' PROVE files'[f].header = Cardinality(files'[f].clauses)
    BY DEF HeaderInv
  <2>2. CASE f = name
    BY <1>3, <1>7, <2>2
  <2>3. CASE f # name
    <3>1. f \in DOMAIN files /\ files'[f] = files[f]
      BY <1>7, <2>1, <2>3
    <3> QED
      BY <3>1 DEF UInv, HeaderInv
  <2> QED
    BY <2>2, <2>3
<1>9. \A id : Position(id)' = Position(id)
  BY DEF Position
<1>10. Low' = Low
  BY DEF Low
<1>11. Kept' = Kept
  BY <1>1, <1>9, <1>10 DEF Kept
<1> QED
  BY <1>1, <1>3, <1>5, <1>7, <1>8, <1>11

\* Once the clauses are ordered, the order has every clause once.
LEMMA OrderedOnce ==
  ASSUME OInv, job.tool = "up", pc \in {"ordered", "ign", "smp", "done"}
  PROVE  job \in Jobs /\ res \in Seq(Ids) /\ EachOnce(<<>>, res, Ids) /\ Range(res) = Ids
<1>1. job \in Jobs /\ res \in Seq(Ids) /\ EachOnce(<<>>, res, Ids)
  <2>1. EachOnce(clids, res, Ids) /\ clids = <<>>
    BY DEF OInv, OnceInv
  <2> QED
    BY <2>1 DEF OInv, TypesInv
<1> QED
  BY <1>1, PositionFacts

LEMMA WriteUpStep == UInv /\ WriteUp => UInv'
<1> SUFFICES ASSUME UInv, WriteUp PROVE UInv'
  OBVIOUS
<1> DEFINE On == {id \in Range(res) : Position(id) <= Low}
<1>1. /\ pc = "ordered" /\ pc' = "ign" /\ Switch(On) /\ Write("up")
      /\ UNCHANGED <<job, graph, clustering, i, level, clids, res>>
  BY DEF WriteUp
<1>2. OInv'
  BY <1>1, LaterStep DEF UInv
<1> HIDE DEF On
<1>3. /\ SwitchInv' /\ HeaderInv' /\ Kept' = Kept /\ Ids' = Ids
      /\ "up" \in DOMAIN files' /\ files'["up"].clauses = Chosen(Wanted(On))
  BY <1>1, WriteFacts
<1>4. job.tool = "up" => Chosen(Wanted(On)) = Kept
  BY <1>1, OrderedOnce DEF UInv, Chosen, Wanted, Kept, On
<1>5. SplitInv'
  BY <1>1, <1>3, <1>4 DEF SplitInv, Holds
<1> QED
  BY <1>2, <1>3, <1>5 DEF UInv

LEMMA WriteIgnStep == UInv /\ WriteIgn => UInv'
<1> SUFFICES ASSUME UInv, WriteIgn PROVE UInv'
  OBVIOUS
<1> DEFINE On == {id \in Range(res) : Position(id) > Low}
<1>1. /\ pc = "ign" /\ pc' = "smp" /\ Switch(On) /\ Write("ign")
      /\ UNCHANGED <<job, graph, clustering, i, level, clids, res>>
  BY DEF WriteIgn
<1>2. OInv'
  BY <1>1, LaterStep DEF UInv
<1> HIDE DEF On
<1>3. /\ SwitchInv' /\ HeaderInv' /\ Kept' = Kept /\ Ids' = Ids
      /\ "ign" \in DOMAIN files' /\ files'["ign"].clauses = Chosen(Wanted(On))
      /\ \A f \in DOMAIN files : f # "ign" => f \in DOMAIN files' /\ files'[f] = files[f]
  BY <1>1, WriteFacts
<1>4. job.tool = "up" => Chosen(Wanted(On)) = Ids \ Kept
  <2>1. SUFFICES ASSUME job.tool = "up" PROVE Chosen(Wanted(On)) = Ids \ Kept
    OBVIOUS
  <2>2. job \in Jobs /\ res \in Seq(Ids) /\ EachOnce(<<>>, res, Ids) /\ Range(res) = Ids
    BY <1>1, <2>1, OrderedOnce DEF UInv
  <2>3. \A id \in Ids : Position(id) \in DOMAIN res
    BY <2>2, PositionFacts
  <2>4. \A id \in Ids : Position(id) \in Int
    BY <2>2, <2>3, LenProperties
  <2>5. Low \in Int
    BY <2>2, CutExact
  <2>6. \A id \in Ids : Position(id) > Low <=> ~(Position(id) <= Low)
    BY <2>4, <2>5
  <2> QED
    BY <2>2, <2>6 DEF Chosen, Wanted, Kept, On
<1>5. SplitInv'
  <2>1. SUFFICES ASSUME job.tool = "up" PROVE SplitInv'
    BY <1>1 DEF SplitInv
  <2>2. Holds("up", Kept)
    BY <1>1, <2>1 DEF UInv, SplitInv
  <2> QED
    BY <1>1, <1>3, <1>4, <2>1, <2>2 DEF SplitInv, Holds
<1> QED
  BY <1>2, <1>3, <1>5 DEF UInv

LEMMA WriteSmpStep == UInv /\ WriteSmp => UInv'
<1> SUFFICES ASSUME UInv, WriteSmp PROVE UInv'
  OBVIOUS
<1> DEFINE On == Range(res)
<1>1. /\ pc = (IF job.tool = "smp" THEN "start" ELSE "smp") /\ pc' = "done"
      /\ Switch(On) /\ Write("smp")
      /\ UNCHANGED <<job, graph, clustering, i, level, clids, res>>
  BY DEF WriteSmp
<1>2. OInv'
  BY <1>1, LaterStep DEF UInv
<1> HIDE DEF On
<1>3. /\ SwitchInv' /\ HeaderInv' /\ Kept' = Kept /\ Ids' = Ids
      /\ "smp" \in DOMAIN files' /\ files'["smp"].clauses = Chosen(Wanted(On))
      /\ \A f \in DOMAIN files : f # "smp" => f \in DOMAIN files' /\ files'[f] = files[f]
  BY <1>1, WriteFacts
<1>4. Chosen(Wanted(On)) = Ids
  <2>1. CASE job.tool = "smp"
    <3>1. res = <<>> /\ Chosen(active) = Ids
      BY <1>1, <2>1 DEF UInv, OInv, PhaseInv, SwitchInv
    <3>2. Range(res) = {}
      BY <3>1 DEF Range
    <3> QED
      BY <3>1, <3>2 DEF Chosen, Wanted
  <2>2. CASE job.tool # "smp"
    <3>1. job.tool = "up"
      BY <2>2, JobFacts DEF UInv, OInv, TypesInv
    <3>2. Range(res) = Ids
      BY <1>1, <2>2, <3>1, OrderedOnce DEF UInv
    <3> QED
      BY <3>2 DEF Chosen, Wanted, On
  <2> QED
    BY <2>1, <2>2
<1>5. SplitInv'
  <2>1. job.tool = "up" => Holds("up", Kept) /\ Holds("ign", Ids \ Kept)
    BY <1>1 DEF UInv, SplitInv
  <2> QED
    BY <1>1, <1>3, <1>4, <2>1 DEF SplitInv, Holds
<1> QED
  BY <1>2, <1>3, <1>5 DEF UInv

LEMMA UpInvariance == Spec => []UInv
<1>1. UInv /\ [Next]_vars => UInv'
  <2>1. CASE Next
    BY <2>1, OrderStepUInv, WriteUpStep, WriteIgnStep, WriteSmpStep DEF Next
  <2>2. CASE UNCHANGED vars
    <3> SUFFICES ASSUME UInv, UNCHANGED vars PROVE UInv'
      BY <2>2
    <3>1. /\ job' = job /\ pc' = pc /\ clustering' = clustering /\ res' = res
          /\ active' = active /\ nbActive' = nbActive /\ files' = files
          /\ UNCHANGED <<job, graph, clustering, i, level, clids, res>>
      BY DEF vars, orderingVars
    <3>2. OInv'
      BY <3>1, LaterStep DEF UInv
    <3>3. Ids' = Ids /\ Low' = Low /\ \A id : Position(id)' = Position(id)
      BY <3>1 DEF Ids, Low, Position
    <3>4. Kept' = Kept
      BY <3>3 DEF Kept
    <3>5. SwitchInv' /\ HeaderInv' /\ SplitInv'
      BY <3>1, <3>3, <3>4 DEF UInv, SwitchInv, HeaderInv, SplitInv, Holds, Chosen
    <3> QED
      BY <3>2, <3>5 DEF UInv
  <2> QED
    BY <2>1, <2>2
<1> QED
  BY InitUInv, <1>1, PTL DEF Spec

LEMMA SplitHolds == UInv => FilesSplit
<1> SUFFICES ASSUME UInv, pc = "done" PROVE FilesSplit
  BY DEF FilesSplit
<1>1. files["smp"].clauses = Ids /\ \A f \in DOMAIN files : files[f].header = Cardinality(files[f].clauses)
  BY DEF UInv, SplitInv, HeaderInv, Holds
<1>2. ASSUME job.tool = "up"
      PROVE  /\ files["up"].clauses \cap files["ign"].clauses = {}
             /\ files["up"].clauses \cup files["ign"].clauses = Ids
             /\ Cardinality(files["ign"].clauses) = Removed
  <2>1. files["up"].clauses = Kept /\ files["ign"].clauses = Ids \ Kept
    BY <1>2 DEF UInv, SplitInv, Holds
  <2>2. Kept \subseteq Ids
    BY DEF Kept
  <2>3. Cardinality(Ids \ Kept) = Removed
    BY <1>2, OrderedOnce, CutExact DEF UInv
  <2> QED
    BY <2>1, <2>2, <2>3
<1> QED
  BY <1>1, <1>2 DEF FilesSplit

\* Whatever partition and matchings are found, and whatever the sorts do with clauses of one
\* size, every clause is ordered exactly once, the levels are fewer than the variables, and
\* the order is by level and by size within one.  (ordering.cpp:26-150)
THEOREM OrderAlwaysExact == Spec => []OrderingExact
<1>1. UInv => OrderingExact
  BY ExactHolds DEF UInv
<1> QED
  BY <1>1, UpInvariance, PTL

\* The files that up and smp write split the formula, their headers are right, and exactly
\* the clauses Removed counts are removed, whatever the number or the share: a number is
\* met, a share below one is missed by one clause.  (up.cpp:43-87)
THEOREM ToolFilesAlwaysSplit == Spec => []FilesSplit
BY SplitHolds, UpInvariance, PTL
=============================================================================

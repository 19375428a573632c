------------------------- MODULE PathTools_proofs -------------------------
(***************************************************************************)
(* Proofs about PathTools, for every circuit, every command line and every *)
(* number of threads: what the tools have counted and kept at any moment,  *)
(* and what they have printed when they end.                               *)
(***************************************************************************)
EXTENDS PathTools, FiniteSetTheorems, NaturalsInduction, SequenceTheorems,
        WellFoundedInduction, TLAPS

-----------------------------------------------------------------------------
(* Least and greatest elements, and the elements of a sequence *)

LEMMA LeastNat ==
  ASSUME NEW S \in SUBSET Nat, S # {}
  PROVE  \E x \in S : \A y \in S : x <= y
<1>1. PICK x \in S : \A y \in S : ~ (<<y, x>> \in OpToRel(<, Nat))
  BY NatLessThanWellFounded, WFMin
<1>2. \A y \in S : ~ (y < x)
  BY <1>1 DEF OpToRel
<1> QED
  BY <1>2

LEMMA MinNat ==
  ASSUME NEW S \in SUBSET Nat, S # {}
  PROVE  Min(S) \in S /\ \A y \in S : Min(S) <= y
BY LeastNat DEF Min

LEMMA MaxPair ==
  ASSUME NEW a \in Int, NEW b \in Int
  PROVE  Max({a, b}) = IF a >= b THEN a ELSE b
<1> DEFINE S == {a, b}
           m == IF a >= b THEN a ELSE b
<1>1. m \in S /\ \A y \in S : m >= y
  OBVIOUS
<1>2. \A x \in S : (\A y \in S : x >= y) => x = m
  BY <1>1
<1> QED
  BY <1>1, <1>2 DEF Max

LEMMA GreatestNat ==
  ASSUME NEW n \in Nat, NEW S \in SUBSET (1 .. n), S # {}
  PROVE  \E x \in S : \A y \in S : y <= x
<1> DEFINE T == {n - x : x \in S}
<1>0. \A x \in S : x \in 1 .. n
  OBVIOUS
<1>1. T \in SUBSET Nat /\ T # {}
  <2>1. \A x \in S : n - x \in Nat
    BY <1>0
  <2> QED
    BY <2>1
<1>2. PICK t \in T : \A u \in T : t <= u
  BY <1>1, LeastNat
<1>3. PICK x \in S : t = n - x
  OBVIOUS
<1>4. \A y \in S : n - x <= n - y
  BY <1>2, <1>3
<1>5. x \in Nat /\ \A y \in S : y \in Nat
  BY <1>0
<1> QED
  BY <1>4, <1>5

\* A sequence without repetitions has as many elements as places.
LEMMA InjectiveCard ==
  ASSUME NEW S, NEW s \in Seq(S), IsInjective(s)
  PROVE  IsFiniteSet(Range(s)) /\ Cardinality(Range(s)) = Len(s)
<1>1. Len(s) \in Nat /\ s \in [1 .. Len(s) -> S] /\ DOMAIN s = 1 .. Len(s)
  BY LenProperties
<1>2. IsFiniteSet(1 .. Len(s)) /\ Cardinality(1 .. Len(s)) = Len(s)
  BY <1>1, FS_Interval
<1>3. s \in [1 .. Len(s) -> Range(s)]
  BY <1>1 DEF Range
<1>4. s \in Surjection(1 .. Len(s), Range(s)) /\ s \in Injection(1 .. Len(s), Range(s))
  BY <1>1, <1>3 DEF Range, Surjection, Injection
<1> QED
  BY <1>2, <1>4, FS_Surjection

LEMMA AppendRange ==
  ASSUME NEW S, NEW s \in Seq(S), NEW x \in S
  PROVE  /\ Append(s, x) \in Seq(S) /\ Len(Append(s, x)) = Len(s) + 1
         /\ Range(Append(s, x)) = Range(s) \cup {x}
         /\ IsInjective(s) /\ x \notin Range(s) => IsInjective(Append(s, x))
<1>1. /\ Append(s, x) \in Seq(S) /\ Len(Append(s, x)) = Len(s) + 1 /\ Len(s) \in Nat
      /\ \A j \in 1 .. Len(s) : Append(s, x)[j] = s[j]
      /\ Append(s, x)[Len(s) + 1] = x
      /\ DOMAIN s = 1 .. Len(s) /\ DOMAIN Append(s, x) = 1 .. Len(s) + 1
  BY AppendProperties, LenProperties
<1>2. Range(Append(s, x)) = Range(s) \cup {x}
  <2>1. 1 .. Len(s) + 1 = (1 .. Len(s)) \cup {Len(s) + 1}
    BY <1>1
  <2> QED
    BY <1>1, <2>1 DEF Range
<1>3. ASSUME IsInjective(s), x \notin Range(s) PROVE IsInjective(Append(s, x))
  <2> SUFFICES ASSUME NEW j \in 1 .. Len(s) + 1, NEW k \in 1 .. Len(s) + 1,
                      Append(s, x)[j] = Append(s, x)[k]
               PROVE  j = k
    BY <1>1 DEF IsInjective
  <2>1. \A i \in 1 .. Len(s) : s[i] # x
    BY <1>1, <1>3 DEF Range
  <2>2. (j \in 1 .. Len(s) \/ j = Len(s) + 1) /\ (k \in 1 .. Len(s) \/ k = Len(s) + 1)
    BY <1>1
  <2> QED
    BY <1>1, <1>3, <2>1, <2>2 DEF IsInjective
<1> QED
  BY <1>1, <1>2, <1>3

-----------------------------------------------------------------------------
(* Sums over a set, as the community modules define them *)

\* f is the sum of h over every subset of K.
AddsUp(f, h, K) ==
  \A s \in SUBSET K : f[s] = IF s = {} THEN 0
    ELSE h[CHOOSE x \in s : TRUE] + f[s \ {CHOOSE x \in s : TRUE}]

\* A property of finite sets that is lost by a set only when it is lost without the
\* element picked: stated for the sets T that lack it.
LEMMA NoLeastSet ==
  ASSUME NEW K, IsFiniteSet(K), NEW T \in SUBSET SUBSET K,
         \A s \in T : s # {} /\ s \ {CHOOSE x \in s : TRUE} \in T
  PROVE  T = {}
<1> DEFINE pick(s) == CHOOSE x \in s : TRUE
<1>1. \A s \in T : s # {} => pick(s) \in s
  OBVIOUS
<1>2. \A s \in T : s # {} /\ s \ {pick(s)} \in T
  OBVIOUS
<1> HIDE DEF pick
<1> SUFFICES ASSUME T # {} PROVE FALSE
  OBVIOUS
<1>3. IsWellFoundedOn(StrictSubsetOrdering(K), SUBSET K)
  BY FS_StrictSubsetOrderingWellFounded, FS_FiniteSubsetsOfFinite
<1>4. PICK s \in T : \A t \in T : ~ (<<t, s>> \in StrictSubsetOrdering(K))
  BY <1>3, WFMin
<1>5. <<s \ {pick(s)}, s>> \in StrictSubsetOrdering(K)
  BY <1>1, <1>2, <1>4 DEF StrictSubsetOrdering
<1> QED
  BY <1>2, <1>4, <1>5

LEMMA SumUnique ==
  ASSUME NEW K, IsFiniteSet(K), NEW h, NEW f, NEW g, AddsUp(f, h, K), AddsUp(g, h, K)
  PROVE  \A s \in SUBSET K : f[s] = g[s]
<1> DEFINE pick(s) == CHOOSE x \in s : TRUE
           T == {s \in SUBSET K : f[s] # g[s]}
<1>1. \A s \in SUBSET K : s # {} =>
        f[s] = h[pick(s)] + f[s \ {pick(s)}] /\ g[s] = h[pick(s)] + g[s \ {pick(s)}]
  BY DEF AddsUp
<1>2. f[{}] = 0 /\ g[{}] = 0
  BY DEF AddsUp
<1>3. \A s \in T : s # {} /\ s \ {pick(s)} \in T
  <2> HIDE DEF pick
  <2> QED
    BY <1>1, <1>2
<1>4. T = {}
  <2> HIDE DEF T
  <2>1. T \in SUBSET SUBSET K
    BY DEF T
  <2>2. \A s \in T : s # {} /\ s \ {CHOOSE x \in s : TRUE} \in T
    BY <1>3
  <2> QED
    BY <2>1, <2>2, NoLeastSet
<1> QED
  BY <1>4

\* What a sum counts: h[x] units for every x.
Units(h, S) == {u \in S \X Nat : u[2] \in 1 .. h[u[1]]}

LEMMA UnitsSplit ==
  ASSUME NEW h, NEW S, NEW R, S \cap R = {}
  PROVE  Units(h, S \cup R) = Units(h, S) \cup Units(h, R) /\ Units(h, S) \cap Units(h, R) = {}
BY DEF Units

LEMMA UnitsOne ==
  ASSUME NEW h, NEW x, h[x] \in Nat
  PROVE  IsFiniteSet(Units(h, {x})) /\ Cardinality(Units(h, {x})) = h[x]
<1> DEFINE f == [n \in 1 .. h[x] |-> <<x, n>>]
           U == Units(h, {x})
<1>0. \A u : u \in U <=> \E n \in 1 .. h[x] : u = <<x, n>>
  BY DEF Units
<1>1. f \in Surjection(1 .. h[x], U)
  <2> HIDE DEF U
  <2>1. f \in [1 .. h[x] -> U] /\ \A n \in 1 .. h[x] : f[n] = <<x, n>>
    BY <1>0
  <2>2. \A u \in U : \E n \in 1 .. h[x] : f[n] = u
    BY <1>0, <2>1
  <2> QED
    BY <2>1, <2>2 DEF Surjection
<1>2. f \in Injection(1 .. h[x], U)
  BY <1>1 DEF Surjection, Injection, IsInjective
<1>3. IsFiniteSet(1 .. h[x]) /\ Cardinality(1 .. h[x]) = h[x]
  BY FS_Interval
<1> QED
  BY <1>1, <1>2, <1>3, FS_Surjection

LEMMA UnitsAdd ==
  ASSUME NEW h, NEW S, NEW x \in S, h[x] \in Nat, IsFiniteSet(Units(h, S \ {x}))
  PROVE  /\ IsFiniteSet(Units(h, S))
         /\ Cardinality(Units(h, S)) = h[x] + Cardinality(Units(h, S \ {x}))
<1>1. Units(h, S) = Units(h, {x}) \cup Units(h, S \ {x})
      /\ Units(h, {x}) \cap Units(h, S \ {x}) = {}
  <2>1. S = {x} \cup (S \ {x}) /\ {x} \cap (S \ {x}) = {}
    OBVIOUS
  <2>2. /\ Units(h, {x} \cup (S \ {x})) = Units(h, {x}) \cup Units(h, S \ {x})
        /\ Units(h, {x}) \cap Units(h, S \ {x}) = {}
    BY <2>1, UnitsSplit
  <2> QED
    BY <2>1, <2>2
<1>2. IsFiniteSet(Units(h, {x})) /\ Cardinality(Units(h, {x})) = h[x]
  BY UnitsOne
<1>3. Cardinality({}) = 0 /\ Cardinality(Units(h, S \ {x})) \in Nat
  BY FS_EmptySet, FS_CardinalityType
<1>4. /\ IsFiniteSet(Units(h, {x}) \cup Units(h, S \ {x}))
      /\ Cardinality(Units(h, {x}) \cup Units(h, S \ {x}))
         = Cardinality(Units(h, {x})) + Cardinality(Units(h, S \ {x})) - 0
  BY <1>1, <1>2, <1>3, FS_Union
<1> QED
  BY <1>1, <1>2, <1>3, <1>4

LEMMA UnitsFinite ==
  ASSUME NEW S, IsFiniteSet(S), NEW h, \A x \in S : h[x] \in Nat
  PROVE  IsFiniteSet(Units(h, S))
<1> DEFINE T == {s \in SUBSET S : ~ IsFiniteSet(Units(h, s))}
<1>1. ASSUME NEW s \in T PROVE s # {} /\ s \ {CHOOSE x \in s : TRUE} \in T
  <2>1. Units(h, {}) = {} /\ IsFiniteSet({})
    BY FS_EmptySet DEF Units
  <2>2. s # {}
    BY <2>1
  <2>3. PICK y : y = CHOOSE x \in s : TRUE
    OBVIOUS
  <2>4. y \in s
    BY <2>2, <2>3
  <2>5. s \ {y} \in T
    BY <2>4, UnitsAdd
  <2> QED
    BY <2>2, <2>3, <2>5
<1>2. T = {}
  <2> HIDE DEF T
  <2>1. T \in SUBSET SUBSET S
    BY DEF T
  <2> QED
    BY <1>1, <2>1, NoLeastSet
<1> QED
  BY <1>2

\* A sum over a finite set is the number of its units.
LEMMA SumUnits ==
  ASSUME NEW K, IsFiniteSet(K), NEW h, \A x \in K : h[x] \in Nat
  PROVE  SumFunctionOnSet(h, K) = Cardinality(Units(h, K))
<1> DEFINE pick(s) == CHOOSE x \in s : TRUE
           f == CHOOSE it : it = [s \in SUBSET K |-> IF s = {} THEN 0
                  ELSE h[pick(s)] + it[s \ {pick(s)}]]
           g == [s \in SUBSET K |-> Cardinality(Units(h, s))]
<1>1. SumFunctionOnSet(h, K) = f[K]
  BY DEF SumFunctionOnSet, FoldFunctionOnSet, MapThenFoldSet
<1>2. \A s \in SUBSET K : s # {} => pick(s) \in s
  OBVIOUS
<1> HIDE DEF pick, f
<1>3. ASSUME NEW s \in SUBSET K, s # {}
      PROVE  Cardinality(Units(h, s)) = h[pick(s)] + Cardinality(Units(h, s \ {pick(s)}))
  <2>1. IsFiniteSet(s \ {pick(s)})
    BY FS_Subset
  <2>2. IsFiniteSet(Units(h, s \ {pick(s)}))
    BY <2>1, UnitsFinite
  <2>3. pick(s) \in s /\ h[pick(s)] \in Nat
    BY <1>2, <1>3
  <2> QED
    BY <2>2, <2>3, UnitsAdd
<1>4. Cardinality(Units(h, {})) = 0
  <2>1. Units(h, {}) = {}
    BY DEF Units
  <2> QED
    BY <2>1, FS_EmptySet
<1>5. \A s \in SUBSET K : g[s] = IF s = {} THEN 0 ELSE h[pick(s)] + g[s \ {pick(s)}]
  BY <1>3, <1>4
<1>6. g = [s \in SUBSET K |-> IF s = {} THEN 0 ELSE h[pick(s)] + g[s \ {pick(s)}]]
  <2>1. \A s \in SUBSET K : g[s] = Cardinality(Units(h, s))
    OBVIOUS
  <2>2. [s \in SUBSET K |-> Cardinality(Units(h, s))]
        = [s \in SUBSET K |-> IF s = {} THEN 0 ELSE h[pick(s)] + g[s \ {pick(s)}]]
    BY <1>5, <2>1
  <2> QED
    BY <2>2
<1>7. f = [s \in SUBSET K |-> IF s = {} THEN 0 ELSE h[pick(s)] + f[s \ {pick(s)}]]
  <2> HIDE DEF g
  <2> QED
    BY <1>6 DEF f
<1>8. f[K] = g[K]
  <2> HIDE DEF g
  <2>1. \A s \in SUBSET K : f[s] = IF s = {} THEN 0 ELSE h[pick(s)] + f[s \ {pick(s)}]
    BY <1>7
  <2>2. AddsUp(f, h, K) /\ AddsUp(g, h, K)
    BY <1>5, <2>1 DEF AddsUp, pick
  <2>3. K \in SUBSET K
    OBVIOUS
  <2> QED
    BY <2>2, <2>3, SumUnique
<1> QED
  BY <1>1, <1>8

LEMMA SumNat ==
  ASSUME NEW K, IsFiniteSet(K), NEW h, \A x \in K : h[x] \in Nat
  PROVE  SumFunctionOnSet(h, K) \in Nat
BY SumUnits, UnitsFinite, FS_CardinalityType

-----------------------------------------------------------------------------
(* The paths and their solutions *)

LEMMA JobTypes ==
  ASSUME job \in Jobs
  PROVE  /\ job.tool \in {"sampler", "rsampler", "rhsampler", "appmc", "lmc", "pc"}
         /\ job.counts \in Seq(Nat) /\ job.nb \in Nat /\ job.k \in Nat
         /\ job.threads \in Nat \ {0} /\ job.verbose \in BOOLEAN
         /\ Len(job.counts) \in Nat /\ Paths = 1 .. Len(job.counts)
         /\ IsFiniteSet(Paths) /\ Cardinality(Paths) = Len(job.counts)
         /\ \A p \in Paths : job.counts[p] \in Nat
<1>1. job \in JobFields
  BY JobsAssumption
<1>2. /\ job.tool \in {"sampler", "rsampler", "rhsampler", "appmc", "lmc", "pc"}
      /\ job.counts \in Seq(Nat) /\ job.nb \in Nat /\ job.k \in Nat
      /\ job.threads \in Nat \ {0} /\ job.verbose \in BOOLEAN
  BY <1>1 DEF JobFields
<1>3. Len(job.counts) \in Nat /\ Paths = 1 .. Len(job.counts)
      /\ \A p \in Paths : job.counts[p] \in Nat
  BY <1>2, LenProperties, ElementOfSeq DEF Paths
<1>4. IsFiniteSet(Paths) /\ Cardinality(Paths) = Len(job.counts)
  BY <1>3, FS_Interval
<1> QED
  BY <1>2, <1>3, <1>4

\* The solutions of the paths P as pairs of a path and of an id.
SolutionsOf(P) == Units(job.counts, P)

LEMMA MassFacts ==
  ASSUME job \in Jobs, NEW P \in SUBSET Paths
  PROVE  /\ IsFiniteSet(P) /\ IsFiniteSet(SolutionsOf(P))
         /\ Mass(P) = Cardinality(SolutionsOf(P)) /\ Mass(P) \in Nat
<1>1. IsFiniteSet(P) /\ \A x \in P : job.counts[x] \in Nat
  BY JobTypes, FS_Subset
<1> QED
  BY <1>1, UnitsFinite, SumUnits, FS_CardinalityType DEF SolutionsOf, Mass

LEMMA MassEmpty == Mass({}) = 0
<1>1. IsFiniteSet({}) /\ Units(job.counts, {}) = {} /\ Cardinality({}) = 0
  BY FS_EmptySet DEF Units
<1>2. \A x \in {} : job.counts[x] \in Nat
  OBVIOUS
<1>3. SumFunctionOnSet(job.counts, {}) = Cardinality(Units(job.counts, {}))
  BY <1>1, <1>2, SumUnits
<1> QED
  BY <1>1, <1>3 DEF Mass

LEMMA MassAdd ==
  ASSUME job \in Jobs, NEW P \in SUBSET Paths, NEW p \in P
  PROVE  Mass(P) = Mass(P \ {p}) + job.counts[p]
<1>1. job.counts[p] \in Nat
  BY JobTypes
<1>2. P \ {p} \in SUBSET Paths
  OBVIOUS
<1>3. /\ IsFiniteSet(SolutionsOf(P \ {p}))
      /\ Mass(P \ {p}) = Cardinality(SolutionsOf(P \ {p})) /\ Mass(P \ {p}) \in Nat
      /\ Mass(P) = Cardinality(SolutionsOf(P)) /\ Mass(P) \in Nat
  BY <1>2, MassFacts
<1>4. Cardinality(Units(job.counts, P))
      = job.counts[p] + Cardinality(Units(job.counts, P \ {p}))
  <2>1. IsFiniteSet(Units(job.counts, P \ {p}))
    BY <1>3 DEF SolutionsOf
  <2>2. PICK c : c = job.counts
    OBVIOUS
  <2>3. c[p] \in Nat /\ IsFiniteSet(Units(c, P \ {p}))
    BY <1>1, <2>1, <2>2
  <2>4. Cardinality(Units(c, P)) = c[p] + Cardinality(Units(c, P \ {p}))
    BY <2>3, UnitsAdd
  <2> QED
    BY <2>2, <2>4
<1> QED
  BY <1>1, <1>3, <1>4 DEF SolutionsOf

LEMMA MassGrows ==
  ASSUME job \in Jobs, NEW P \in SUBSET Paths, NEW p \in Paths, p \notin P
  PROVE  P \cup {p} \in SUBSET Paths /\ Mass(P \cup {p}) = Mass(P) + job.counts[p]
<1>1. P \cup {p} \in SUBSET Paths /\ p \in P \cup {p} /\ (P \cup {p}) \ {p} = P
  OBVIOUS
<1> QED
  BY <1>1, MassAdd

\* The drawn number falls into the solutions of one path: the first one at which at least
\* as many have been passed.
LEMMA SelectedIsSolution ==
  ASSUME job \in Jobs, NEW P \in SUBSET Paths, NEW id \in 1 .. Mass(P)
  PROVE  Selected(P, id) \in Nat \X Nat /\ IsSolution(Selected(P, id))
<1> DEFINE Below(p) == {q \in P : q < p}
           before(p) == Mass(Below(p))
           A == {p \in P : id <= before(p) + job.counts[p]}
           Fits(p) == before(p) < id /\ id <= before(p) + job.counts[p]
           chosen == CHOOSE p \in P : Fits(p)
<1>1. P \in SUBSET (1 .. Len(job.counts)) /\ P \in SUBSET Nat /\ Len(job.counts) \in Nat
      /\ \A p \in P : job.counts[p] \in Nat
  BY JobTypes
<1>2. \A p : Below(p) \in SUBSET Paths
  OBVIOUS
<1>3. \A p : before(p) \in Nat
  BY <1>2, MassFacts
<1>4. ASSUME NEW Q \in SUBSET P, Q # {}
      PROVE  \E m \in Q : (\A q \in Q : q <= m) /\ Mass(Q) = Mass({q \in Q : q < m}) + job.counts[m]
  <2>0. Q \in SUBSET (1 .. Len(job.counts)) /\ Q # {} /\ Q \in SUBSET Paths /\ Q \in SUBSET Nat
    BY <1>1, <1>4
  <2>1. PICK m \in Q : \A q \in Q : q <= m
    BY <2>0, <1>1, GreatestNat
  <2>2. {q \in Q : q < m} = Q \ {m}
    <3>1. m \in Nat /\ \A q \in Q : q \in Nat /\ (q < m <=> q # m)
      BY <2>0, <2>1
    <3> QED
      BY <3>1
  <2>3. Mass(Q) = Mass(Q \ {m}) + job.counts[m]
    BY <2>0, MassAdd
  <2> QED
    BY <2>1, <2>2, <2>3
<1>5. P # {}
  BY MassEmpty
<1>6. A # {}
  <2>1. PICK m \in P : Mass(P) = Mass({q \in P : q < m}) + job.counts[m]
    BY <1>4, <1>5
  <2>2. Mass(P) = before(m) + job.counts[m]
    BY <2>1
  <2>3. id <= Mass(P)
    BY MassFacts
  <2> HIDE DEF before
  <2> QED
    BY <2>2, <2>3
<1>7. PICK p \in A : \A q \in A : p <= q
  <2>1. A \in SUBSET Nat
    BY <1>1
  <2> HIDE DEF A
  <2> QED
    BY <1>6, <2>1, LeastNat
<1>8. before(p) < id
  <2> SUFFICES ASSUME ~ (before(p) < id) PROVE FALSE
    OBVIOUS
  <2>0. id \in Nat /\ id >= 1 /\ id <= before(p)
    BY <1>3, MassFacts
  <2>1. Below(p) # {}
    BY <2>0, MassEmpty
  <2>2. Below(p) \in SUBSET P
    OBVIOUS
  <2>3. PICK m \in Below(p) : Mass(Below(p)) = Mass({q \in Below(p) : q < m}) + job.counts[m]
    BY <1>4, <2>1, <2>2
  <2>4. m \in P /\ m < p /\ p \in P
    OBVIOUS
  <2>5. {q \in Below(p) : q < m} = Below(m)
    <3>1. p \in Nat /\ m \in Nat /\ \A q \in P : q \in Nat /\ (q < m => q < p)
      BY <1>1, <2>4
    <3> QED
      BY <3>1
  <2>6. before(p) = before(m) + job.counts[m]
    BY <2>3, <2>5
  <2>7. m \in A
    BY <2>0, <2>4, <2>6
  <2> QED
    BY <1>1, <1>7, <2>4, <2>7
<1>9. Fits(p) /\ p \in P
  BY <1>7, <1>8
<1> HIDE DEF Fits
<1>10. chosen \in P /\ Fits(chosen)
  BY <1>9
<1>11. Selected(P, id) = <<chosen, id - before(chosen)>>
  BY DEF Selected, Fits
<1> HIDE DEF chosen, before
<1>12. id - before(chosen) \in 1 .. job.counts[chosen] /\ chosen \in Paths /\ chosen \in Nat
  <2>1. before(chosen) \in Nat /\ id \in Nat /\ job.counts[chosen] \in Nat /\ chosen \in Nat
    BY <1>1, <1>3, <1>10, MassFacts
  <2> QED
    BY <1>10, <2>1 DEF Fits
<1> QED
  BY <1>11, <1>12 DEF IsSolution, Solutions
-----------------------------------------------------------------------------
(* The invariant: what is common to the parallel loops, then a part for every tool *)

\* Iterations are finite, none is both to begin and begun, and no thread holds two.
LoopInv ==
  /\ todo \in SUBSET Nat /\ IsFiniteSet(todo)
  /\ DOMAIN flight \in SUBSET Nat /\ IsFiniteSet(DOMAIN flight)
  /\ DOMAIN flight \cap todo = {}
  /\ Cardinality(DOMAIN flight) <= job.threads

\* Outside the loops.
Quiet == todo = {} /\ DOMAIN flight = {}

CommonInv == LoopInv /\ tmc \in Nat /\ lines \in Seq(Nat \X Nat)

\* The iterations of a loop that prints one line each.
Iterations == Len(lines) + Cardinality(DOMAIN flight) + Cardinality(todo)

\* What is printed and what is about to be are solutions.
LinesSound == \A j \in DOMAIN lines : IsSolution(lines[j])
PrintsSolutions ==
  /\ \A j \in DOMAIN flight : flight[j] \in Nat \X Nat /\ IsSolution(flight[j])
  /\ LinesSound

Few == Cardinality(Paths) <= job.k

\* sampler: all paths are counted before a solution is drawn, and as many are drawn as
\* are asked for.
CountedPaths == Paths \ (IF pc = "count" THEN todo ELSE {})

SamplerInv ==
  /\ CommonInv
  /\ pc \in {"start", "count", "exact", "heuristic", "done", "crashed"}
  /\ tmc = IF pc = "start" \/ ~Few THEN 0 ELSE Mass(CountedPaths)
  /\ PrintsSolutions
  /\ pc = "start" => Quiet /\ lines = <<>>
  /\ pc = "count" => Few /\ todo \subseteq Paths /\ DOMAIN flight = {} /\ lines = <<>>
  /\ pc = "exact" => Few
  /\ pc = "heuristic" => ~Few
  /\ pc \in {"exact", "heuristic"} => Iterations = job.nb
  /\ pc = "done" => Len(lines) = job.nb
  /\ pc = "crashed" => IF Few THEN Mass(Paths) = 0 ELSE \E P \in kSubset(job.k, Paths) : Mass(P) = 0

\* rsampler: the paths begun are different, and those tallied have passed the reservoir.
Tallied == visited \ Range(flight)

FillInv ==
  /\ lines = <<>>
  /\ \A i \in DOMAIN flight : flight[i] \in visited
  /\ \A i, j \in DOMAIN flight : flight[i] = flight[j] => i = j
  /\ ~ManyPaths => todo \subseteq Paths /\ visited \cap todo = {}
  /\ tmc = Mass(Tallied)
  /\ \A j \in DOMAIN reservoir :
       reservoir[j] \in Tallied /\ (tmc > 0 => job.counts[reservoir[j]] > 0)
  /\ job.nb > 0 /\ Tallied # {} => Len(reservoir) = job.nb

PrintInv ==
  /\ todo \subseteq DOMAIN reservoir
  /\ \A j \in DOMAIN reservoir : tmc > 0 => job.counts[reservoir[j]] > 0
  /\ PrintsSolutions
  /\ Len(reservoir) = IF visited = {} THEN 0 ELSE job.nb
  /\ Iterations = Len(reservoir)

RsamplerInv ==
  /\ CommonInv /\ ReservoirTypeOK
  /\ pc \in {"start", "fill", "print", "done", "crashed"}
  /\ LinesSound
  /\ pc = "start" => Quiet /\ lines = <<>> /\ tmc = 0 /\ ReservoirInit
  /\ pc = "fill" => FillInv
  /\ pc = "print" => PrintInv
  /\ pc = "done" => Len(lines) = IF visited = {} THEN 0 ELSE job.nb
  /\ pc = "crashed" => tmc = 0

\* rhsampler before a jump: the position is at most one past the solutions of its path
\* while the reservoir is filled, and what is in it has been passed.
WalkInv ==
  /\ isol >= 1
  /\ Len(found) < job.nb /\ ipath \in Paths => isol <= job.counts[ipath] + 1
  /\ tmc = Mass({p \in Paths : p <= ipath})
  /\ IsInjective(found) /\ Range(found) \subseteq Passed1
  /\ Len(found) < job.nb => Range(found) = Passed1

RhsamplerInv ==
  /\ CommonInv /\ Quiet /\ SkipTypeOK
  /\ pc \in {"start", "skip", "done", "crashed"}
  /\ pc = "start" => SkipInit /\ tmc = 0
  /\ pc = "skip" /\ ~jumped => WalkInv
  /\ pc # "done" => lines = <<>>
  /\ pc = "done" /\ ~jumped =>
       /\ IsInjective(lines) /\ LinesSound
       /\ Len(lines) = job.nb \/ (Len(lines) = Mass(Paths) /\ Len(lines) < job.nb)
  /\ pc = "crashed" => job.nb = 0 \/ jumped

\* appmc: while nobody stops the limit has not been reached; afterwards the samples in
\* hand are the last ones.
Limit == IF job.nb > 1 THEN job.nb ELSE 1
ShownIn(s) == {s[j][1] : j \in DOMAIN s}

TeamInv ==
  /\ DOMAIN stream \cup todo = 1 .. job.threads /\ DOMAIN stream \cap todo = {}
  /\ out \subseteq DOMAIN stream
  /\ DOMAIN flight \subseteq DOMAIN stream \ out
  /\ \A t \in DOMAIN flight : flight[t] \in Paths
  /\ out # {} => stop

StopInv ==
  /\ ~stop => counted < Limit
  /\ stop => /\ counted + Cardinality(DOMAIN flight) <= Limit + job.threads - 1
             /\ counted >= 1
             /\ counted >= job.nb \/ (job.k > 0 /\ counted >= 2 /\ counted >= job.k)

LinesInv ==
  /\ job.verbose => /\ ShownIn(lines) = 2 .. counted
                    /\ Len(lines) = IF counted = 0 THEN 0 ELSE counted - 1
  /\ stop /\ job.nb >= 2 => lines # <<>>
  /\ job.nb \in 2 .. counted => job.nb \in ShownIn(lines)

StreamInv ==
  /\ jumps \in Nat
  /\ \A t \in DOMAIN stream : stream[t] \in 0 .. jumps - 1
  /\ \A s, t \in DOMAIN stream : stream[s] = stream[t] => s = t

AppmcInv ==
  /\ CommonInv /\ StreamInv
  /\ pc \in {"start", "sample", "done", "crashed"}
  /\ stop \in BOOLEAN /\ counted \in Nat /\ lowest = -1 /\ ended = {}
  /\ StopInv /\ LinesInv
  /\ pc = "start" => Quiet /\ lines = <<>> /\ CounterInit
  /\ pc # "start" => TeamInv
  /\ pc = "done" => out = 1 .. job.threads
  /\ pc = "crashed" => Paths = {}

\* lmc: every try is to begin, in hand or among those ended.
LmcInv ==
  /\ CommonInv
  /\ stream = <<>> /\ jumps = 0 /\ out = {} /\ stop = FALSE /\ counted = 0
  /\ pc \in {"start", "tries", "done", "crashed"}
  /\ \A i \in DOMAIN flight : flight[i] \in Nat
  /\ ended \in SUBSET Nat
  /\ lowest = IF ended = {} THEN -1 ELSE Min(ended)
  /\ pc = "start" => Quiet /\ ended = {}
  /\ pc \in {"tries", "done"} => (ended = {} /\ Quiet <=> job.nb = 0)
  /\ pc = "done" => Quiet
  /\ pc = "crashed" => Paths = {}

PcInv ==
  /\ CommonInv /\ Quiet /\ CounterInit
  /\ pc \in {"start", "done"}
  /\ pc = "done" => tmc = Len(job.counts)

\* A tool uses its own variables only.
IdleInv ==
  /\ job.tool # "rsampler" => ReservoirInit
  /\ job.tool # "rhsampler" => SkipInit
  /\ job.tool \notin {"appmc", "lmc", "pc"} => CounterInit

ToolsInv ==
  /\ job \in Jobs
  /\ IdleInv
  /\ job.tool = "sampler" => SamplerInv
  /\ job.tool = "rsampler" => RsamplerInv
  /\ job.tool = "rhsampler" => RhsamplerInv
  /\ job.tool = "appmc" => AppmcInv
  /\ job.tool = "lmc" => LmcInv
  /\ job.tool = "pc" => PcInv

-----------------------------------------------------------------------------
(* The parallel loops *)

LEMMA UptoFinite ==
  ASSUME NEW n \in Nat
  PROVE  1 .. n \in SUBSET Nat /\ IsFiniteSet(1 .. n) /\ Cardinality(1 .. n) = n
BY FS_Interval

LEMMA LoopTypes ==
  ASSUME LoopInv, job \in Jobs
  PROVE  /\ Cardinality(todo) \in Nat /\ Cardinality(DOMAIN flight) \in Nat
         /\ todo \in SUBSET Nat /\ DOMAIN flight \in SUBSET Nat
         /\ job.threads \in Nat \ {0} /\ Cardinality(DOMAIN flight) <= job.threads
         /\ IsFiniteSet(todo) /\ IsFiniteSet(DOMAIN flight)
BY JobTypes, FS_CardinalityType DEF LoopInv

LEMMA QuietCount ==
  ASSUME Quiet
  PROVE  Cardinality(todo) = 0 /\ Cardinality(DOMAIN flight) = 0
BY FS_EmptySet DEF Quiet

LEMMA OverIsQuiet ==
  ASSUME LoopInv, Over
  PROVE  Quiet
BY DEF Over, Quiet

LEMMA GoIntoFacts ==
  ASSUME job \in Jobs, NEW label, NEW iterations \in SUBSET Nat, IsFiniteSet(iterations),
         GoInto(label, iterations), job' = job
  PROVE  /\ LoopInv' /\ pc' = label /\ todo' = iterations /\ DOMAIN flight' = {}
         /\ Cardinality(DOMAIN flight') = 0 /\ Cardinality(todo') = Cardinality(iterations)
<1>1. flight' = <<>> /\ todo' = iterations /\ pc' = label
  BY DEF GoInto
<1>2. DOMAIN flight' = {}
  BY <1>1
<1>3. IsFiniteSet({}) /\ Cardinality({}) = 0
  BY FS_EmptySet
<1>4. job.threads \in Nat
  BY JobTypes
<1> QED
  BY <1>1, <1>2, <1>3, <1>4 DEF LoopInv

\* Nothing happens in the loops.
LEMMA StillFacts ==
  ASSUME LoopInv, job' = job, todo' = todo, flight' = flight
  PROVE  LoopInv'
BY DEF LoopInv

LEMMA BeginFacts ==
  ASSUME LoopInv, job \in Jobs, job' = job, NEW i \in todo, NEW x, Begin(i, x),
         Cardinality(DOMAIN flight) < job.threads
  PROVE  /\ LoopInv'
         /\ DOMAIN flight' = DOMAIN flight \cup {i} /\ todo' = todo \ {i}
         /\ i \notin DOMAIN flight
         /\ flight'[i] = x /\ \A j \in DOMAIN flight : flight'[j] = flight[j]
         /\ Cardinality(DOMAIN flight') = Cardinality(DOMAIN flight) + 1
         /\ Cardinality(todo') = Cardinality(todo) - 1
         /\ Range(flight') = Range(flight) \cup {x}
<1>1. /\ todo' = todo \ {i} /\ i \notin DOMAIN flight /\ i \in Nat
      /\ flight' = [j \in DOMAIN flight \cup {i} |-> IF j = i THEN x ELSE flight[j]]
  BY DEF Begin, LoopInv
<1>2. /\ DOMAIN flight' = DOMAIN flight \cup {i} /\ flight'[i] = x
      /\ \A j \in DOMAIN flight : flight'[j] = flight[j]
  BY <1>1
<1>3. /\ IsFiniteSet(DOMAIN flight') /\ IsFiniteSet(todo')
      /\ Cardinality(DOMAIN flight') = Cardinality(DOMAIN flight) + 1
      /\ Cardinality(todo') = Cardinality(todo) - 1
  BY <1>1, <1>2, LoopTypes, FS_AddElement, FS_RemoveElement
<1>4. Range(flight') = Range(flight) \cup {x}
  <2>1. Range(flight') = {flight'[j] : j \in DOMAIN flight \cup {i}}
    BY <1>2 DEF Range
  <2> QED
    BY <1>2, <2>1 DEF Range
<1>5. LoopInv'
  BY <1>1, <1>2, <1>3, LoopTypes DEF LoopInv
<1> QED
  BY <1>1, <1>2, <1>3, <1>4, <1>5

LEMMA EndFacts ==
  ASSUME LoopInv, job \in Jobs, job' = job, NEW i \in DOMAIN flight, End(i)
  PROVE  /\ LoopInv'
         /\ DOMAIN flight' = DOMAIN flight \ {i} /\ todo' = todo
         /\ \A j \in DOMAIN flight \ {i} : flight'[j] = flight[j]
         /\ Cardinality(DOMAIN flight') = Cardinality(DOMAIN flight) - 1
         /\ Cardinality(DOMAIN flight) >= 1
<1>1. todo' = todo /\ flight' = [j \in DOMAIN flight \ {i} |-> flight[j]]
  BY DEF End, Restrict
<1>2. /\ DOMAIN flight' = DOMAIN flight \ {i}
      /\ \A j \in DOMAIN flight \ {i} : flight'[j] = flight[j]
  BY <1>1
<1>3. /\ IsFiniteSet(DOMAIN flight')
      /\ Cardinality(DOMAIN flight') = Cardinality(DOMAIN flight) - 1
      /\ Cardinality(DOMAIN flight') \in Nat
  <2>1. IsFiniteSet(DOMAIN flight \ {i})
        /\ Cardinality(DOMAIN flight \ {i}) = Cardinality(DOMAIN flight) - 1
    BY LoopTypes, FS_RemoveElement
  <2> QED
    BY <1>2, <2>1, FS_CardinalityType
<1>4. LoopInv'
  BY <1>1, <1>2, <1>3, LoopTypes DEF LoopInv
<1> QED
  BY <1>1, <1>2, <1>3, <1>4, LoopTypes

\* The solutions of the circuits read do not change.
LEMMA SameJob ==
  ASSUME job' = job
  PROVE  /\ Paths' = Paths /\ Few' = Few /\ ManyPaths' = ManyPaths
         /\ \A P : Mass(P)' = Mass(P)
         /\ \A x : IsSolution(x)' = IsSolution(x)
         /\ LinesSound /\ lines' = lines => LinesSound'
BY DEF LinesSound, Paths, Few, ManyPaths, Mass, IsSolution, Solutions

\* A thread draws a solution to print.
LEMMA DrawFacts ==
  ASSUME CommonInv, job \in Jobs, PrintsSolutions, UNCHANGED <<job, pc, tmc, lines>>,
         NEW i \in todo, Free(i), NEW x \in Nat \X Nat, IsSolution(x), Begin(i, x)
  PROVE  CommonInv' /\ PrintsSolutions' /\ Iterations' = Iterations /\ todo' \subseteq todo
<1>1. Cardinality(DOMAIN flight) < job.threads
  BY DEF Free
<1>2. /\ LoopInv' /\ DOMAIN flight' = DOMAIN flight \cup {i} /\ todo' = todo \ {i}
      /\ flight'[i] = x /\ \A j \in DOMAIN flight : flight'[j] = flight[j]
      /\ Cardinality(DOMAIN flight') = Cardinality(DOMAIN flight) + 1
      /\ Cardinality(todo') = Cardinality(todo) - 1
  BY <1>1, BeginFacts DEF CommonInv
<1>3. CommonInv'
  BY <1>2 DEF CommonInv
<1>4. \A j \in DOMAIN flight' : flight'[j] \in Nat \X Nat /\ IsSolution(flight'[j])
  BY <1>2 DEF PrintsSolutions
<1>5. PrintsSolutions'
  BY <1>4, SameJob DEF PrintsSolutions
<1>6. Len(lines) \in Nat /\ Cardinality(todo) \in Nat /\ Cardinality(DOMAIN flight) \in Nat
  BY LoopTypes, LenProperties DEF CommonInv
<1>7. Iterations' = Iterations
  BY <1>2, <1>6 DEF Iterations
<1> QED
  BY <1>2, <1>3, <1>5, <1>7

\* A thread prints the solution it holds.
LEMMA PrintLineFacts ==
  ASSUME CommonInv, job \in Jobs, PrintsSolutions, NEW i \in DOMAIN flight, PrintLine(i)
  PROVE  CommonInv' /\ PrintsSolutions' /\ Iterations' = Iterations /\ todo' = todo
<1>1. job' = job /\ tmc' = tmc /\ lines' = Append(lines, flight[i]) /\ End(i)
  BY DEF PrintLine
<1>2. /\ LoopInv' /\ DOMAIN flight' = DOMAIN flight \ {i} /\ todo' = todo
      /\ \A j \in DOMAIN flight \ {i} : flight'[j] = flight[j]
      /\ Cardinality(DOMAIN flight') = Cardinality(DOMAIN flight) - 1
  BY <1>1, EndFacts DEF CommonInv
<1>3. lines \in Seq(Nat \X Nat) /\ flight[i] \in Nat \X Nat /\ IsSolution(flight[i])
  BY DEF CommonInv, PrintsSolutions
<1>4. /\ lines' \in Seq(Nat \X Nat) /\ Len(lines') = Len(lines) + 1 /\ Len(lines) \in Nat
      /\ \A j \in 1 .. Len(lines) : lines'[j] = lines[j]
      /\ lines'[Len(lines) + 1] = flight[i]
      /\ DOMAIN lines = 1 .. Len(lines) /\ DOMAIN lines' = 1 .. Len(lines) + 1
  BY <1>1, <1>3, AppendProperties, LenProperties
<1>5. LinesSound'
  <2>1. \A j \in 1 .. Len(lines) + 1 : j \in 1 .. Len(lines) \/ j = Len(lines) + 1
    BY <1>4
  <2> QED
    BY <1>1, <1>3, <1>4, <2>1, SameJob DEF PrintsSolutions, LinesSound
<1>6. \A j \in DOMAIN flight' : flight'[j] \in Nat \X Nat /\ IsSolution(flight'[j])
  BY <1>2 DEF PrintsSolutions
<1>7. PrintsSolutions'
  BY <1>1, <1>5, <1>6, SameJob DEF PrintsSolutions
<1>8. CommonInv'
  BY <1>1, <1>2, <1>4 DEF CommonInv
<1>9. Cardinality(todo) \in Nat /\ Cardinality(DOMAIN flight) \in Nat
  BY LoopTypes DEF CommonInv
<1>10. Iterations' = Iterations
  BY <1>2, <1>4, <1>9 DEF Iterations
<1> QED
  BY <1>2, <1>7, <1>8, <1>10

LEMMA InitCommon ==
  ASSUME PathInit
  PROVE  /\ job \in Jobs /\ pc = "start" /\ tmc = 0 /\ lines = <<>>
         /\ CommonInv /\ Quiet /\ PrintsSolutions
<1>1. todo = {} /\ flight = <<>> /\ lines = <<>> /\ tmc = 0 /\ job \in Jobs /\ pc = "start"
  BY DEF PathInit
<1>2. DOMAIN flight = {} /\ DOMAIN lines = {}
  BY <1>1
<1>3. IsFiniteSet({}) /\ Cardinality({}) = 0 /\ job.threads \in Nat
  BY <1>1, JobTypes, FS_EmptySet
<1>4. lines \in Seq(Nat \X Nat)
  BY <1>1
<1> QED
  BY <1>1, <1>2, <1>3, <1>4 DEF CommonInv, LoopInv, Quiet, PrintsSolutions, LinesSound

-----------------------------------------------------------------------------
(* sampler *)

LEMMA SamplerStart ==
  ASSUME job \in Jobs, SamplerInv, StartK
  PROVE  SamplerInv'
<1>1. /\ pc = "start" /\ job' = job /\ tmc' = tmc /\ lines' = lines /\ lines = <<>> /\ tmc = 0
      /\ CommonInv /\ PrintsSolutions
  BY DEF StartK, SamplerInv
<1>2. job.nb \in Nat /\ IsFiniteSet(Paths) /\ Paths \in SUBSET Nat
  BY JobTypes
<1>3. LinesSound
  BY <1>1 DEF PrintsSolutions
<1>4. CASE Few
  <2>1. GoInto("count", Paths)
    BY <1>4 DEF StartK, Few
  <2>2. LoopInv' /\ pc' = "count" /\ todo' = Paths /\ DOMAIN flight' = {}
    BY <1>1, <1>2, <2>1, GoIntoFacts
  <2>3. CountedPaths' = {} /\ Paths' = Paths /\ Few' /\ PrintsSolutions'
    BY <1>1, <1>3, <1>4, <2>2, SameJob DEF CountedPaths, PrintsSolutions
  <2>4. Mass(CountedPaths)' = 0
    BY <1>1, <2>3, MassEmpty DEF Mass
  <2> QED
    BY <1>1, <2>2, <2>3, <2>4 DEF SamplerInv, CommonInv
<1>5. CASE ~Few
  <2>1. GoInto("heuristic", 1 .. job.nb)
    BY <1>5 DEF StartK, Few
  <2>2. IsFiniteSet(1 .. job.nb) /\ Cardinality(1 .. job.nb) = job.nb
        /\ 1 .. job.nb \in SUBSET Nat
    BY <1>2, UptoFinite
  <2>3. /\ LoopInv' /\ pc' = "heuristic" /\ DOMAIN flight' = {}
        /\ Cardinality(DOMAIN flight') = 0 /\ Cardinality(todo') = job.nb
    BY <1>1, <2>1, <2>2, GoIntoFacts
  <2>4. ~Few' /\ PrintsSolutions'
    BY <1>1, <1>3, <1>5, <2>3, SameJob DEF PrintsSolutions
  <2>5. Iterations' = job'.nb
    BY <1>1, <1>2, <2>3 DEF Iterations
  <2> QED
    BY <1>1, <2>3, <2>4, <2>5 DEF SamplerInv, CommonInv
<1> QED
  BY <1>4, <1>5

LEMMA SamplerCount ==
  ASSUME job \in Jobs, SamplerInv, NEW l \in todo, CountPath(l)
  PROVE  SamplerInv'
<1>1. /\ pc = "count" /\ UNCHANGED <<job, pc, flight, lines>> /\ Few
      /\ tmc' = tmc + job.counts[l] /\ todo' = todo \ {l} /\ todo \subseteq Paths
      /\ CommonInv /\ PrintsSolutions /\ DOMAIN flight = {} /\ lines = <<>>
      /\ tmc = Mass(CountedPaths)
  BY DEF CountPath, SamplerInv
<1>2. LoopInv'
  <2>1. IsFiniteSet(todo \ {l})
    BY <1>1, FS_Subset DEF CommonInv, LoopInv
  <2> QED
    BY <1>1, <2>1 DEF CommonInv, LoopInv
<1>3. CountedPaths' = CountedPaths \cup {l} /\ l \in Paths /\ l \notin CountedPaths
      /\ CountedPaths \in SUBSET Paths
  BY <1>1, SameJob DEF CountedPaths
<1>4. Mass(CountedPaths \cup {l}) = tmc + job.counts[l] /\ job.counts[l] \in Nat
  BY <1>1, <1>3, MassGrows, JobTypes
<1>5. Mass(CountedPaths)' = tmc'
  BY <1>1, <1>3, <1>4 DEF Mass
<1>6. PrintsSolutions' /\ Few' /\ Paths' = Paths
  BY <1>1, SameJob DEF PrintsSolutions
<1>7. tmc' \in Nat
  BY <1>1, <1>4 DEF CommonInv
<1> QED
  BY <1>1, <1>2, <1>5, <1>6, <1>7 DEF SamplerInv, CommonInv

LEMMA SamplerCounted ==
  ASSUME job \in Jobs, SamplerInv, Counted
  PROVE  SamplerInv'
<1>1. /\ pc = "count" /\ todo = {} /\ UNCHANGED <<job, tmc, lines>> /\ Few
      /\ CommonInv /\ PrintsSolutions /\ DOMAIN flight = {} /\ lines = <<>>
      /\ tmc = Mass(CountedPaths)
  BY DEF Counted, SamplerInv
<1>2. CountedPaths = Paths /\ job.nb \in Nat
  BY <1>1, JobTypes DEF CountedPaths
<1>3. LinesSound
  BY <1>1 DEF PrintsSolutions
<1>4. Paths' = Paths /\ Few'
  BY <1>1, SameJob
<1>5. CASE tmc = 0
  <2>1. pc' = "crashed" /\ todo' = todo /\ flight' = flight
    BY <1>5 DEF Counted, Crash
  <2>2. LoopInv' /\ PrintsSolutions'
    BY <1>1, <2>1, StillFacts, SameJob DEF CommonInv, PrintsSolutions
  <2>3. CountedPaths' = Paths
    BY <1>4, <2>1 DEF CountedPaths
  <2>4. Mass(CountedPaths)' = 0 /\ Mass(Paths)' = 0
    BY <1>1, <1>2, <1>4, <1>5, <2>3 DEF Mass
  <2> QED
    BY <1>1, <1>4, <1>5, <2>1, <2>2, <2>4 DEF SamplerInv, CommonInv
<1>6. CASE tmc # 0
  <2>1. GoInto("exact", 1 .. job.nb)
    BY <1>6 DEF Counted
  <2>2. IsFiniteSet(1 .. job.nb) /\ Cardinality(1 .. job.nb) = job.nb
        /\ 1 .. job.nb \in SUBSET Nat
    BY <1>2, UptoFinite
  <2>3. /\ LoopInv' /\ pc' = "exact" /\ DOMAIN flight' = {}
        /\ Cardinality(DOMAIN flight') = 0 /\ Cardinality(todo') = job.nb
    BY <1>1, <2>1, <2>2, GoIntoFacts
  <2>4. PrintsSolutions'
    BY <1>1, <1>3, <2>3, SameJob DEF PrintsSolutions
  <2>5. Iterations' = job'.nb
    BY <1>1, <1>2, <2>3 DEF Iterations
  <2>6. CountedPaths' = Paths
    BY <1>4, <2>3 DEF CountedPaths
  <2>7. Mass(CountedPaths)' = tmc'
    BY <1>1, <1>2, <2>6 DEF Mass
  <2> QED
    BY <1>1, <1>4, <2>3, <2>4, <2>5, <2>7 DEF SamplerInv, CommonInv
<1> QED
  BY <1>5, <1>6

\* A step of one of the two loops that print, which leaves the count alone.
LEMMA SamplerPrints ==
  ASSUME job \in Jobs, SamplerInv, pc \in {"exact", "heuristic"}, UNCHANGED <<job, pc, tmc>>,
         CommonInv', PrintsSolutions', Iterations' = Iterations
  PROVE  SamplerInv'
<1>1. Paths' = Paths /\ Few' = Few
  BY SameJob
<1>2. CountedPaths' = CountedPaths
  BY <1>1 DEF CountedPaths
<1>3. Mass(CountedPaths)' = Mass(CountedPaths)
  BY <1>2 DEF Mass
<1> QED
  BY <1>1, <1>3 DEF SamplerInv

LEMMA SamplerExact ==
  ASSUME job \in Jobs, SamplerInv, NEW i \in todo, DrawExact(i)
  PROVE  SamplerInv'
<1>1. pc = "exact" /\ Free(i) /\ UNCHANGED <<job, pc, tmc, lines>> /\ tmc = Mass(Paths)
  BY DEF DrawExact, SamplerInv, CountedPaths
<1>2. PICK id \in 1 .. tmc : Begin(i, Selected(Paths, id))
  BY DEF DrawExact
<1>3. Selected(Paths, id) \in Nat \X Nat /\ IsSolution(Selected(Paths, id))
  BY <1>1, SelectedIsSolution
<1>4. CommonInv' /\ PrintsSolutions' /\ Iterations' = Iterations
  BY <1>1, <1>2, <1>3, DrawFacts DEF SamplerInv
<1> QED
  BY <1>1, <1>4, SamplerPrints

LEMMA SamplerHeuristic ==
  ASSUME job \in Jobs, SamplerInv, NEW i \in todo, DrawHeuristic(i)
  PROVE  SamplerInv'
<1>1. pc = "heuristic" /\ Free(i) /\ UNCHANGED <<job, tmc, lines>> /\ ~Few
      /\ CommonInv /\ PrintsSolutions /\ tmc = 0
  BY DEF DrawHeuristic, SamplerInv
<1>2. PICK P \in kSubset(job.k, Paths) :
        IF Mass(P) = 0 THEN Crash
        ELSE \E id \in 1 .. Mass(P) : Begin(i, Selected(P, id)) /\ UNCHANGED pc
  BY DEF DrawHeuristic
<1>3. P \in SUBSET Paths
  BY DEF kSubset
<1>4. CASE Mass(P) = 0
  <2>1. pc' = "crashed" /\ todo' = todo /\ flight' = flight
    BY <1>2, <1>4 DEF Crash
  <2>2. LoopInv' /\ PrintsSolutions' /\ ~Few' /\ Paths' = Paths
    BY <1>1, <2>1, StillFacts, SameJob DEF CommonInv, PrintsSolutions
  <2>3. Mass(P)' = 0 /\ P \in kSubset(job'.k, Paths')
    BY <1>1, <1>4, <2>2, SameJob
  <2>4. \E Q \in kSubset(job'.k, Paths') : Mass(Q)' = 0
    BY <2>3
  <2> QED
    BY <1>1, <2>1, <2>2, <2>4 DEF SamplerInv, CommonInv
<1>5. CASE Mass(P) # 0
  <2>1. PICK id \in 1 .. Mass(P) : Begin(i, Selected(P, id)) /\ UNCHANGED pc
    BY <1>2, <1>5
  <2>2. Selected(P, id) \in Nat \X Nat /\ IsSolution(Selected(P, id))
    BY <1>3, SelectedIsSolution
  <2>3. CommonInv' /\ PrintsSolutions' /\ Iterations' = Iterations
    BY <1>1, <2>1, <2>2, DrawFacts
  <2> QED
    BY <1>1, <2>1, <2>3, SamplerPrints
<1> QED
  BY <1>4, <1>5

LEMMA SamplerFinish ==
  ASSUME job \in Jobs, SamplerInv, pc \in {"exact", "heuristic"}, Finish
  PROVE  SamplerInv'
<1>1. /\ pc' = "done" /\ Quiet /\ UNCHANGED <<job, todo, flight, tmc, lines>>
      /\ CommonInv /\ PrintsSolutions /\ Iterations = job.nb
  BY OverIsQuiet DEF Finish, SamplerInv, CommonInv
<1>2. Len(lines) = job.nb
  BY <1>1, QuietCount, LenProperties DEF Iterations, CommonInv
<1>3. LoopInv' /\ PrintsSolutions' /\ Paths' = Paths /\ Few' = Few
  BY <1>1, StillFacts, SameJob DEF CommonInv, PrintsSolutions
<1>4. CountedPaths' = CountedPaths
  BY <1>1, <1>3 DEF CountedPaths
<1>5. Mass(CountedPaths)' = Mass(CountedPaths)
  BY <1>1, <1>4 DEF Mass
<1>6. tmc = IF ~Few THEN 0 ELSE Mass(CountedPaths)
  BY DEF SamplerInv
<1> QED
  BY <1>1, <1>2, <1>3, <1>5, <1>6 DEF SamplerInv, CommonInv

LEMMA SamplerStep ==
  ASSUME job \in Jobs, job.tool = "sampler" => SamplerInv, KsamplerStep
  PROVE  job.tool = "sampler" /\ job' = job /\ SamplerInv'
<1>1. job.tool = "sampler" /\ job' = job
  BY DEF KsamplerStep, StartK, Counted, CountPath, DrawExact, DrawHeuristic, Finish, PrintLine
<1>2. SamplerInv
  BY <1>1
<1>3. CASE StartK \/ Counted
  BY <1>1, <1>2, <1>3, SamplerStart, SamplerCounted
<1>4. CASE \E i \in todo : CountPath(i) \/ DrawExact(i) \/ DrawHeuristic(i)
  BY <1>1, <1>2, <1>4, SamplerCount, SamplerExact, SamplerHeuristic
<1>5. CASE pc \in {"exact", "heuristic"} /\ Finish
  BY <1>1, <1>2, <1>5, SamplerFinish
<1>6. CASE pc \in {"exact", "heuristic"} /\ \E i \in DOMAIN flight : PrintLine(i)
  <2>1. PICK i \in DOMAIN flight : PrintLine(i)
    BY <1>6
  <2>2. CommonInv' /\ PrintsSolutions' /\ Iterations' = Iterations
    BY <1>2, <2>1, PrintLineFacts DEF SamplerInv
  <2> QED
    BY <1>1, <1>2, <1>6, <2>1, <2>2, SamplerPrints DEF PrintLine
<1> QED
  BY <1>1, <1>3, <1>4, <1>5, <1>6 DEF KsamplerStep

-----------------------------------------------------------------------------
(* rsampler *)

LEMMA RsamplerStart ==
  ASSUME job \in Jobs, RsamplerInv, StartR
  PROVE  RsamplerInv'
<1>1. /\ pc = "start" /\ UNCHANGED <<job, tmc, lines, visited, reservoir>>
      /\ CommonInv /\ lines = <<>> /\ tmc = 0 /\ visited = {} /\ reservoir = <<>>
      /\ GoInto("fill", IF ManyPaths THEN 1 .. job.k ELSE Paths)
      /\ ReservoirTypeOK
  BY DEF StartR, RsamplerInv, reservoirVars, ReservoirInit
<1>2. PICK iterations : iterations = IF ManyPaths THEN 1 .. job.k ELSE Paths
  OBVIOUS
<1>3. iterations \in SUBSET Nat /\ IsFiniteSet(iterations)
  <2>1. job.k \in Nat /\ Paths \in SUBSET Nat /\ IsFiniteSet(Paths)
    BY JobTypes
  <2> QED
    BY <1>2, <2>1, UptoFinite
<1>4. LoopInv' /\ pc' = "fill" /\ todo' = iterations /\ DOMAIN flight' = {}
  BY <1>1, <1>2, <1>3, GoIntoFacts
<1>5. Paths' = Paths /\ ManyPaths' = ManyPaths
  BY <1>1, SameJob
<1>6. Tallied' = {} /\ DOMAIN reservoir = {} /\ DOMAIN lines = {}
  BY <1>1 DEF Tallied
<1>7. Mass(Tallied)' = 0
  BY <1>1, <1>6, MassEmpty DEF Mass
<1>8. FillInv'
  BY <1>1, <1>2, <1>4, <1>5, <1>6, <1>7 DEF FillInv
<1>9. ReservoirTypeOK'
  BY <1>1, <1>5 DEF ReservoirTypeOK
<1>10. LinesSound'
  BY <1>1, <1>6 DEF LinesSound
<1> QED
  BY <1>1, <1>4, <1>8, <1>9, <1>10 DEF RsamplerInv, CommonInv

LEMMA RsamplerVisit ==
  ASSUME job \in Jobs, RsamplerInv, NEW i \in todo, VisitPath(i)
  PROVE  RsamplerInv'
<1>1. /\ pc = "fill" /\ UNCHANGED <<job, pc, tmc, lines, reservoir>>
      /\ Cardinality(DOMAIN flight) < job.threads
      /\ CommonInv /\ FillInv /\ ReservoirTypeOK /\ LinesSound
  BY DEF VisitPath, RsamplerInv, Free
<1>2. PICK l \in IF ManyPaths THEN Paths \ visited ELSE {i} :
        Begin(i, l) /\ visited' = visited \cup {l}
  BY DEF VisitPath
<1>3. l \in Paths /\ l \notin visited /\ (~ManyPaths => l = i)
  BY <1>1, <1>2 DEF FillInv
<1>4. /\ LoopInv' /\ DOMAIN flight' = DOMAIN flight \cup {i} /\ todo' = todo \ {i}
      /\ flight'[i] = l /\ \A j \in DOMAIN flight : flight'[j] = flight[j]
      /\ Range(flight') = Range(flight) \cup {l}
  BY <1>1, <1>2, BeginFacts DEF CommonInv
<1>5. Paths' = Paths /\ ManyPaths' = ManyPaths
  BY <1>1, SameJob
<1>6. Tallied' = Tallied
  BY <1>2, <1>3, <1>4 DEF Tallied
<1>7. Mass(Tallied)' = Mass(Tallied)
  BY <1>1, <1>6 DEF Mass
<1>8. \A j \in DOMAIN flight' : flight'[j] \in visited'
  BY <1>1, <1>2, <1>4 DEF FillInv
<1>9. \A j, k \in DOMAIN flight' : flight'[j] = flight'[k] => j = k
  BY <1>1, <1>3, <1>4 DEF FillInv
<1>10. ~ManyPaths' => todo' \subseteq Paths' /\ visited' \cap todo' = {}
  BY <1>1, <1>2, <1>3, <1>4, <1>5 DEF FillInv
<1>11. FillInv'
  BY <1>1, <1>6, <1>7, <1>8, <1>9, <1>10 DEF FillInv
<1>12. ReservoirTypeOK'
  BY <1>1, <1>2, <1>3, <1>5 DEF ReservoirTypeOK
<1>13. LinesSound'
  BY <1>1, SameJob
<1> QED
  BY <1>1, <1>4, <1>11, <1>12, <1>13 DEF RsamplerInv, CommonInv

\* The reservoir after the path l, with a solutions of the t counted, has passed.
LEMMA PassedFacts ==
  ASSUME job \in Jobs, ReservoirTypeOK, NEW l \in Paths, NEW a \in Nat, NEW t \in Nat,
         NEW draws \in [DOMAIN reservoir -> 1 .. t]
  PROVE  /\ Passed(l, a, draws) \in Seq(Paths) /\ Len(Passed(l, a, draws)) = job.nb
         /\ \A j \in DOMAIN Passed(l, a, draws) :
              \/ Passed(l, a, draws)[j] = l /\ (a > 0 \/ Len(reservoir) < job.nb)
              \/ /\ j \in DOMAIN reservoir /\ Passed(l, a, draws)[j] = reservoir[j]
                 /\ Len(reservoir) = job.nb /\ t > a
<1>1. /\ job.nb \in Nat /\ Len(reservoir) \in {0, job.nb} /\ DOMAIN reservoir = 1 .. Len(reservoir)
      /\ \A j \in DOMAIN reservoir : reservoir[j] \in Paths
  BY JobTypes, LenProperties, ElementOfSeq DEF ReservoirTypeOK
<1>2. CASE Len(reservoir) < job.nb
  <2>1. DOMAIN reservoir = {}
    BY <1>1, <1>2
  <2>2. Passed(l, a, draws) = [j \in 1 .. job.nb |-> l]
    <3>1. Passed(l, a, draws) = [j \in 1 .. job.nb |-> IF j \in DOMAIN reservoir THEN reservoir[j] ELSE l]
      BY <1>2 DEF Passed
    <3> QED
      BY <2>1, <3>1
  <2> QED
    BY <1>1, <1>2, <2>2
<1>3. CASE ~ (Len(reservoir) < job.nb)
  <2>1. Len(reservoir) = job.nb /\ DOMAIN reservoir = 1 .. job.nb
    BY <1>1, <1>3
  <2>2. Passed(l, a, draws) = [j \in 1 .. job.nb |-> IF draws[j] <= a THEN l ELSE reservoir[j]]
    BY <1>3, <2>1 DEF Passed
  <2>3. \A j \in 1 .. job.nb : draws[j] \in 1 .. t /\ reservoir[j] \in Paths
    BY <1>1, <2>1
  <2>4. Passed(l, a, draws) \in [1 .. job.nb -> Paths]
    BY <2>2, <2>3
  <2>5. Passed(l, a, draws) \in Seq(Paths) /\ Len(Passed(l, a, draws)) = job.nb
    BY <1>1, <2>4
  <2> QED
    BY <2>1, <2>2, <2>3, <2>5
<1> QED
  BY <1>2, <1>3

LEMMA RsamplerTally ==
  ASSUME job \in Jobs, RsamplerInv, NEW i \in DOMAIN flight, TallyPath(i)
  PROVE  RsamplerInv'
<1> DEFINE l == flight[i]
           a == job.counts[l]
<1>1. /\ pc = "fill" /\ UNCHANGED <<job, lines, visited>> /\ tmc' = tmc + a
      /\ CommonInv /\ FillInv /\ ReservoirTypeOK /\ LinesSound
  BY DEF TallyPath, RsamplerInv
<1>2. /\ l \in visited /\ l \in Paths /\ visited \subseteq Paths /\ a \in Nat
      /\ tmc \in Nat /\ tmc' \in Nat /\ job.nb \in Nat
  <2>1. l \in visited /\ visited \subseteq Paths /\ tmc \in Nat
    BY <1>1 DEF FillInv, ReservoirTypeOK, CommonInv
  <2>2. l \in Paths
    BY <2>1
  <2>3. a \in Nat /\ job.nb \in Nat
    BY <2>2, JobTypes
  <2> QED
    BY <1>1, <2>1, <2>2, <2>3
<1>3. Paths' = Paths /\ ManyPaths' = ManyPaths
  BY <1>1, SameJob
<1>4. LinesSound'
  BY <1>1, SameJob
<1>5. CASE Len(reservoir) = job.nb /\ tmc' = 0
  <2>1. pc' = "crashed" /\ todo' = todo /\ flight' = flight /\ reservoir' = reservoir
    BY <1>5 DEF TallyPath, Crash
  <2>2. LoopInv' /\ ReservoirTypeOK'
    BY <1>1, <1>3, <2>1, StillFacts DEF CommonInv, ReservoirTypeOK
  <2> QED
    BY <1>1, <1>2, <1>4, <1>5, <2>1, <2>2 DEF RsamplerInv, CommonInv
<1>6. CASE ~ (Len(reservoir) = job.nb /\ tmc' = 0)
  <2>1. PICK draws \in [DOMAIN reservoir -> 1 .. tmc'] : reservoir' = Passed(l, a, draws)
    BY <1>6 DEF TallyPath
  <2>2. End(i) /\ pc' = pc
    BY <1>6 DEF TallyPath
  <2>3. /\ LoopInv' /\ DOMAIN flight' = DOMAIN flight \ {i} /\ todo' = todo
        /\ \A j \in DOMAIN flight \ {i} : flight'[j] = flight[j]
    BY <1>1, <2>2, EndFacts DEF CommonInv
  <2>4. Range(flight') = Range(flight) \ {l}
    <3>1. \A j \in DOMAIN flight \ {i} : flight[j] # l
      BY <1>1 DEF FillInv
    <3> QED
      BY <2>3, <3>1 DEF Range
  <2>5. Tallied' = Tallied \cup {l} /\ l \notin Tallied /\ Tallied \in SUBSET Paths
    <3>1. l \in Range(flight)
      BY DEF Range
    <3> QED
      BY <1>1, <1>2, <2>4, <3>1 DEF Tallied
  <2>6. Mass(Tallied)' = tmc'
    <3>1. Mass(Tallied \cup {l}) = Mass(Tallied) + a
      BY <1>2, <2>5, MassGrows
    <3> QED
      BY <1>1, <2>5, <3>1 DEF Mass, FillInv
  <2>7. /\ reservoir' \in Seq(Paths) /\ Len(reservoir') = job.nb
        /\ \A j \in DOMAIN reservoir' :
             \/ reservoir'[j] = l /\ (a > 0 \/ Len(reservoir) < job.nb)
             \/ /\ j \in DOMAIN reservoir /\ reservoir'[j] = reservoir[j]
                /\ Len(reservoir) = job.nb /\ tmc' > a
    <3> HIDE DEF l, a
    <3>1. PICK t : t = tmc'
      OBVIOUS
    <3>2. t \in Nat /\ draws \in [DOMAIN reservoir -> 1 .. t]
      BY <1>2, <2>1, <3>1
    <3>3. /\ Passed(l, a, draws) \in Seq(Paths) /\ Len(Passed(l, a, draws)) = job.nb
          /\ \A j \in DOMAIN Passed(l, a, draws) :
               \/ Passed(l, a, draws)[j] = l /\ (a > 0 \/ Len(reservoir) < job.nb)
               \/ /\ j \in DOMAIN reservoir /\ Passed(l, a, draws)[j] = reservoir[j]
                  /\ Len(reservoir) = job.nb /\ t > a
      BY <1>1, <1>2, <3>2, PassedFacts
    <3> QED
      BY <2>1, <3>1, <3>3
  <2>8. ASSUME NEW j \in DOMAIN reservoir'
        PROVE  reservoir'[j] \in Tallied' /\ (tmc' > 0 => job'.counts[reservoir'[j]] > 0)
    <3>1. CASE reservoir'[j] = l /\ a > 0
      BY <1>1, <2>5, <3>1
    <3>2. CASE reservoir'[j] = l /\ Len(reservoir) < job.nb
      <4>1. Tallied = {}
        BY <1>1, <1>2, <3>2 DEF FillInv
      <4>2. tmc = 0
        BY <1>1, <4>1, MassEmpty DEF FillInv
      <4> QED
        BY <1>1, <1>2, <2>5, <3>2, <4>2
    <3>3. CASE j \in DOMAIN reservoir /\ reservoir'[j] = reservoir[j] /\ tmc' > a
      <4>1. tmc > 0
        BY <1>1, <1>2, <3>3
      <4> QED
        BY <1>1, <2>5, <3>3, <4>1 DEF FillInv
    <3> QED
      BY <2>7, <3>1, <3>2, <3>3
  <2>9. /\ \A j \in DOMAIN flight' : flight'[j] \in visited'
        /\ \A j, k \in DOMAIN flight' : flight'[j] = flight'[k] => j = k
        /\ ~ManyPaths' => todo' \subseteq Paths' /\ visited' \cap todo' = {}
    BY <1>1, <1>3, <2>3 DEF FillInv
  <2> HIDE DEF l, a
  <2>10. FillInv'
    BY <1>1, <2>6, <2>7, <2>8, <2>9 DEF FillInv
  <2>11. ReservoirTypeOK'
    BY <1>1, <1>3, <2>7 DEF ReservoirTypeOK
  <2> QED
    BY <1>1, <1>2, <1>4, <2>2, <2>3, <2>10, <2>11 DEF RsamplerInv, CommonInv
<1> QED
  BY <1>5, <1>6

LEMMA RsamplerFilled ==
  ASSUME job \in Jobs, RsamplerInv, Filled
  PROVE  RsamplerInv'
<1>1. /\ pc = "fill" /\ UNCHANGED <<job, tmc, lines, visited, reservoir>>
      /\ CommonInv /\ FillInv /\ ReservoirTypeOK /\ LinesSound
      /\ Quiet /\ GoInto("print", DOMAIN reservoir)
  BY OverIsQuiet DEF Filled, RsamplerInv, reservoirVars, CommonInv
<1>2. DOMAIN reservoir = 1 .. Len(reservoir) /\ Len(reservoir) \in Nat /\ job.nb \in Nat
      /\ Len(reservoir) \in {0, job.nb}
  BY <1>1, LenProperties, JobTypes DEF ReservoirTypeOK
<1>3. DOMAIN reservoir \in SUBSET Nat /\ IsFiniteSet(DOMAIN reservoir)
      /\ Cardinality(DOMAIN reservoir) = Len(reservoir)
  BY <1>2, UptoFinite
<1>4. /\ LoopInv' /\ pc' = "print" /\ todo' = DOMAIN reservoir /\ DOMAIN flight' = {}
      /\ Cardinality(DOMAIN flight') = 0 /\ Cardinality(todo') = Len(reservoir)
  BY <1>1, <1>3, GoIntoFacts
<1>5. Tallied = visited
  BY <1>1 DEF Quiet, Tallied, Range
<1>6. Len(reservoir) = IF visited = {} THEN 0 ELSE job.nb
  <2>1. CASE visited = {}
    <3>1. DOMAIN reservoir = {}
      BY <1>1, <1>5, <2>1 DEF FillInv
    <3> QED
      BY <1>2, <2>1, <3>1
  <2>2. CASE visited # {}
    BY <1>1, <1>2, <1>5, <2>2 DEF FillInv
  <2> QED
    BY <2>1, <2>2
<1>7. LinesSound'
  BY <1>1, SameJob
<1>8. Iterations' = Len(reservoir)
  <2>1. Len(lines') = 0
    BY <1>1 DEF FillInv
  <2> QED
    BY <1>2, <1>4, <2>1 DEF Iterations
<1>9. PrintInv'
  BY <1>1, <1>4, <1>6, <1>7, <1>8 DEF PrintInv, FillInv, PrintsSolutions
<1>10. ReservoirTypeOK'
  BY <1>1, SameJob DEF ReservoirTypeOK
<1> QED
  BY <1>1, <1>4, <1>7, <1>9, <1>10 DEF RsamplerInv, CommonInv

\* A step of the loop that prints.
LEMMA RsamplerPrints ==
  ASSUME job \in Jobs, RsamplerInv, pc = "print", UNCHANGED <<job, pc, tmc, visited, reservoir>>,
         CommonInv', PrintsSolutions', Iterations' = Iterations, todo' \subseteq todo
  PROVE  RsamplerInv'
<1>1. PrintInv /\ ReservoirTypeOK
  BY DEF RsamplerInv
<1>2. PrintInv'
  BY <1>1 DEF PrintInv
<1>3. ReservoirTypeOK'
  BY <1>1, SameJob DEF ReservoirTypeOK
<1>4. LinesSound'
  BY DEF PrintsSolutions
<1> QED
  BY <1>2, <1>3, <1>4 DEF RsamplerInv

LEMMA RsamplerDraw ==
  ASSUME job \in Jobs, RsamplerInv, NEW i \in todo, DrawSolution(i)
  PROVE  RsamplerInv'
<1>1. /\ pc = "print" /\ UNCHANGED <<job, tmc, lines, visited, reservoir>> /\ Free(i)
      /\ CommonInv /\ PrintInv /\ ReservoirTypeOK
  BY DEF DrawSolution, RsamplerInv, reservoirVars
<1>2. PICK p : p = reservoir[i]
  OBVIOUS
<1>3. p \in Paths /\ p \in Nat /\ job.counts[p] \in Nat /\ tmc \in Nat
      /\ (tmc > 0 => job.counts[p] > 0)
  <2>1. i \in DOMAIN reservoir /\ reservoir \in Seq(Paths) /\ tmc \in Nat
        /\ (tmc > 0 => job.counts[p] > 0)
    BY <1>1, <1>2 DEF PrintInv, ReservoirTypeOK, CommonInv
  <2>2. p \in Paths
    BY <1>2, <2>1, ElementOfSeq, LenProperties
  <2> QED
    BY <2>1, <2>2, JobTypes
<1>4. CASE Solutions(p) = {}
  <2>1. pc' = "crashed" /\ todo' = todo /\ flight' = flight
    BY <1>2, <1>4 DEF DrawSolution, Crash
  <2>2. LoopInv' /\ ReservoirTypeOK'
    BY <1>1, <2>1, StillFacts, SameJob DEF CommonInv, ReservoirTypeOK
  <2>3. tmc = 0
    BY <1>3, <1>4 DEF Solutions
  <2>4. LinesSound'
    BY <1>1, SameJob DEF PrintInv, PrintsSolutions
  <2> QED
    BY <1>1, <2>1, <2>2, <2>3, <2>4 DEF RsamplerInv, CommonInv
<1>5. CASE Solutions(p) # {}
  <2>1. PICK id \in Solutions(p) : Begin(i, <<p, id>>) /\ pc' = pc
    BY <1>2, <1>5 DEF DrawSolution
  <2>2. <<p, id>> \in Nat \X Nat /\ IsSolution(<<p, id>>)
    BY <1>3 DEF IsSolution, Solutions
  <2>3. CommonInv' /\ PrintsSolutions' /\ Iterations' = Iterations /\ todo' \subseteq todo
    BY <1>1, <2>1, <2>2, DrawFacts DEF PrintInv
  <2> QED
    BY <1>1, <2>1, <2>3, RsamplerPrints
<1> QED
  BY <1>4, <1>5

LEMMA RsamplerFinish ==
  ASSUME job \in Jobs, RsamplerInv, pc = "print", Finish, UNCHANGED reservoirVars
  PROVE  RsamplerInv'
<1>1. /\ pc' = "done" /\ Quiet /\ UNCHANGED <<job, todo, flight, tmc, lines, visited, reservoir>>
      /\ CommonInv /\ PrintInv /\ ReservoirTypeOK
  BY OverIsQuiet DEF Finish, RsamplerInv, CommonInv, reservoirVars
<1>2. Len(lines) = IF visited = {} THEN 0 ELSE job.nb
  BY <1>1, QuietCount, LenProperties DEF Iterations, CommonInv, PrintInv
<1>3. LoopInv' /\ ReservoirTypeOK'
  BY <1>1, StillFacts, SameJob DEF CommonInv, ReservoirTypeOK
<1>4. LinesSound'
  BY <1>1, SameJob DEF PrintInv, PrintsSolutions
<1> QED
  BY <1>1, <1>2, <1>3, <1>4 DEF RsamplerInv, CommonInv

LEMMA RsamplerStepInv ==
  ASSUME job \in Jobs, job.tool = "rsampler" => RsamplerInv, RsamplerStep
  PROVE  job.tool = "rsampler" /\ job' = job /\ RsamplerInv'
<1>1. job.tool = "rsampler" /\ job' = job
  BY DEF RsamplerStep, StartR, Filled, VisitPath, DrawSolution, TallyPath, Finish, PrintLine
<1>2. RsamplerInv
  BY <1>1
<1>3. CASE StartR \/ Filled
  BY <1>1, <1>2, <1>3, RsamplerStart, RsamplerFilled
<1>4. CASE \E i \in todo : VisitPath(i) \/ DrawSolution(i)
  BY <1>1, <1>2, <1>4, RsamplerVisit, RsamplerDraw
<1>5. CASE \E i \in DOMAIN flight : TallyPath(i)
  BY <1>1, <1>2, <1>5, RsamplerTally
<1>6. CASE pc = "print" /\ Finish /\ UNCHANGED reservoirVars
  BY <1>1, <1>2, <1>6, RsamplerFinish
<1>7. CASE pc = "print" /\ (\E i \in DOMAIN flight : PrintLine(i)) /\ UNCHANGED reservoirVars
  <2>1. PICK i \in DOMAIN flight : PrintLine(i)
    BY <1>7
  <2>2. CommonInv' /\ PrintsSolutions' /\ Iterations' = Iterations /\ todo' = todo
    BY <1>2, <1>7, <2>1, PrintLineFacts DEF RsamplerInv, PrintInv
  <2>3. UNCHANGED <<job, pc, tmc, visited, reservoir>>
    BY <1>7, <2>1 DEF PrintLine, reservoirVars
  <2> QED
    BY <1>1, <1>2, <1>7, <2>2, <2>3, RsamplerPrints
<1> QED
  BY <1>1, <1>3, <1>4, <1>5, <1>6, <1>7 DEF RsamplerStep

-----------------------------------------------------------------------------
(* rhsampler *)

LEMMA Quotient ==
  ASSUME NEW z \in Nat, NEW s \in Nat \ {0}
  PROVE  z \div s \in Nat /\ (z \div s) * s <= z
<1>1. z \div s \in Nat
  BY SMT
<1>2. (z \div s) * s <= z
  BY Z3
<1> QED
  BY <1>1, <1>2

\* The solutions of whole paths, at the mean number, are no more than those to be left out.
LEMMA JumpBound ==
  ASSUME NEW left \in Nat, NEW v \in Nat \ {0}, NEW t \in Nat \ {0}
  PROVE  LET q == (left * v) \div t
         IN  q \in Nat /\ left - (q * t) \div v \in Nat
<1> DEFINE q == (left * v) \div t
           r == (q * t) \div v
<1>1. left * v \in Nat
  BY SMT
<1>2. q \in Nat /\ q * t <= left * v
  BY <1>1, Quotient
<1> HIDE DEF q
<1>3. q * t \in Nat
  BY <1>2, SMT
<1>4. r \in Nat /\ r * v <= q * t
  BY <1>3, Quotient
<1> HIDE DEF r
<1>5. r * v <= left * v
  BY <1>1, <1>2, <1>3, <1>4, SMT
<1>6. r <= left
  BY <1>4, <1>5, Z3
<1> QED
  BY <1>2, <1>4, <1>6 DEF q, r

\* The solutions passed at the solution n of the path p.
PassedAt(p, n) == {x \in SolutionsOf(Paths) : x[1] < p \/ (x[1] = p /\ x[2] < n)}

LEMMA PassedIs ==
  /\ Passed1 = PassedAt(ipath, isol)
  /\ job' = job => Passed1' = PassedAt(ipath', isol')
<1>1. UNION {{p} \X (1 .. job.counts[p]) : p \in Paths} = Units(job.counts, Paths)
  <2>1. ASSUME NEW p \in Paths, NEW x \in {p} \X (1 .. job.counts[p])
        PROVE  x \in Units(job.counts, Paths)
    BY <2>1 DEF Units
  <2>2. ASSUME NEW x \in Units(job.counts, Paths)
        PROVE  \E p \in Paths : x \in {p} \X (1 .. job.counts[p])
    <3>1. x \in Paths \X Nat /\ x[2] \in 1 .. job.counts[x[1]]
      BY DEF Units
    <3> QED
      BY <3>1
  <2> QED
    BY <2>1, <2>2
<1>2. Passed1 = PassedAt(ipath, isol)
  BY <1>1 DEF Passed1, PassedAt, SolutionsOf, Solutions
<1>3. ASSUME job' = job PROVE Passed1' = PassedAt(ipath', isol')
  <2>1. Paths' = Paths
    BY <1>3, SameJob
  <2> QED
    BY <1>1, <1>3, <2>1 DEF Passed1, PassedAt, SolutionsOf, Solutions
<1> QED
  BY <1>2, <1>3

LEMMA SolutionPair ==
  ASSUME job \in Jobs
  PROVE  \A x \in SolutionsOf(Paths) :
           /\ x \in Paths \X Nat /\ x = <<x[1], x[2]>>
           /\ x[1] \in Nat \ {0} /\ x[2] \in Nat \ {0} /\ x[2] <= job.counts[x[1]]
           /\ job.counts[x[1]] \in Nat
<1> TAKE x \in SolutionsOf(Paths)
<1>1. x \in Paths \X Nat /\ x[2] \in 1 .. job.counts[x[1]]
  BY DEF SolutionsOf, Units
<1>2. x[1] \in Paths
  BY <1>1
<1>3. x[1] \in Nat \ {0} /\ job.counts[x[1]] \in Nat
  BY <1>2, JobTypes
<1> QED
  BY <1>1, <1>3

\* The next solution: one of the path's, not yet passed, and passed by every later position.
LEMMA NextSolution ==
  ASSUME job \in Jobs, NEW p \in Paths, NEW n \in Nat \ {0}, n <= job.counts[p]
  PROVE  /\ <<p, n>> \in SolutionsOf(Paths) /\ <<p, n>> \in Paths \X Nat
         /\ <<p, n>> \notin PassedAt(p, n)
         /\ PassedAt(p, n + 1) = PassedAt(p, n) \cup {<<p, n>>}
         /\ \A k \in Nat : k >= n + 1 => PassedAt(p, n + 1) \subseteq PassedAt(p, k)
<1>1. p \in Nat /\ job.counts[p] \in Nat
  BY JobTypes
<1>2. <<p, n>> \in SolutionsOf(Paths) /\ <<p, n>> \in Paths \X Nat
  BY <1>1 DEF SolutionsOf, Units
<1>3. <<p, n>> \notin PassedAt(p, n)
  BY <1>1 DEF PassedAt
<1>4. PassedAt(p, n + 1) = PassedAt(p, n) \cup {<<p, n>>}
  <2>1. ASSUME NEW x \in SolutionsOf(Paths)
        PROVE  x \in PassedAt(p, n + 1) <=> x \in PassedAt(p, n) \/ x = <<p, n>>
    <3>1. x = <<x[1], x[2]>> /\ x[1] \in Nat /\ x[2] \in Nat
      BY SolutionPair
    <3>2. x = <<p, n>> <=> x[1] = p /\ x[2] = n
      BY <3>1
    <3> QED
      BY <1>1, <3>1, <3>2 DEF PassedAt
  <2>2. PassedAt(p, n + 1) \subseteq SolutionsOf(Paths) /\ PassedAt(p, n) \subseteq SolutionsOf(Paths)
    BY DEF PassedAt
  <2> QED
    BY <1>2, <2>1, <2>2
<1>5. ASSUME NEW k \in Nat, k >= n + 1, NEW x \in PassedAt(p, n + 1) PROVE x \in PassedAt(p, k)
  <2>1. x \in SolutionsOf(Paths) /\ (x[1] < p \/ (x[1] = p /\ x[2] < n + 1))
    BY DEF PassedAt
  <2>2. x[2] \in Nat
    BY <2>1, SolutionPair
  <2> QED
    BY <1>5, <2>1, <2>2 DEF PassedAt
<1> QED
  BY <1>2, <1>3, <1>4, <1>5

\* From the position n past the solutions of the path p to the next path.
LEMMA NextPathPassed ==
  ASSUME job \in Jobs, NEW p \in Paths, NEW n \in Nat, n > job.counts[p]
  PROVE  /\ PassedAt(p, n) \subseteq PassedAt(p + 1, n - job.counts[p])
         /\ n = job.counts[p] + 1 => PassedAt(p, n) = PassedAt(p + 1, 1)
<1>1. p \in Nat /\ job.counts[p] \in Nat
  BY JobTypes
<1>2. PassedAt(p, n) \subseteq PassedAt(p + 1, n - job.counts[p])
  <2> SUFFICES ASSUME NEW x \in PassedAt(p, n) PROVE x \in PassedAt(p + 1, n - job.counts[p])
    OBVIOUS
  <2>1. x \in SolutionsOf(Paths) /\ (x[1] < p \/ x[1] = p)
    BY DEF PassedAt
  <2>2. x[1] \in Nat
    BY <2>1, SolutionPair
  <2> QED
    BY <1>1, <2>1, <2>2 DEF PassedAt
<1>3. ASSUME n = job.counts[p] + 1, NEW x \in PassedAt(p + 1, 1) PROVE x \in PassedAt(p, n)
  <2>1. x \in SolutionsOf(Paths) /\ (x[1] < p + 1 \/ (x[1] = p + 1 /\ x[2] < 1))
    BY DEF PassedAt
  <2>2. x[1] \in Nat /\ x[2] \in Nat \ {0} /\ x[2] <= job.counts[x[1]] /\ job.counts[x[1]] \in Nat
    BY <2>1, SolutionPair
  <2>3. x[1] < p \/ (x[1] = p /\ x[2] < n)
    BY <1>1, <1>3, <2>1, <2>2
  <2> QED
    BY <2>1, <2>3 DEF PassedAt
<1>4. ASSUME n = job.counts[p] + 1 PROVE n - job.counts[p] = 1
  BY <1>1, <1>4
<1> QED
  BY <1>2, <1>3, <1>4

Before(p) == {q \in Paths : q < p}

\* At most so many solutions have been passed.
LEMMA PassedBound ==
  ASSUME job \in Jobs, NEW p \in Paths, NEW n \in Nat \ {0}
  PROVE  /\ IsFiniteSet(PassedAt(p, n)) /\ Mass(Before(p)) \in Nat
         /\ Cardinality(PassedAt(p, n)) \in Nat
         /\ Cardinality(PassedAt(p, n)) <= Mass(Before(p)) + n - 1
<1> DEFINE A == SolutionsOf(Before(p))
           h == [q \in {p} |-> n - 1]
           B == Units(h, {p})
<1>1. Before(p) \in SUBSET Paths
  BY DEF Before
<1>2. IsFiniteSet(A) /\ Mass(Before(p)) = Cardinality(A) /\ Mass(Before(p)) \in Nat
  BY <1>1, MassFacts
<1>3. IsFiniteSet(B) /\ Cardinality(B) = n - 1
  <2>1. h[p] = n - 1 /\ h[p] \in Nat
    OBVIOUS
  <2> HIDE DEF h
  <2> QED
    BY <2>1, UnitsOne
<1>4. PassedAt(p, n) \subseteq A \cup B
  <2> SUFFICES ASSUME NEW x \in PassedAt(p, n) PROVE x \in A \cup B
    OBVIOUS
  <2>1. x \in SolutionsOf(Paths) /\ (x[1] < p \/ (x[1] = p /\ x[2] < n))
    BY DEF PassedAt
  <2>2. x \in Paths \X Nat /\ x = <<x[1], x[2]>> /\ x[2] \in Nat \ {0}
        /\ x[2] \in 1 .. job.counts[x[1]]
    BY <2>1, SolutionPair
  <2>3. CASE x[1] < p
    BY <2>2, <2>3 DEF SolutionsOf, Units, Before
  <2>4. CASE x[1] = p /\ x[2] < n
    BY <2>2, <2>4 DEF Units
  <2> QED
    BY <2>1, <2>3, <2>4
<1> HIDE DEF A, B
<1>5. IsFiniteSet(A \cup B)
      /\ Cardinality(A \cup B) = Cardinality(A) + Cardinality(B) - Cardinality(A \cap B)
  BY <1>2, <1>3, FS_Union
<1>6. Cardinality(A \cap B) \in Nat
  BY <1>2, FS_Intersection, FS_CardinalityType
<1>7. IsFiniteSet(PassedAt(p, n)) /\ Cardinality(PassedAt(p, n)) <= Cardinality(A \cup B)
  BY <1>4, <1>5, FS_Subset
<1>8. Cardinality(PassedAt(p, n)) \in Nat
  BY <1>7, FS_CardinalityType
<1> QED
  BY <1>2, <1>3, <1>5, <1>6, <1>7, <1>8

UpTo(p) == {q \in Paths : q <= p}

LEMMA UpToMass ==
  ASSUME job \in Jobs, NEW p \in Paths
  PROVE  Mass(UpTo(p)) = Mass(Before(p)) + job.counts[p]
<1>1. UpTo(p) \in SUBSET Paths /\ p \in UpTo(p)
  BY JobTypes DEF UpTo
<1>2. UpTo(p) \ {p} = Before(p)
  <2>1. p \in Nat /\ \A q \in Paths : q \in Nat /\ (q < p <=> q <= p /\ q # p)
    BY JobTypes
  <2> QED
    BY <2>1 DEF UpTo, Before
<1> QED
  BY <1>1, <1>2, MassAdd

\* Visiting the path after those counted.
LEMMA VisitFacts ==
  ASSUME job \in Jobs, NEW p \in Nat \ {0}, Visit(p), tmc \in Nat, visits \in Nat
  PROVE  /\ ipath' = p /\ tmc' \in Nat /\ visits' \in Nat
         /\ tmc = Mass(Before(p)) => tmc' = Mass(UpTo(p))
<1>1. CASE p \in Paths
  BY <1>1, JobTypes, UpToMass DEF Visit
<1>2. CASE p \notin Paths
  <2>1. UpTo(p) = Before(p)
    <3>1. \A q \in Paths : q \in Nat /\ q # p
      BY <1>2, JobTypes
    <3> QED
      BY <3>1 DEF UpTo, Before
  <2> QED
    BY <1>2, <2>1 DEF Visit
<1> QED
  BY <1>1, <1>2

\* What is left to show of a step that does not print.
LEMMA WalkFrame ==
  ASSUME job \in Jobs, RhsamplerInv, pc # "done", UNCHANGED <<job, todo, flight, lines>>,
         pc' \in {"skip", "crashed"}, tmc' \in Nat, SkipTypeOK',
         pc' = "crashed" => job.nb = 0 \/ jumped', pc' = "skip" /\ ~jumped' => WalkInv'
  PROVE  RhsamplerInv'
<1>1. CommonInv /\ Quiet /\ lines = <<>>
  BY DEF RhsamplerInv
<1>2. CommonInv' /\ Quiet'
  BY <1>1, StillFacts DEF CommonInv, Quiet
<1> QED
  BY <1>1, <1>2 DEF RhsamplerInv

\* The parts of WalkInv once the mass and the solutions passed are expanded.
LEMMA WalkNext ==
  ASSUME job' = job, isol' \in Nat, isol' >= 1,
         Len(found') < job.nb /\ ipath' \in Paths => isol' <= job.counts[ipath'] + 1,
         tmc' = Mass(UpTo(ipath')), IsInjective(found'),
         Range(found') \subseteq PassedAt(ipath', isol'),
         Len(found') < job.nb => Range(found') = PassedAt(ipath', isol')
  PROVE  WalkInv'
<1>1. Passed1' = PassedAt(ipath', isol') /\ Paths' = Paths
  BY PassedIs, SameJob
<1>2. {p \in Paths : p <= ipath}' = UpTo(ipath')
  BY <1>1 DEF UpTo
<1>3. Mass({p \in Paths : p <= ipath})' = tmc'
  BY <1>2 DEF Mass
<1> QED
  BY <1>1, <1>3 DEF WalkInv

LEMMA WalkNow ==
  ASSUME WalkInv
  PROVE  /\ isol >= 1
         /\ Len(found) < job.nb /\ ipath \in Paths => isol <= job.counts[ipath] + 1
         /\ tmc = Mass(UpTo(ipath))
         /\ IsInjective(found) /\ Range(found) \subseteq PassedAt(ipath, isol)
         /\ Len(found) < job.nb => Range(found) = PassedAt(ipath, isol)
BY PassedIs DEF WalkInv, UpTo

LEMMA RhsamplerStart ==
  ASSUME job \in Jobs, RhsamplerInv, StartRh
  PROVE  RhsamplerInv'
<1>1. /\ pc = "start" /\ pc' = "skip" /\ Visit(1)
      /\ UNCHANGED <<job, todo, flight, lines, isol, found, jumped>>
      /\ tmc = 0 /\ isol = 1 /\ visits = 0 /\ found = <<>> /\ SkipTypeOK
  BY DEF StartRh, RhsamplerInv, SkipInit
<1>2. Before(1) = {}
  BY JobTypes DEF Before
<1>3. ipath' = 1 /\ tmc' \in Nat /\ visits' \in Nat /\ tmc' = Mass(UpTo(1))
  <2>0. Mass(Before(1)) = 0
    BY <1>2, MassEmpty
  <2>1. tmc = Mass(Before(1)) /\ tmc \in Nat /\ visits \in Nat /\ 1 \in Nat \ {0}
    BY <1>1, <2>0
  <2> QED
    BY <1>1, <2>1, VisitFacts
<1>4. PassedAt(1, 1) = {}
  <2>1. \A x \in SolutionsOf(Paths) : x[1] \in Nat \ {0} /\ x[2] \in Nat \ {0}
    BY SolutionPair
  <2> QED
    BY <2>1 DEF PassedAt
<1>5. Range(found) = {} /\ IsInjective(found)
  BY <1>1 DEF Range, IsInjective
<1>6. 1 \in Paths => 1 <= job.counts[1] + 1
  BY JobTypes
<1>7. WalkInv'
  <2>1. /\ isol' = 1 /\ ipath' = 1 /\ found' = found
        /\ ipath' \in Paths => isol' <= job.counts[ipath'] + 1
    BY <1>1, <1>3, <1>6
  <2>2. tmc' = Mass(UpTo(ipath')) /\ PassedAt(ipath', isol') = {}
    BY <1>3, <1>4, <2>1
  <2>3. IsInjective(found') /\ Range(found') = {}
    BY <1>5, <2>1
  <2>4. isol' \in Nat /\ isol' >= 1 /\ job' = job
    BY <1>1, <2>1
  <2> QED
    BY <2>1, <2>2, <2>3, <2>4, WalkNext
<1>8. SkipTypeOK'
  BY <1>1, <1>3, SameJob DEF SkipTypeOK
<1> QED
  BY <1>1, <1>3, <1>7, <1>8, WalkFrame

LEMMA LookingFacts ==
  ASSUME job \in Jobs, RhsamplerInv, Looking
  PROVE  /\ pc = "skip" /\ ipath \in Paths /\ ipath \in Nat \ {0} /\ isol \in Nat
         /\ visits \in Nat /\ tmc \in Nat /\ found \in Seq(Paths \X Nat) /\ Len(found) \in Nat
         /\ Len(found) <= job.nb /\ job.nb \in Nat /\ job.counts[ipath] \in Nat
         /\ jumped \in BOOLEAN /\ SkipTypeOK
         /\ ~jumped => WalkInv
BY JobTypes, LenProperties DEF Looking, RhsamplerInv, SkipTypeOK, CommonInv

LEMMA RhsamplerNextPath ==
  ASSUME job \in Jobs, RhsamplerInv, NextPath
  PROVE  RhsamplerInv'
<1>1. /\ Looking /\ Left > 0 /\ isol' = Left /\ Visit(ipath + 1)
      /\ UNCHANGED <<job, pc, todo, flight, lines, found, jumped>>
  BY DEF NextPath, NextPathFirst
<1>2. /\ pc = "skip" /\ ipath \in Paths /\ ipath \in Nat \ {0} /\ isol \in Nat
      /\ visits \in Nat /\ tmc \in Nat /\ job.nb \in Nat /\ job.counts[ipath] \in Nat
      /\ SkipTypeOK /\ (~jumped => WalkInv) /\ Len(found) \in Nat
  BY <1>1, LookingFacts
<1>3. isol' = isol - job.counts[ipath] /\ isol' \in Nat /\ isol' >= 1 /\ ipath + 1 \in Nat \ {0}
      /\ isol > job.counts[ipath]
  BY <1>1, <1>2 DEF Left
<1>4. /\ ipath' = ipath + 1 /\ tmc' \in Nat /\ visits' \in Nat
      /\ (tmc = Mass(Before(ipath + 1)) => tmc' = Mass(UpTo(ipath + 1)))
  BY <1>1, <1>2, <1>3, VisitFacts
<1>5. SkipTypeOK'
  BY <1>1, <1>2, <1>3, <1>4, SameJob DEF SkipTypeOK
<1>6. ASSUME ~jumped' PROVE WalkInv'
  <2>1. WalkInv
    BY <1>1, <1>2, <1>6
  <2>2. UpTo(ipath) = Before(ipath + 1)
    <3>1. \A q \in Paths : q \in Nat /\ (q <= ipath <=> q < ipath + 1)
      BY <1>2, JobTypes
    <3> QED
      BY <3>1 DEF UpTo, Before
  <2>3. tmc' = Mass(UpTo(ipath'))
    BY <1>4, <2>1, <2>2, WalkNow
  <2>4. /\ PassedAt(ipath, isol) \subseteq PassedAt(ipath', isol')
        /\ isol = job.counts[ipath] + 1 => PassedAt(ipath, isol) = PassedAt(ipath', 1)
    BY <1>2, <1>3, <1>4, NextPathPassed
  <2>5. Range(found') \subseteq PassedAt(ipath', isol') /\ IsInjective(found')
    BY <1>1, <2>1, <2>4, WalkNow
  <2>6. ASSUME Len(found) < job.nb PROVE isol' = 1 /\ Range(found) = PassedAt(ipath', 1)
    <3>1. isol <= job.counts[ipath] + 1 /\ Range(found) = PassedAt(ipath, isol)
      BY <1>2, <2>1, <2>6, WalkNow
    <3>2. isol = job.counts[ipath] + 1
      BY <1>2, <1>3, <3>1
    <3> QED
      BY <1>2, <1>3, <2>4, <3>1, <3>2
  <2>7. ipath' \in Paths => job.counts[ipath'] \in Nat
    BY JobTypes
  <2> QED
    BY <1>1, <1>3, <2>3, <2>5, <2>6, <2>7, WalkNext
<1> QED
  BY <1>1, <1>2, <1>4, <1>5, <1>6, WalkFrame

LEMMA RhsamplerJump ==
  ASSUME job \in Jobs, RhsamplerInv, JumpPaths
  PROVE  RhsamplerInv'
<1>1. /\ Looking /\ Left > 0 /\ ~Near /\ jumped' = TRUE /\ UNCHANGED <<job, lines, found>>
  BY DEF JumpPaths
<1>2. /\ pc = "skip" /\ ipath \in Nat \ {0} /\ isol \in Nat
      /\ visits \in Nat /\ tmc \in Nat /\ job.nb \in Nat /\ job.counts[ipath] \in Nat
      /\ SkipTypeOK
  BY <1>1, LookingFacts
<1>3. Left \in Nat /\ visits \in Nat \ {0}
  BY <1>1, <1>2, RhAssumption DEF Left, Near
<1>4. CASE tmc = 0
  <2>1. pc' = "crashed" /\ UNCHANGED <<tmc, ipath, isol, visits, todo, flight>>
    BY <1>4 DEF JumpPaths, Crash
  <2>2. SkipTypeOK'
    BY <1>1, <1>2, <2>1, SameJob DEF SkipTypeOK
  <2> QED
    BY <1>1, <1>2, <2>1, <2>2, WalkFrame
<1>5. CASE tmc # 0
  <2> DEFINE n == (Left * visits) \div tmc
  <2>1. /\ Visit(ipath + n) /\ isol' = Left - (n * tmc) \div visits
        /\ UNCHANGED <<pc, todo, flight>>
    BY <1>5 DEF JumpPaths
  <2>2. n \in Nat /\ isol' \in Nat
    <3>1. PICK left \in Nat : left = Left
      BY <1>3
    <3>2. tmc \in Nat \ {0}
      BY <1>2, <1>5
    <3>3. (left * visits) \div tmc \in Nat
          /\ left - (((left * visits) \div tmc) * tmc) \div visits \in Nat
      BY <1>3, <3>2, JumpBound
    <3> QED
      BY <2>1, <3>1, <3>3
  <2> HIDE DEF n
  <2>3. ipath + n \in Nat \ {0}
    BY <1>2, <2>2
  <2>4. ipath' = ipath + n /\ tmc' \in Nat /\ visits' \in Nat
    BY <1>2, <2>1, <2>3, VisitFacts
  <2>5. SkipTypeOK'
    BY <1>1, <1>2, <2>2, <2>3, <2>4, SameJob DEF SkipTypeOK
  <2> QED
    BY <1>1, <1>2, <2>1, <2>4, <2>5, WalkFrame
<1> QED
  BY <1>4, <1>5

\* The random skip asks for no probability above 1 before a jump, with m solutions taken.
LEMMA SeenEnough ==
  ASSUME job \in Jobs, RhsamplerInv, Looking, ~jumped, isol <= job.counts[ipath],
         NEW next \in Nat, next >= isol
  PROVE  /\ isol \in Nat \ {0}
         /\ Len(found) < Seen(next) /\ Len(found) + 1 <= Seen(next) /\ Seen(next) \in Nat
<1>1. /\ ipath \in Paths /\ isol \in Nat /\ tmc \in Nat /\ found \in Seq(Paths \X Nat)
      /\ job.counts[ipath] \in Nat /\ WalkInv /\ Len(found) \in Nat
  BY LookingFacts
<1>2. /\ isol >= 1 /\ tmc = Mass(UpTo(ipath)) /\ IsInjective(found)
      /\ Range(found) \subseteq PassedAt(ipath, isol)
  BY <1>1, WalkNow
<1>3. isol \in Nat \ {0}
  BY <1>1, <1>2
<1>4. /\ IsFiniteSet(PassedAt(ipath, isol)) /\ Mass(Before(ipath)) \in Nat
      /\ Cardinality(PassedAt(ipath, isol)) \in Nat
      /\ Cardinality(PassedAt(ipath, isol)) <= Mass(Before(ipath)) + isol - 1
  BY <1>1, <1>3, PassedBound
<1>5. Cardinality(Range(found)) <= Cardinality(PassedAt(ipath, isol))
  BY <1>2, <1>4, FS_Subset
<1>6. Cardinality(Range(found)) = Len(found)
  BY <1>1, <1>2, InjectiveCard
<1>7. tmc - job.counts[ipath] = Mass(Before(ipath))
  BY <1>1, <1>2, <1>4, UpToMass
<1>8. Seen(next) = Mass(Before(ipath)) + next + 1
  BY <1>7 DEF Seen
<1> QED
  BY <1>1, <1>3, <1>4, <1>5, <1>6, <1>8

LEMMA SkipFacts ==
  ASSUME job \in Jobs, isol \in Nat, NEW next, NEW size, Skip(next, size)
  PROVE  /\ UNCHANGED <<todo, flight>> /\ isol' \in Nat
         /\ \/ pc' = "crashed" /\ size > Seen(next)
            \/ pc' = pc /\ isol' >= isol + 1
BY RhAssumption DEF Skip, Crash

LEMMA RhsamplerFill ==
  ASSUME job \in Jobs, RhsamplerInv, Fill
  PROVE  RhsamplerInv'
<1> DEFINE x == <<ipath, isol>>
<1>1. /\ Looking /\ Left <= 0 /\ Len(found) < job.nb /\ found' = Append(found, x)
      /\ UNCHANGED <<job, tmc, lines, ipath, visits, jumped>>
      /\ IF Len(found') = job.nb THEN Skip(isol + 1, job.nb)
         ELSE isol' = isol + 1 /\ UNCHANGED <<pc, todo, flight>>
  BY DEF Fill
<1>2. /\ pc = "skip" /\ ipath \in Paths /\ ipath \in Nat \ {0} /\ isol \in Nat
      /\ visits \in Nat /\ tmc \in Nat /\ job.nb \in Nat /\ job.counts[ipath] \in Nat
      /\ found \in Seq(Paths \X Nat) /\ Len(found) \in Nat
      /\ SkipTypeOK /\ (~jumped => WalkInv)
  BY <1>1, LookingFacts
<1>3. isol <= job.counts[ipath]
  BY <1>1, <1>2 DEF Left
<1>4. /\ UNCHANGED <<todo, flight>> /\ isol' \in Nat
      /\ \/ pc' = "crashed" /\ job.nb > Seen(isol + 1) /\ Len(found') = job.nb
         \/ pc' = pc /\ isol' >= isol + 1
      /\ Len(found') # job.nb => isol' = isol + 1 /\ pc' = pc
  BY <1>1, <1>2, SkipFacts
<1>5. x \in Paths \X Nat
  BY <1>2
<1>6. /\ found' \in Seq(Paths \X Nat) /\ Len(found') = Len(found) + 1
      /\ Range(found') = Range(found) \cup {x}
      /\ IsInjective(found) /\ x \notin Range(found) => IsInjective(found')
  BY <1>1, <1>2, <1>5, AppendRange
<1>7. SkipTypeOK'
  BY <1>1, <1>2, <1>4, <1>6, SameJob DEF SkipTypeOK
<1>8. ASSUME ~jumped PROVE pc' = pc /\ WalkInv'
  <2>1. isol \in Nat \ {0} /\ Len(found) + 1 <= Seen(isol + 1) /\ Seen(isol + 1) \in Nat
    BY <1>1, <1>2, <1>3, <1>8, SeenEnough
  <2>2. pc' = pc /\ isol' >= isol + 1
    BY <1>2, <1>4, <1>6, <2>1
  <2>3. /\ x \notin PassedAt(ipath, isol)
        /\ PassedAt(ipath, isol + 1) = PassedAt(ipath, isol) \cup {x}
        /\ PassedAt(ipath, isol + 1) \subseteq PassedAt(ipath, isol')
    BY <1>2, <1>3, <1>4, <2>1, <2>2, NextSolution
  <2>4. /\ tmc = Mass(UpTo(ipath)) /\ IsInjective(found)
        /\ Range(found) = PassedAt(ipath, isol)
    BY <1>1, <1>2, <1>8, WalkNow
  <2>5. IsInjective(found') /\ Range(found') \subseteq PassedAt(ipath', isol')
    BY <1>1, <1>6, <2>3, <2>4
  <2>6. ASSUME Len(found') < job.nb
        PROVE  isol' <= job.counts[ipath'] + 1 /\ Range(found') = PassedAt(ipath', isol')
    <3>1. isol' = isol + 1 /\ ipath' = ipath
      BY <1>1, <1>2, <1>4, <1>6, <2>6
    <3>2. isol' <= job.counts[ipath'] + 1
      BY <1>2, <1>3, <3>1
    <3> HIDE DEF x
    <3>3. Range(found') = PassedAt(ipath', isol')
      BY <1>6, <2>3, <2>4, <3>1
    <3> QED
      BY <3>2, <3>3
  <2>7. isol' >= 1
    BY <1>2, <1>4, <2>2
  <2> QED
    BY <1>1, <1>4, <2>2, <2>4, <2>5, <2>6, <2>7, WalkNext
<1> QED
  BY <1>1, <1>2, <1>4, <1>7, <1>8, WalkFrame

LEMMA RhsamplerReplace ==
  ASSUME job \in Jobs, RhsamplerInv, Replace
  PROVE  RhsamplerInv'
<1> DEFINE x == <<ipath, isol>>
<1>1. /\ Looking /\ Left <= 0 /\ Len(found) = job.nb
      /\ UNCHANGED <<job, tmc, lines, ipath, visits, jumped>>
  BY DEF Replace
<1>2. /\ pc = "skip" /\ ipath \in Paths /\ ipath \in Nat \ {0} /\ isol \in Nat
      /\ visits \in Nat /\ tmc \in Nat /\ job.nb \in Nat /\ job.counts[ipath] \in Nat
      /\ found \in Seq(Paths \X Nat) /\ Len(found) \in Nat
      /\ SkipTypeOK /\ (~jumped => WalkInv)
  BY <1>1, LookingFacts
<1>3. isol <= job.counts[ipath]
  BY <1>1, <1>2 DEF Left
<1>4. CASE found = <<>>
  <2>1. pc' = "crashed" /\ UNCHANGED <<todo, flight, isol, found>> /\ job.nb = 0
    BY <1>1, <1>4 DEF Replace, Crash
  <2>2. SkipTypeOK'
    BY <1>1, <1>2, <2>1, SameJob DEF SkipTypeOK
  <2> QED
    BY <1>1, <1>2, <2>1, <2>2, WalkFrame
<1>5. CASE found # <<>>
  <2>1. PICK r \in DOMAIN found : found' = [found EXCEPT ![r] = x]
    BY <1>5 DEF Replace
  <2>2. Skip(isol, job.nb)
    BY <1>5 DEF Replace
  <2>3. /\ UNCHANGED <<todo, flight>> /\ isol' \in Nat
        /\ \/ pc' = "crashed" /\ job.nb > Seen(isol)
           \/ pc' = pc /\ isol' >= isol + 1
    BY <1>2, <2>2, SkipFacts
  <2>4. x \in Paths \X Nat
    BY <1>2
  <2>5. /\ found' \in Seq(Paths \X Nat) /\ Len(found') = Len(found) /\ DOMAIN found' = DOMAIN found
        /\ \A j \in DOMAIN found : found'[j] = IF j = r THEN x ELSE found[j]
    BY <1>2, <2>1, <2>4, ExceptSeq, LenProperties
  <2>6. SkipTypeOK'
    BY <1>1, <1>2, <2>3, <2>5, SameJob DEF SkipTypeOK
  <2>7. ASSUME ~jumped PROVE pc' = pc /\ WalkInv'
    <3>1. isol \in Nat \ {0} /\ Len(found) < Seen(isol) /\ Seen(isol) \in Nat
      BY <1>1, <1>2, <1>3, <2>7, SeenEnough
    <3>2. pc' = pc /\ isol' >= isol + 1
      BY <1>1, <1>2, <2>3, <3>1
    <3>3. /\ x \notin PassedAt(ipath, isol)
          /\ PassedAt(ipath, isol + 1) = PassedAt(ipath, isol) \cup {x}
          /\ PassedAt(ipath, isol + 1) \subseteq PassedAt(ipath, isol')
      BY <1>2, <1>3, <2>3, <3>1, <3>2, NextSolution
    <3>4. /\ tmc = Mass(UpTo(ipath)) /\ IsInjective(found)
          /\ Range(found) \subseteq PassedAt(ipath, isol)
      BY <1>2, <2>7, WalkNow
    <3>5. \A j \in DOMAIN found : found[j] # x
      BY <3>3, <3>4 DEF Range
    <3>6. IsInjective(found')
      BY <2>5, <3>4, <3>5 DEF IsInjective
    <3>7. Range(found') \subseteq Range(found) \cup {x}
      BY <2>5 DEF Range
    <3>8. Range(found') \subseteq PassedAt(ipath', isol')
      BY <1>1, <3>3, <3>4, <3>7
    <3>9. isol' >= 1 /\ ~ (Len(found') < job.nb)
      BY <1>1, <1>2, <2>3, <2>5, <3>2
    <3> QED
      BY <1>1, <2>3, <3>2, <3>4, <3>6, <3>8, <3>9, WalkNext
  <2> QED
    BY <1>1, <1>2, <2>3, <2>6, <2>7, WalkFrame
<1> QED
  BY <1>4, <1>5

LEMMA RhsamplerPrint ==
  ASSUME job \in Jobs, RhsamplerInv, PrintFound
  PROVE  RhsamplerInv'
<1>1. /\ pc = "skip" /\ pc' = "done" /\ ipath \notin Paths /\ lines' = found
      /\ UNCHANGED <<job, todo, flight, tmc, ipath, isol, visits, found, jumped>>
      /\ CommonInv /\ Quiet /\ SkipTypeOK /\ (~jumped => WalkInv)
  BY DEF PrintFound, RhsamplerInv, skipVars
<1>2. /\ found \in Seq(Paths \X Nat) /\ Len(found) <= job.nb /\ ipath \in Nat \ {0} /\ job.nb \in Nat
      /\ Len(found) \in Nat
  BY <1>1, JobTypes, LenProperties DEF SkipTypeOK
<1>3. found \in Seq(Nat \X Nat)
  <2>1. Paths \X Nat \subseteq Nat \X Nat
    BY JobTypes
  <2> QED
    BY <1>2, <2>1, SeqMonotonic
<1>4. CommonInv' /\ Quiet' /\ SkipTypeOK'
  <2>1. LoopInv'
    BY <1>1, StillFacts DEF CommonInv
  <2> QED
    BY <1>1, <1>3, <2>1, SameJob DEF CommonInv, Quiet, SkipTypeOK
<1>5. ASSUME ~jumped
      PROVE  /\ IsInjective(found) /\ LinesSound'
             /\ Len(found) = job.nb \/ (Len(found) = Mass(Paths) /\ Len(found) < job.nb)
  <2>1. /\ IsInjective(found) /\ Range(found) \subseteq PassedAt(ipath, isol)
        /\ Len(found) < job.nb => Range(found) = PassedAt(ipath, isol)
    BY <1>1, <1>5, WalkNow
  <2>2. PassedAt(ipath, isol) = SolutionsOf(Paths)
    <3>1. \A q \in Paths : q < ipath
      BY <1>1, <1>2, JobTypes
    <3>2. \A y \in SolutionsOf(Paths) : y[1] < ipath
      BY <3>1, SolutionPair
    <3> QED
      BY <3>2 DEF PassedAt
  <2>3. \A j \in DOMAIN found : found[j] \in SolutionsOf(Paths)
    BY <2>1, <2>2 DEF Range
  <2>4. \A y \in SolutionsOf(Paths) : IsSolution(y)
    BY DEF SolutionsOf, Units, IsSolution, Solutions
  <2>5. LinesSound'
    BY <1>1, <2>3, <2>4, SameJob DEF LinesSound
  <2>6. Cardinality(Range(found)) = Len(found)
    BY <1>2, <2>1, InjectiveCard
  <2>7. Mass(Paths) = Cardinality(SolutionsOf(Paths))
    BY MassFacts
  <2> QED
    BY <1>2, <2>1, <2>2, <2>5, <2>6, <2>7
<1>6. Mass(Paths)' = Mass(Paths)
  BY <1>1, SameJob DEF Mass
<1> QED
  BY <1>1, <1>4, <1>5, <1>6 DEF RhsamplerInv

LEMMA RhsamplerStepInv ==
  ASSUME job \in Jobs, job.tool = "rhsampler" => RhsamplerInv, RhsamplerStep
  PROVE  job.tool = "rhsampler" /\ job' = job /\ RhsamplerInv'
<1>1. job.tool = "rhsampler" /\ job' = job
  BY DEF RhsamplerStep, StartRh, NextPath, JumpPaths, Fill, Replace, PrintFound, Looking
<1>2. RhsamplerInv
  BY <1>1
<1>3. CASE StartRh \/ NextPath \/ JumpPaths
  BY <1>1, <1>2, <1>3, RhsamplerStart, RhsamplerNextPath, RhsamplerJump
<1>4. CASE Fill \/ Replace \/ PrintFound
  BY <1>1, <1>2, <1>4, RhsamplerFill, RhsamplerReplace, RhsamplerPrint
<1> QED
  BY <1>3, <1>4 DEF RhsamplerStep

-----------------------------------------------------------------------------
(* appmc *)

\* A step that leaves the count, its lines and the flag alone.
LEMMA AppmcFrame ==
  ASSUME job \in Jobs, AppmcInv, UNCHANGED <<job, tmc, lines, stop, counted, lowest, ended>>,
         LoopInv', StreamInv', Cardinality(DOMAIN flight') = Cardinality(DOMAIN flight) \/ ~stop,
         pc' \in {"sample", "done", "crashed"}, TeamInv',
         pc' = "done" => out' = 1 .. job.threads, pc' = "crashed" => Paths = {}
  PROVE  AppmcInv'
<1>1. CommonInv'
  BY DEF AppmcInv, CommonInv
<1>2. StopInv'
  BY DEF AppmcInv, StopInv, Limit
<1>3. LinesInv'
  BY DEF AppmcInv, LinesInv, ShownIn
<1>4. Paths' = Paths
  BY SameJob
<1> QED
  BY <1>1, <1>2, <1>3, <1>4 DEF AppmcInv

LEMMA AppmcStart ==
  ASSUME job \in Jobs, AppmcInv, StartAppmc
  PROVE  AppmcInv'
<1>1. /\ pc = "start" /\ GoInto("sample", 1 .. job.threads) /\ CounterInit
      /\ UNCHANGED <<job, tmc, lines, stream, jumps, out, stop, counted, lowest, ended>>
  BY DEF StartAppmc, AppmcInv, counterVars
<1>2. job.threads \in Nat /\ 1 .. job.threads \in SUBSET Nat /\ IsFiniteSet(1 .. job.threads)
  BY JobTypes, UptoFinite
<1>3. LoopInv' /\ pc' = "sample" /\ todo' = 1 .. job.threads /\ DOMAIN flight' = {}
  BY <1>1, <1>2, GoIntoFacts
<1>4. stream = <<>> /\ out = {} /\ ~stop /\ DOMAIN stream = {}
  BY <1>1 DEF CounterInit
<1>5. TeamInv'
  BY <1>1, <1>3, <1>4 DEF TeamInv
<1>6. StreamInv'
  BY <1>1 DEF AppmcInv, StreamInv
<1> QED
  BY <1>1, <1>3, <1>4, <1>5, <1>6, AppmcFrame

LEMMA AppmcTakeStream ==
  ASSUME job \in Jobs, AppmcInv, NEW t \in 1 .. job.threads, TakeStream(t)
  PROVE  AppmcInv'
<1>1. /\ t \in todo /\ jumps' = jumps + 1 /\ todo' = todo \ {t}
      /\ stream' = [s \in DOMAIN stream \cup {t} |-> IF s = t THEN jumps ELSE stream[s]]
      /\ UNCHANGED <<job, pc, flight, tmc, lines, out, stop, counted, lowest, ended>>
  BY DEF TakeStream
<1>2. pc \in {"sample", "done", "crashed"} /\ TeamInv /\ StreamInv /\ LoopInv
      /\ (pc = "crashed" => Paths = {}) /\ (pc = "done" => out = 1 .. job.threads)
  BY <1>1 DEF AppmcInv, Quiet, CommonInv
<1>3. LoopInv'
  <2>1. IsFiniteSet(todo \ {t})
    BY <1>2, FS_Subset DEF LoopInv
  <2> QED
    BY <1>1, <1>2, <2>1 DEF LoopInv
<1>4. DOMAIN stream' = DOMAIN stream \cup {t} /\ stream'[t] = jumps
      /\ \A s \in DOMAIN stream : s # t => stream'[s] = stream[s]
  BY <1>1
<1>5. StreamInv'
  BY <1>1, <1>2, <1>4 DEF StreamInv
<1>6. TeamInv'
  <2>1. t \notin DOMAIN stream
    BY <1>1, <1>2 DEF TeamInv
  <2>2. DOMAIN stream' \cup todo' = 1 .. job'.threads /\ DOMAIN stream' \cap todo' = {}
    BY <1>1, <1>2, <1>4, <2>1 DEF TeamInv
  <2>3. Paths' = Paths
    BY <1>1, SameJob
  <2> QED
    BY <1>1, <1>2, <1>4, <2>2, <2>3 DEF TeamInv
<1> QED
  BY <1>1, <1>2, <1>3, <1>5, <1>6, AppmcFrame

LEMMA AppmcSample ==
  ASSUME job \in Jobs, AppmcInv, NEW t \in 1 .. job.threads, SamplePath(t)
  PROVE  AppmcInv'
<1>1. /\ pc = "sample" /\ t \in DOMAIN stream \ (out \cup DOMAIN flight)
      /\ UNCHANGED <<job, tmc, lines, stream, jumps, stop, counted, lowest, ended>>
  BY DEF SamplePath
<1>2. TeamInv /\ StreamInv /\ LoopInv
  BY <1>1 DEF AppmcInv, CommonInv
<1>3. StreamInv'
  BY <1>1, <1>2 DEF StreamInv
<1>4. Paths' = Paths
  BY <1>1, SameJob
<1>5. CASE stop
  <2>1. out' = out \cup {t} /\ UNCHANGED <<pc, todo, flight>>
    BY <1>5 DEF SamplePath
  <2>2. TeamInv'
    BY <1>1, <1>2, <1>4, <1>5, <2>1 DEF TeamInv
  <2>3. LoopInv'
    BY <1>1, <1>2, <2>1, StillFacts
  <2> QED
    BY <1>1, <1>3, <2>1, <2>2, <2>3, AppmcFrame
<1>6. CASE ~stop /\ Paths = {}
  <2>1. pc' = "crashed" /\ UNCHANGED <<out, todo, flight>>
    BY <1>6 DEF SamplePath, Crash
  <2>2. TeamInv'
    BY <1>1, <1>2, <1>4, <2>1 DEF TeamInv
  <2>3. LoopInv'
    BY <1>1, <1>2, <2>1, StillFacts
  <2> QED
    BY <1>1, <1>3, <1>6, <2>1, <2>2, <2>3, AppmcFrame
<1>7. CASE ~stop /\ Paths # {}
  <2>1. PICK l \in Paths : Begin(t, l) /\ pc' = pc
    BY <1>7 DEF SamplePath
  <2>2. out' = out
    BY <1>7 DEF SamplePath
  <2>3. t \notin todo /\ t \in Nat
    BY <1>1, <1>2 DEF TeamInv
  <2>4. /\ todo' = todo
        /\ flight' = [j \in DOMAIN flight \cup {t} |-> IF j = t THEN l ELSE flight[j]]
    BY <2>1, <2>3 DEF Begin
  <2>5. /\ DOMAIN flight' = DOMAIN flight \cup {t} /\ flight'[t] = l
        /\ \A j \in DOMAIN flight : j # t => flight'[j] = flight[j]
    BY <2>4
  <2>6. TeamInv'
    BY <1>1, <1>2, <1>4, <2>2, <2>4, <2>5 DEF TeamInv
  <2>7. LoopInv'
    <3>1. DOMAIN flight' \in SUBSET (1 .. job.threads)
      BY <1>1, <1>2, <2>5 DEF TeamInv
    <3>2. job.threads \in Nat /\ IsFiniteSet(1 .. job.threads)
          /\ Cardinality(1 .. job.threads) = job.threads
      BY JobTypes, UptoFinite
    <3>3. IsFiniteSet(DOMAIN flight') /\ Cardinality(DOMAIN flight') <= job.threads
      BY <3>1, <3>2, FS_Subset
    <3>4. DOMAIN flight' \cap todo' = {} /\ DOMAIN flight' \in SUBSET Nat
      BY <1>2, <2>3, <2>4, <2>5 DEF LoopInv
    <3> QED
      BY <1>1, <1>2, <2>4, <3>3, <3>4 DEF LoopInv
  <2> QED
    BY <1>1, <1>3, <1>7, <2>1, <2>6, <2>7, AppmcFrame
<1> QED
  BY <1>5, <1>6, <1>7

\* Two sequences of at most one element, the same one.
LEMMA ShortConcat ==
  ASSUME NEW S, NEW s \in Seq(S), NEW e \in Seq(S), NEW x,
         Len(s) = 0 \/ Len(s) = 1, Len(s) = 1 => s[1] = x,
         Len(e) = 0 \/ Len(e) = 1, Len(e) = 1 => e[1] = x
  PROVE  /\ s \o e \in Seq(S) /\ Len(s \o e) = Len(s) + Len(e)
         /\ \A j \in DOMAIN (s \o e) : (s \o e)[j] = x
<1>1. /\ s \o e \in Seq(S) /\ Len(s \o e) = Len(s) + Len(e)
      /\ DOMAIN (s \o e) = 1 .. Len(s) + Len(e)
      /\ \A j \in 1 .. Len(s) + Len(e) :
           (s \o e)[j] = IF j <= Len(s) THEN s[j] ELSE e[j - Len(s)]
      /\ Len(s) \in Nat /\ Len(e) \in Nat
  BY ConcatProperties, LenProperties
<1>2. ASSUME NEW j \in 1 .. Len(s) + Len(e) PROVE (s \o e)[j] = x
  <2> DEFINE a == Len(s)
             b == Len(e)
  <2>0. a \in Nat /\ b \in Nat /\ j \in 1 .. a + b /\ (a = 0 \/ a = 1) /\ (b = 0 \/ b = 1)
    BY <1>1
  <2>1. CASE j <= Len(s)
    <3>1. j = 1 /\ a = 1
      <4>1. j <= a
        BY <2>1
      <4> HIDE DEF a, b
      <4> QED
        BY <2>0, <4>1
    <3> QED
      BY <1>1, <2>1, <3>1
  <2>2. CASE ~ (j <= Len(s))
    <3>1. j - a = 1 /\ b = 1
      <4>1. ~ (j <= a)
        BY <2>2
      <4> HIDE DEF a, b
      <4> QED
        BY <2>0, <4>1
    <3> QED
      BY <1>1, <2>2, <3>1
  <2> QED
    BY <2>1, <2>2
<1> QED
  BY <1>1, <1>2

\* The lines of one tally: none, one or two, all about it.
LEMMA EstimatesFacts ==
  ASSUME job \in Jobs, NEW n \in Nat, NEW sum \in Nat, NEW precise \in BOOLEAN
  PROVE  LET e == Estimates(n, sum, precise)
         IN  /\ e \in Seq(Nat \X Nat) /\ Len(e) \in Nat
             /\ \A j \in DOMAIN e : e[j] = <<n, sum>>
             /\ Len(e) > 0 <=> (n > 1 /\ (job.verbose \/ n = job.nb)) \/ (precise /\ ~job.verbose)
             /\ job.verbose => Len(e) = IF n > 1 THEN 1 ELSE 0
<1> DEFINE line == <<n, sum>>
           one == <<line>>
           none == <<>>
           A == IF n > 1 /\ (job.verbose \/ n = job.nb) THEN one ELSE none
           B == IF precise /\ ~job.verbose THEN one ELSE none
<1>1. line \in Nat \X Nat
  OBVIOUS
<1>2. Estimates(n, sum, precise) = A \o B
  BY DEF Estimates
<1> HIDE DEF line
<1>3. /\ one \in Seq(Nat \X Nat) /\ one[1] = line
      /\ Len(one) \in Nat /\ Len(one) = 1 /\ Len(one) > 0
  BY <1>1
<1>0. /\ none \in Seq(Nat \X Nat)
      /\ Len(none) \in Nat /\ Len(none) = 0 /\ Len(none) # 1 /\ ~ (Len(none) > 0)
  OBVIOUS
<1> HIDE DEF one, none
<1>4. A \in Seq(Nat \X Nat) /\ (Len(A) = 1 => A[1] = line) /\ Len(A) \in Nat /\ (Len(A) = 0 \/ Len(A) = 1)
      /\ (Len(A) > 0 <=> n > 1 /\ (job.verbose \/ n = job.nb))
  <2>1. CASE n > 1 /\ (job.verbose \/ n = job.nb)
    <3>1. A = one
      BY <2>1
    <3> HIDE DEF A, B
    <3>2. A \in Seq(Nat \X Nat) /\ A[1] = line /\ Len(A) \in Nat /\ Len(A) = 1 /\ Len(A) > 0
      BY <1>3, <3>1, Zenon
    <3> QED
      BY <2>1, <3>2
  <2>2. CASE ~ (n > 1 /\ (job.verbose \/ n = job.nb))
    <3>1. A = none
      BY <2>2
    <3> HIDE DEF A, B
    <3>2. A \in Seq(Nat \X Nat) /\ Len(A) \in Nat /\ Len(A) = 0 /\ Len(A) # 1 /\ ~ (Len(A) > 0)
      BY <1>0, <3>1, Zenon
    <3> QED
      BY <2>2, <3>2
  <2> QED
    BY <2>1, <2>2
<1>5. B \in Seq(Nat \X Nat) /\ (Len(B) = 1 => B[1] = line) /\ Len(B) \in Nat /\ (Len(B) = 0 \/ Len(B) = 1)
      /\ (Len(B) > 0 <=> precise /\ ~job.verbose)
  <2>1. CASE precise /\ ~job.verbose
    <3>1. B = one
      BY <2>1
    <3> HIDE DEF A, B
    <3>2. B \in Seq(Nat \X Nat) /\ B[1] = line /\ Len(B) \in Nat /\ Len(B) = 1 /\ Len(B) > 0
      BY <1>3, <3>1, Zenon
    <3> QED
      BY <2>1, <3>2
  <2>2. CASE ~ (precise /\ ~job.verbose)
    <3>1. B = none
      BY <2>2
    <3> HIDE DEF A, B
    <3>2. B \in Seq(Nat \X Nat) /\ Len(B) \in Nat /\ Len(B) = 0 /\ Len(B) # 1 /\ ~ (Len(B) > 0)
      BY <1>0, <3>1, Zenon
    <3> QED
      BY <2>2, <3>2
  <2> QED
    BY <2>1, <2>2
<1> HIDE DEF A, B
<1>6. /\ A \o B \in Seq(Nat \X Nat) /\ Len(A \o B) = Len(A) + Len(B)
      /\ \A j \in DOMAIN (A \o B) : (A \o B)[j] = line
  <2>1. PICK S : S = Nat \X Nat
    OBVIOUS
  <2>2. /\ A \in Seq(S) /\ (Len(A) = 0 \/ Len(A) = 1) /\ (Len(A) = 1 => A[1] = line)
        /\ B \in Seq(S) /\ (Len(B) = 0 \/ Len(B) = 1) /\ (Len(B) = 1 => B[1] = line)
    BY <1>4, <1>5, <2>1
  <2>3. /\ A \o B \in Seq(S) /\ Len(A \o B) = Len(A) + Len(B)
        /\ \A j \in DOMAIN (A \o B) : (A \o B)[j] = line
    BY <2>2, ShortConcat
  <2> QED
    BY <2>1, <2>3
<1>7. job.verbose \in BOOLEAN
  BY JobTypes
<1>8. Len(A \o B) > 0 <=> Len(A) > 0 \/ Len(B) > 0
  BY <1>4, <1>5, <1>6
<1>9. ASSUME job.verbose PROVE Len(A \o B) = IF n > 1 THEN 1 ELSE 0
  <2>1. Len(B) = 0 /\ (Len(A) > 0 <=> n > 1)
    BY <1>4, <1>5, <1>9
  <2> QED
    BY <1>4, <1>6, <2>1
<1> QED
  BY <1>2, <1>4, <1>5, <1>6, <1>7, <1>8, <1>9 DEF line

LEMMA ShownConcat ==
  ASSUME NEW s \in Seq(Nat \X Nat), NEW e \in Seq(Nat \X Nat)
  PROVE  /\ s \o e \in Seq(Nat \X Nat) /\ Len(s \o e) = Len(s) + Len(e)
         /\ ShownIn(s \o e) = ShownIn(s) \cup ShownIn(e)
<1>1. /\ s \o e \in Seq(Nat \X Nat) /\ Len(s \o e) = Len(s) + Len(e)
      /\ Len(s) \in Nat /\ Len(e) \in Nat
      /\ DOMAIN s = 1 .. Len(s) /\ DOMAIN e = 1 .. Len(e) /\ DOMAIN (s \o e) = 1 .. Len(s) + Len(e)
      /\ \A j \in 1 .. Len(s) + Len(e) :
           (s \o e)[j] = IF j <= Len(s) THEN s[j] ELSE e[j - Len(s)]
  BY ConcatProperties, LenProperties
<1>2. ASSUME NEW j \in DOMAIN (s \o e)
      PROVE  (s \o e)[j][1] \in ShownIn(s) \cup ShownIn(e)
  <2>1. CASE j <= Len(s)
    BY <1>1, <2>1 DEF ShownIn
  <2>2. CASE ~ (j <= Len(s))
    <3>1. j - Len(s) \in DOMAIN e /\ (s \o e)[j] = e[j - Len(s)]
      BY <1>1, <2>2
    <3> QED
      BY <3>1 DEF ShownIn
  <2> QED
    BY <2>1, <2>2
<1>3. ASSUME NEW j \in DOMAIN s PROVE s[j][1] \in ShownIn(s \o e)
  <2>1. j \in DOMAIN (s \o e) /\ (s \o e)[j] = s[j]
    BY <1>1
  <2> QED
    BY <2>1 DEF ShownIn
<1>4. ASSUME NEW j \in DOMAIN e PROVE e[j][1] \in ShownIn(s \o e)
  <2>1. j + Len(s) \in 1 .. Len(s) + Len(e) /\ ~ (j + Len(s) <= Len(s)) /\ (j + Len(s)) - Len(s) = j
    BY <1>1
  <2>2. j + Len(s) \in DOMAIN (s \o e) /\ (s \o e)[j + Len(s)] = e[j]
    BY <1>1, <2>1
  <2> QED
    BY <2>2 DEF ShownIn
<1> QED
  BY <1>1, <1>2, <1>3, <1>4 DEF ShownIn

LEMMA AppmcTally ==
  ASSUME job \in Jobs, AppmcInv, NEW t \in 1 .. job.threads, TallySample(t)
  PROVE  AppmcInv'
<1> DEFINE n == counted + 1
           sum == tmc + job.counts[flight[t]]
<1>1. /\ pc = "sample" /\ t \in DOMAIN flight /\ End(t)
      /\ UNCHANGED <<job, pc, stream, jumps, out, lowest, ended>>
      /\ counted' = n /\ tmc' = sum
  BY DEF TallySample
<1>2. PICK precise \in BOOLEAN :
        /\ precise => n > 1 /\ job.k > 0 /\ n >= job.k
        /\ stop' = (stop \/ precise \/ n >= job.nb)
        /\ lines' = lines \o Estimates(n, sum, precise)
  BY <1>1 DEF TallySample
<1>3. /\ TeamInv /\ StreamInv /\ CommonInv /\ StopInv /\ LinesInv
      /\ counted \in Nat /\ stop \in BOOLEAN /\ lowest = -1 /\ ended = {}
  BY <1>1 DEF AppmcInv
<1>4. /\ flight[t] \in Paths /\ job.counts[flight[t]] \in Nat /\ tmc \in Nat
      /\ job.nb \in Nat /\ job.k \in Nat /\ job.threads \in Nat \ {0} /\ job.verbose \in BOOLEAN
  BY <1>1, <1>3, JobTypes DEF TeamInv, CommonInv
<1>5. n \in Nat /\ sum \in Nat
  BY <1>3, <1>4
<1>6. /\ LoopInv' /\ DOMAIN flight' = DOMAIN flight \ {t} /\ todo' = todo
      /\ \A j \in DOMAIN flight \ {t} : flight'[j] = flight[j]
      /\ Cardinality(DOMAIN flight') = Cardinality(DOMAIN flight) - 1
  BY <1>1, <1>3, EndFacts DEF CommonInv
<1>7. Cardinality(DOMAIN flight) \in Nat /\ Cardinality(DOMAIN flight) <= job.threads
  BY <1>3, LoopTypes DEF CommonInv
<1> DEFINE e == Estimates(n, sum, precise)
<1>8. /\ e \in Seq(Nat \X Nat) /\ Len(e) \in Nat
      /\ \A j \in DOMAIN e : e[j] = <<n, sum>>
      /\ Len(e) > 0 <=> (n > 1 /\ (job.verbose \/ n = job.nb)) \/ (precise /\ ~job.verbose)
      /\ job.verbose => Len(e) = IF n > 1 THEN 1 ELSE 0
  BY <1>5, EstimatesFacts
<1>9. ShownIn(e) = IF Len(e) > 0 THEN {n} ELSE {}
  <2> HIDE DEF e, n, sum
  <2>1. DOMAIN e = 1 .. Len(e)
    BY <1>8, LenProperties
  <2>2. CASE Len(e) > 0
    <3>1. 1 \in DOMAIN e
      BY <1>8, <2>1, <2>2
    <3> QED
      BY <1>8, <2>2, <3>1 DEF ShownIn
  <2>3. CASE ~ (Len(e) > 0)
    <3>1. DOMAIN e = {}
      BY <1>8, <2>1, <2>3
    <3> QED
      BY <2>3, <3>1 DEF ShownIn
  <2> QED
    BY <2>2, <2>3
<1>10. lines \in Seq(Nat \X Nat) /\ Len(lines) \in Nat
  BY <1>3, LenProperties DEF CommonInv
<1> HIDE DEF e
<1>11. /\ lines' \in Seq(Nat \X Nat) /\ Len(lines') = Len(lines) + Len(e)
       /\ ShownIn(lines') = ShownIn(lines) \cup ShownIn(e)
  <2>1. lines' = lines \o e
    BY <1>2 DEF e
  <2> QED
    BY <1>8, <1>10, <2>1, ShownConcat
<1>12. StopInv'
  <2>1. /\ ~stop => counted < Limit
        /\ stop => /\ counted + Cardinality(DOMAIN flight) <= Limit + job.threads - 1
                   /\ counted >= 1
                   /\ counted >= job.nb \/ (job.k > 0 /\ counted >= 2 /\ counted >= job.k)
        /\ Limit = IF job.nb > 1 THEN job.nb ELSE 1
    BY <1>3 DEF StopInv, Limit
  <2>2. Limit' = Limit
    BY <1>1 DEF Limit
  <2>3. ~stop' => counted' < Limit'
    <3>1. counted' = n /\ counted \in Nat
      BY <1>1, <1>3
    <3>2. ASSUME ~stop' PROVE n < job.nb
      <4>1. ~ (n >= job.nb)
        BY <1>2, <3>2
      <4> HIDE DEF n
      <4> QED
        BY <1>4, <1>5, <4>1
    <3>3. ASSUME n < job.nb PROVE n < Limit
      BY <1>4, <2>1, <3>1, <3>3
    <3> QED
      BY <2>2, <3>1, <3>2, <3>3
  <2>4. ASSUME stop'
        PROVE  /\ counted' + Cardinality(DOMAIN flight') <= Limit + job.threads - 1
               /\ counted' >= 1
               /\ counted' >= job.nb \/ (job.k > 0 /\ counted' >= 2 /\ counted' >= job.k)
    <3>1. CASE stop
      BY <1>1, <1>3, <1>4, <1>6, <1>7, <2>1, <3>1
    <3>2. CASE ~stop
      BY <1>1, <1>2, <1>3, <1>4, <1>6, <1>7, <2>1, <2>4, <3>2
    <3> QED
      BY <3>1, <3>2
  <2> QED
    BY <1>1, <2>2, <2>3, <2>4 DEF StopInv
<1>13. LinesInv'
  <2>1. /\ job.verbose => /\ ShownIn(lines) = 2 .. counted
                          /\ Len(lines) = IF counted = 0 THEN 0 ELSE counted - 1
        /\ stop /\ job.nb >= 2 => lines # <<>>
        /\ job.nb \in 2 .. counted => job.nb \in ShownIn(lines)
    BY <1>3 DEF LinesInv
  <2>2. ASSUME job.verbose
        PROVE  /\ ShownIn(lines') = 2 .. n
               /\ Len(lines') = IF n = 0 THEN 0 ELSE n - 1
    <3>1. CASE counted = 0
      <4>1. n = 1 /\ Len(e) = 0
        BY <1>8, <2>2, <3>1
      <4>2. 2 .. counted = 2 .. n
        BY <3>1, <4>1
      <4> QED
        BY <1>9, <1>10, <1>11, <2>1, <2>2, <3>1, <4>1, <4>2
    <3>2. CASE counted # 0
      <4>1. n > 1 /\ Len(e) = 1
        BY <1>3, <1>8, <2>2, <3>2
      <4>2. (2 .. counted) \cup {n} = 2 .. n
        BY <1>3, <4>1
      <4> QED
        BY <1>3, <1>9, <1>10, <1>11, <2>1, <2>2, <3>2, <4>1, <4>2
    <3> QED
      BY <3>1, <3>2
  <2>3. ASSUME stop', job.nb >= 2 PROVE lines' # <<>>
    <3>1. CASE stop
      <4>1. Len(lines) > 0
        BY <1>10, <2>1, <2>3, <3>1, EmptySeq
      <4>2. Len(lines') > 0
        BY <1>8, <1>10, <1>11, <4>1
      <4> QED
        BY <4>2
    <3>2. CASE ~stop
      <4>1. counted < job.nb
        BY <1>3, <1>4, <2>3, <3>2 DEF StopInv, Limit
      <4>2. precise \/ n = job.nb
        BY <1>2, <1>3, <1>4, <2>3, <3>2, <4>1
      <4>3. n > 1
        BY <1>2, <1>4, <2>3, <4>2
      <4>4. Len(e) > 0
        BY <1>8, <4>2, <4>3
      <4>5. Len(lines') > 0
        BY <1>8, <1>10, <1>11, <4>4
      <4> QED
        BY <4>5
    <3> QED
      BY <3>1, <3>2
  <2>4. ASSUME job.nb \in 2 .. n PROVE job.nb \in ShownIn(lines')
    <3>1. CASE job.nb = n
      <4>1. Len(e) > 0
        BY <1>8, <2>4, <3>1
      <4> QED
        BY <1>9, <1>11, <3>1, <4>1
    <3>2. CASE job.nb # n
      BY <1>3, <1>4, <1>11, <2>1, <2>4, <3>2
    <3> QED
      BY <3>1, <3>2
  <2>5. ShownIn(lines)' = ShownIn(lines')
    BY DEF ShownIn
  <2> QED
    BY <1>1, <2>2, <2>3, <2>4, <2>5 DEF LinesInv
<1>14. TeamInv'
  <2>1. Paths' = Paths
    BY <1>1, SameJob
  <2>2. stop => stop'
    BY <1>2
  <2> QED
    BY <1>1, <1>3, <1>6, <2>1, <2>2 DEF TeamInv
<1>15. StreamInv'
  BY <1>1, <1>3 DEF StreamInv
<1>16. stop' \in BOOLEAN /\ counted' \in Nat
  BY <1>1, <1>2, <1>5
<1> QED
  BY <1>1, <1>3, <1>5, <1>6, <1>11, <1>12, <1>13, <1>14, <1>15, <1>16 DEF AppmcInv, CommonInv

LEMMA AppmcEnd ==
  ASSUME job \in Jobs, AppmcInv, EndAppmc
  PROVE  AppmcInv'
<1>1. /\ pc = "sample" /\ out = 1 .. job.threads /\ pc' = "done"
      /\ UNCHANGED <<job, todo, flight, tmc, lines, stream, jumps, out, stop, counted, lowest, ended>>
  BY DEF EndAppmc, counterVars
<1>2. TeamInv /\ StreamInv /\ LoopInv
  BY <1>1 DEF AppmcInv, CommonInv
<1>3. TeamInv' /\ StreamInv'
  BY <1>1, <1>2, SameJob DEF TeamInv, StreamInv
<1>4. LoopInv'
  BY <1>1, <1>2, StillFacts
<1> QED
  BY <1>1, <1>3, <1>4, AppmcFrame

-----------------------------------------------------------------------------
(* lmc and pc *)

LEMMA LmcStart ==
  ASSUME job \in Jobs, LmcInv, StartLmc
  PROVE  LmcInv'
<1>1. /\ pc = "start" /\ Quiet /\ ended = {} /\ CommonInv /\ lowest = -1
      /\ UNCHANGED <<job, tmc, lines, stream, jumps, out, stop, counted, lowest, ended>>
      /\ stream = <<>> /\ jumps = 0 /\ out = {} /\ stop = FALSE /\ counted = 0
  BY DEF StartLmc, LmcInv, counterVars
<1>2. CASE Paths = {}
  <2>1. pc' = "crashed" /\ todo' = todo /\ flight' = flight
    BY <1>2 DEF StartLmc, Crash
  <2>2. LoopInv' /\ Paths' = {}
    BY <1>1, <1>2, <2>1, StillFacts, SameJob DEF CommonInv
  <2> QED
    BY <1>1, <2>1, <2>2 DEF LmcInv, CommonInv, Quiet
<1>3. CASE Paths # {}
  <2>1. job.nb \in Nat /\ GoInto("tries", 1 .. job.nb)
    BY <1>3, JobTypes DEF StartLmc
  <2>2. 1 .. job.nb \in SUBSET Nat /\ IsFiniteSet(1 .. job.nb)
    BY <2>1, UptoFinite
  <2>3. LoopInv' /\ pc' = "tries" /\ todo' = 1 .. job.nb /\ DOMAIN flight' = {}
    BY <1>1, <2>1, <2>2, GoIntoFacts
  <2>4. Quiet' <=> job.nb = 0
    <3>1. 1 .. job.nb = {} <=> job.nb = 0
      <4>1. job.nb # 0 => 1 \in 1 .. job.nb
        BY <2>1
      <4>2. job.nb = 0 => 1 .. job.nb = {}
        OBVIOUS
      <4> QED
        BY <4>1, <4>2
    <3> QED
      BY <2>3, <3>1 DEF Quiet
  <2> QED
    BY <1>1, <2>3, <2>4 DEF LmcInv, CommonInv
<1> QED
  BY <1>2, <1>3

\* A step of the tries that leaves the result alone.
LEMMA LmcFrame ==
  ASSUME job \in Jobs, LmcInv, pc = "tries", pc' \in {"tries", "done"},
         UNCHANGED <<job, tmc, lines, stream, jumps, out, stop, counted, lowest, ended>>,
         LoopInv', Quiet' <=> Quiet, pc' = "done" => Quiet,
         \A i \in DOMAIN flight' : flight'[i] \in Nat
  PROVE  LmcInv'
<1>1. CommonInv'
  BY DEF LmcInv, CommonInv
<1> QED
  BY <1>1 DEF LmcInv

LEMMA LmcTry ==
  ASSUME job \in Jobs, LmcInv, NEW i \in todo, Try(i)
  PROVE  LmcInv'
<1>1. /\ pc = "tries" /\ CommonInv /\ \A j \in DOMAIN flight : flight[j] \in Nat
      /\ UNCHANGED <<job, pc, tmc, lines, stream, jumps, out, stop, counted, lowest, ended>>
      /\ Cardinality(DOMAIN flight) < job.threads
  BY DEF Try, LmcInv, Free, counterVars
<1>2. PICK path \in [1 .. job.k -> Paths] :
        Begin(i, SumFunction([j \in 1 .. job.k |-> job.counts[path[j]]]))
  BY DEF Try
<1>3. PICK h : h = [j \in 1 .. job.k |-> job.counts[path[j]]]
  OBVIOUS
<1>4. PICK sum : sum = SumFunction(h)
  OBVIOUS
<1>5. sum \in Nat
  <2>1. job.k \in Nat /\ \A p \in Paths : job.counts[p] \in Nat
    BY JobTypes
  <2>2. DOMAIN h = 1 .. job.k /\ \A j \in 1 .. job.k : h[j] \in Nat
    BY <1>3, <2>1
  <2>3. IsFiniteSet(1 .. job.k)
    BY <2>1, UptoFinite
  <2>4. SumFunctionOnSet(h, 1 .. job.k) \in Nat
    BY <2>2, <2>3, SumNat
  <2>5. SumFunction(h) = SumFunctionOnSet(h, DOMAIN h)
    BY DEF SumFunction, SumFunctionOnSet, FoldFunction
  <2> QED
    BY <1>4, <2>2, <2>4, <2>5
<1>6. /\ LoopInv' /\ DOMAIN flight' = DOMAIN flight \cup {i}
      /\ flight'[i] = sum /\ \A j \in DOMAIN flight : flight'[j] = flight[j]
  <2>1. Begin(i, sum)
    BY <1>2, <1>3, <1>4
  <2> QED
    BY <1>1, <2>1, BeginFacts DEF CommonInv
<1>7. ~Quiet /\ ~Quiet'
  BY <1>6 DEF Quiet
<1>8. \A j \in DOMAIN flight' : flight'[j] \in Nat
  BY <1>1, <1>5, <1>6
<1> QED
  BY <1>1, <1>6, <1>7, <1>8, LmcFrame

\* The least of a set that one number joins.
LEMMA MinGrows ==
  ASSUME NEW S \in SUBSET Nat, S # {}, NEW x \in Nat
  PROVE  Min(S \cup {x}) = IF x < Min(S) THEN x ELSE Min(S)
<1>1. Min(S) \in S /\ Min(S) \in Nat /\ \A y \in S : Min(S) <= y
  BY MinNat
<1>2. S \cup {x} \in SUBSET Nat /\ S \cup {x} # {}
  OBVIOUS
<1>3. /\ Min(S \cup {x}) \in S \cup {x} /\ Min(S \cup {x}) \in Nat
      /\ \A y \in S \cup {x} : Min(S \cup {x}) <= y
  BY <1>2, MinNat
<1>4. Min(S \cup {x}) <= x /\ Min(S \cup {x}) <= Min(S)
  BY <1>1, <1>3
<1>5. Min(S \cup {x}) = x \/ Min(S) <= Min(S \cup {x})
  BY <1>1, <1>3
<1> HIDE DEF Min
<1> QED
  BY <1>1, <1>3, <1>4, <1>5

LEMMA MinOne ==
  ASSUME NEW x \in Nat
  PROVE  Min({x}) = x
<1>1. {x} \in SUBSET Nat /\ {x} # {}
  OBVIOUS
<1>2. Min({x}) \in {x}
  BY <1>1, MinNat
<1> QED
  BY <1>2

LEMMA LmcKeep ==
  ASSUME job \in Jobs, LmcInv, NEW i \in DOMAIN flight, KeepLeast(i)
  PROVE  LmcInv'
<1>1. /\ pc = "tries" /\ CommonInv /\ flight[i] \in Nat /\ ended \in SUBSET Nat
      /\ \A j \in DOMAIN flight : flight[j] \in Nat
      /\ lowest = IF ended = {} THEN -1 ELSE Min(ended)
      /\ stream = <<>> /\ jumps = 0 /\ out = {} /\ stop = FALSE /\ counted = 0
      /\ UNCHANGED <<job, pc, tmc, lines, stream, jumps, out, stop, counted>>
      /\ lowest' = LeastSoFar(flight[i]) /\ ended' = ended \cup {flight[i]} /\ End(i)
      /\ (ended = {} /\ Quiet <=> job.nb = 0)
  BY DEF KeepLeast, LmcInv
<1>2. LoopInv' /\ \A j \in DOMAIN flight' : flight'[j] \in Nat
  BY <1>1, EndFacts DEF CommonInv
<1>3. lowest' = IF ended' = {} THEN -1 ELSE Min(ended')
  <2>1. CASE ended = {}
    <3>1. lowest' = flight[i] /\ ended' = {flight[i]}
      BY <1>1, <2>1 DEF LeastSoFar
    <3> QED
      BY <1>1, <3>1, MinOne
  <2>2. CASE ended # {}
    <3>1. Min(ended) \in Nat /\ lowest = Min(ended)
      BY <1>1, <2>2, MinNat
    <3>2. lowest # -1
      BY <3>1
    <3>3. lowest' = IF flight[i] < Min(ended) THEN flight[i] ELSE Min(ended)
      BY <1>1, <3>1, <3>2 DEF LeastSoFar
    <3>4. Min(ended \cup {flight[i]}) = IF flight[i] < Min(ended) THEN flight[i] ELSE Min(ended)
      BY <1>1, <2>2, MinGrows
    <3> QED
      BY <1>1, <3>3, <3>4
  <2> QED
    BY <2>1, <2>2
<1>4. ended' # {} /\ ended' \in SUBSET Nat /\ job.nb # 0
  BY <1>1 DEF Quiet
<1>5. CommonInv'
  BY <1>1, <1>2 DEF CommonInv
<1> QED
  BY <1>1, <1>2, <1>3, <1>4, <1>5 DEF LmcInv

LEMMA LmcFinish ==
  ASSUME job \in Jobs, LmcInv, pc = "tries", Finish, UNCHANGED counterVars
  PROVE  LmcInv'
<1>1. /\ pc' = "done" /\ Quiet /\ CommonInv /\ \A i \in DOMAIN flight : flight[i] \in Nat
      /\ UNCHANGED <<job, todo, flight, tmc, lines, stream, jumps, out, stop, counted, lowest, ended>>
  BY OverIsQuiet DEF Finish, LmcInv, CommonInv, counterVars
<1>2. LoopInv' /\ Quiet'
  BY <1>1, StillFacts DEF CommonInv, Quiet
<1> QED
  BY <1>1, <1>2, LmcFrame

LEMMA PcCount ==
  ASSUME job \in Jobs, PcInv, CountPaths
  PROVE  PcInv'
<1>1. /\ tmc' = Cardinality(Paths) /\ pc' = "done" /\ CommonInv /\ Quiet /\ CounterInit
      /\ UNCHANGED <<job, todo, flight, lines, stream, jumps, out, stop, counted, lowest, ended>>
  BY DEF CountPaths, PcInv, counterVars
<1>2. LoopInv' /\ Quiet' /\ CounterInit'
  BY <1>1, StillFacts DEF CommonInv, Quiet, CounterInit
<1>3. tmc' = Len(job.counts) /\ tmc' \in Nat
  BY <1>1, JobTypes
<1> QED
  BY <1>1, <1>2, <1>3 DEF PcInv, CommonInv

\* The invariant of the counter that is run.
CounterInv ==
  /\ job.tool = "appmc" => AppmcInv
  /\ job.tool = "lmc" => LmcInv
  /\ job.tool = "pc" => PcInv

LEMMA CounterStepInv ==
  ASSUME job \in Jobs, CounterInv, CounterStep
  PROVE  job.tool \in {"appmc", "lmc", "pc"} /\ job' = job /\ CounterInv'
<1>1. CASE StartAppmc \/ EndAppmc
  <2>1. job.tool = "appmc" /\ job' = job
    BY <1>1 DEF StartAppmc, EndAppmc
  <2> QED
    BY <1>1, <2>1, AppmcStart, AppmcEnd DEF CounterInv
<1>2. CASE \E t \in 1 .. job.threads : TakeStream(t) \/ SamplePath(t) \/ TallySample(t)
  <2>1. job.tool = "appmc" /\ job' = job
    BY <1>2 DEF TakeStream, SamplePath, TallySample
  <2> QED
    BY <1>2, <2>1, AppmcTakeStream, AppmcSample, AppmcTally DEF CounterInv
<1>3. CASE StartLmc \/ (\E i \in todo : Try(i)) \/ \E i \in DOMAIN flight : KeepLeast(i)
  <2>1. job.tool = "lmc" /\ job' = job
    BY <1>3 DEF StartLmc, Try, KeepLeast
  <2> QED
    BY <1>3, <2>1, LmcStart, LmcTry, LmcKeep DEF CounterInv
<1>4. CASE job.tool = "lmc" /\ pc = "tries" /\ Finish /\ UNCHANGED counterVars
  <2>1. job' = job
    BY <1>4 DEF Finish
  <2> QED
    BY <1>4, <2>1, LmcFinish DEF CounterInv
<1>5. CASE CountPaths
  <2>1. job.tool = "pc" /\ job' = job
    BY <1>5 DEF CountPaths
  <2> QED
    BY <1>5, <2>1, PcCount DEF CounterInv
<1> QED
  BY <1>1, <1>2, <1>3, <1>4, <1>5 DEF CounterStep

-----------------------------------------------------------------------------
(* The invariance theorems *)

\* The variables of a tool that is not run, or has not begun.
LEMMA ReservoirStart ==
  ASSUME job \in Jobs, ReservoirInit
  PROVE  ReservoirTypeOK
<1>1. visited = {} /\ reservoir = <<>> /\ Len(reservoir) = 0
  BY DEF ReservoirInit
<1>2. reservoir \in Seq(Paths)
  BY <1>1
<1> QED
  BY <1>1, <1>2 DEF ReservoirTypeOK

LEMMA SkipStart ==
  ASSUME job \in Jobs, SkipInit
  PROVE  SkipTypeOK
<1>1. ipath = 1 /\ isol = 1 /\ visits = 0 /\ found = <<>> /\ jumped = FALSE
  BY DEF SkipInit
<1>2. found \in Seq(Paths \X Nat)
  BY <1>1
<1>3. Len(found) = 0 /\ 0 <= job.nb
  BY <1>1, JobTypes
<1>4. Len(found) <= job.nb
  BY <1>3
<1>5. ipath \in Nat \ {0} /\ isol \in Nat /\ visits \in Nat
  <2>1. 1 \in Nat \ {0} /\ 1 \in Nat /\ 0 \in Nat
    OBVIOUS
  <2> QED
    BY <1>1, <2>1, Zenon
<1>6. jumped \in BOOLEAN
  BY <1>1, Zenon
<1> QED
  BY <1>2, <1>4, <1>5, <1>6 DEF SkipTypeOK

LEMMA InitToolsInv ==
  ASSUME Init
  PROVE  ToolsInv
<1>1. /\ job \in Jobs /\ pc = "start" /\ todo = {} /\ flight = <<>> /\ tmc = 0 /\ lines = <<>>
      /\ ReservoirInit /\ SkipInit /\ CounterInit
  BY DEF Init, PathInit
<1>2. CommonInv /\ Quiet
  BY InitCommon DEF Init
<1>3. DOMAIN lines = {} /\ DOMAIN flight = {}
  BY <1>1
<1>4. LinesSound /\ PrintsSolutions
  BY <1>3 DEF LinesSound, PrintsSolutions
<1>5. job.nb \in Nat /\ job.threads \in Nat \ {0} /\ Paths \in SUBSET Nat
  BY <1>1, JobTypes
<1>6. SamplerInv
  BY <1>1, <1>2, <1>4 DEF SamplerInv
<1>7. RsamplerInv
  BY <1>1, <1>2, <1>4, ReservoirStart DEF RsamplerInv
<1>8. RhsamplerInv
  BY <1>1, <1>2, SkipStart DEF RhsamplerInv
<1>9. AppmcInv
  <2>1. DOMAIN stream = {} /\ stop = FALSE /\ counted = 0 /\ jumps = 0 /\ lowest = -1 /\ ended = {}
    BY <1>1 DEF CounterInit
  <2>2. StopInv
    BY <1>5, <2>1 DEF StopInv, Limit
  <2>3. 2 .. 0 = {} /\ ShownIn(lines) = {} /\ Len(lines) = 0
    BY <1>1, <1>3 DEF ShownIn
  <2>4. LinesInv
    BY <2>1, <2>3 DEF LinesInv
  <2>5. StreamInv
    BY <2>1 DEF StreamInv
  <2> QED
    BY <1>1, <1>2, <2>1, <2>2, <2>4, <2>5 DEF AppmcInv
<1>10. LmcInv
  BY <1>1, <1>2, <1>3 DEF LmcInv, CounterInit
<1>11. PcInv
  BY <1>1, <1>2 DEF PcInv
<1>12. IdleInv
  BY <1>1 DEF IdleInv
<1> QED
  BY <1>1, <1>6, <1>7, <1>8, <1>9, <1>10, <1>11, <1>12 DEF ToolsInv

LEMMA ToolsStutter ==
  ASSUME ToolsInv, UNCHANGED vars
  PROVE  ToolsInv'
<1>1. UNCHANGED <<job, pc, todo, flight, tmc, lines, visited, reservoir, ipath, isol, visits,
                  found, jumped, stream, jumps, out, stop, counted, lowest, ended>>
  BY DEF vars, pathVars, reservoirVars, skipVars, counterVars
<1>2. /\ CommonInv' = CommonInv /\ Quiet' = Quiet /\ LinesSound' = LinesSound
      /\ PrintsSolutions' = PrintsSolutions
  BY <1>1 DEF CommonInv, LoopInv, Quiet, LinesSound, PrintsSolutions, IsSolution, Paths, Solutions
<1>3. SamplerInv' = SamplerInv
  BY <1>1, <1>2 DEF SamplerInv, Few, CountedPaths, Paths, Mass, Iterations
<1>4. RsamplerInv' = RsamplerInv
  BY <1>1, <1>2 DEF RsamplerInv, ReservoirTypeOK, ReservoirInit, FillInv, PrintInv, Tallied,
                    ManyPaths, Paths, Mass, Iterations, Range
<1>5. RhsamplerInv' = RhsamplerInv
  BY <1>1, <1>2 DEF RhsamplerInv, SkipTypeOK, SkipInit, WalkInv, Paths, Mass, Passed1, Solutions,
                    IsInjective, Range
<1>6. AppmcInv' = AppmcInv
  BY <1>1, <1>2 DEF AppmcInv, StreamInv, StopInv, LinesInv, TeamInv, CounterInit, Limit, ShownIn, Paths
<1>7. LmcInv' = LmcInv
  BY <1>1, <1>2 DEF LmcInv, Paths
<1>8. PcInv' = PcInv
  BY <1>1, <1>2 DEF PcInv, CounterInit
<1>9. IdleInv' = IdleInv
  BY <1>1 DEF IdleInv, ReservoirInit, SkipInit, CounterInit
<1> QED
  BY <1>1, <1>3, <1>4, <1>5, <1>6, <1>7, <1>8, <1>9 DEF ToolsInv

LEMMA ToolsStep ==
  ASSUME ToolsInv, [Next]_vars
  PROVE  ToolsInv'
<1>1. job \in Jobs /\ IdleInv
  BY DEF ToolsInv
<1>2. CASE Ksampling
  <2>1. job.tool = "sampler" /\ job' = job /\ SamplerInv'
    BY <1>1, <1>2, SamplerStep DEF Ksampling, ToolsInv
  <2>2. IdleInv'
    BY <1>1, <1>2, <2>1 DEF Ksampling, IdleInv, ReservoirInit, SkipInit, CounterInit,
                            reservoirVars, skipVars, counterVars
  <2> QED
    BY <1>1, <2>1, <2>2 DEF ToolsInv
<1>3. CASE Rsampling
  <2>1. job.tool = "rsampler" /\ job' = job /\ RsamplerInv'
    BY <1>1, <1>3, RsamplerStepInv DEF Rsampling, ToolsInv
  <2>2. IdleInv'
    BY <1>1, <1>3, <2>1 DEF Rsampling, IdleInv, SkipInit, CounterInit, skipVars, counterVars
  <2> QED
    BY <1>1, <2>1, <2>2 DEF ToolsInv
<1>4. CASE Rhsampling
  <2>1. job.tool = "rhsampler" /\ job' = job /\ RhsamplerInv'
    BY <1>1, <1>4, RhsamplerStepInv DEF Rhsampling, ToolsInv
  <2>2. IdleInv'
    BY <1>1, <1>4, <2>1 DEF Rhsampling, IdleInv, ReservoirInit, CounterInit, reservoirVars, counterVars
  <2> QED
    BY <1>1, <2>1, <2>2 DEF ToolsInv
<1>5. CASE Counting
  <2>1. job.tool \in {"appmc", "lmc", "pc"} /\ job' = job /\ CounterInv'
    BY <1>1, <1>5, CounterStepInv DEF Counting, ToolsInv, CounterInv
  <2>2. IdleInv'
    BY <1>1, <1>5, <2>1 DEF Counting, IdleInv, ReservoirInit, SkipInit, reservoirVars, skipVars
  <2> QED
    BY <1>1, <2>1, <2>2 DEF ToolsInv, CounterInv
<1> QED
  BY <1>2, <1>3, <1>4, <1>5, ToolsStutter DEF Next

\* Every tool keeps its part of the invariant and leaves the variables of the others alone.
THEOREM ToolsInvariance == Spec => []ToolsInv
<1>1. Init => ToolsInv
  BY InitToolsInv
<1>2. ToolsInv /\ [Next]_vars => ToolsInv'
  BY ToolsStep
<1> QED
  BY <1>1, <1>2, PTL DEF Spec

LEMMA InvTypeOK ==
  ASSUME ToolsInv
  PROVE  TypeOK
<1>1. job \in Jobs /\ IdleInv /\ job.threads \in Nat \ {0} /\ job.nb \in Nat
      /\ job.tool \in {"sampler", "rsampler", "rhsampler", "appmc", "lmc", "pc"}
  BY JobTypes DEF ToolsInv
<1>2. CommonInv
  BY <1>1 DEF ToolsInv, SamplerInv, RsamplerInv, RhsamplerInv, AppmcInv, LmcInv, PcInv
<1>3. pc \in {"start", "count", "exact", "heuristic", "fill", "print", "skip",
              "sample", "tries", "done", "crashed"}
  BY <1>1 DEF ToolsInv, SamplerInv, RsamplerInv, RhsamplerInv, AppmcInv, LmcInv, PcInv
<1>4. PathTypeOK
  BY <1>1, <1>2, <1>3 DEF PathTypeOK, CommonInv, LoopInv
<1>5. ReservoirTypeOK
  BY <1>1, ReservoirStart DEF ToolsInv, RsamplerInv, IdleInv
<1>6. SkipTypeOK
  BY <1>1, SkipStart DEF ToolsInv, RhsamplerInv, IdleInv
<1>7. CounterTypeOK
  <2>1. CASE CounterInit
    <3>1. DOMAIN stream = {}
      BY <2>1 DEF CounterInit
    <3> QED
      BY <2>1, <3>1 DEF CounterInit, CounterTypeOK
  <2>2. CASE job.tool = "appmc"
    <3>1. AppmcInv
      BY <2>2 DEF ToolsInv
    <3>2. CASE pc = "start"
      BY <2>1, <3>1, <3>2 DEF AppmcInv
    <3>3. CASE pc # "start"
      BY <3>1, <3>3 DEF AppmcInv, TeamInv, StreamInv, CounterTypeOK
    <3> QED
      BY <3>2, <3>3
  <2>3. CASE job.tool = "lmc"
    <3>1. LmcInv
      BY <2>3 DEF ToolsInv
    <3>2. DOMAIN stream = {} /\ lowest \in Nat \cup {-1}
      BY <3>1, MinNat DEF LmcInv
    <3> QED
      BY <3>1, <3>2 DEF LmcInv, CounterTypeOK
  <2> QED
    BY <1>1, <2>1, <2>2, <2>3 DEF ToolsInv, PcInv, IdleInv
<1> QED
  BY <1>4, <1>5, <1>6, <1>7 DEF TypeOK

LEMMA InvCounterTally ==
  ASSUME ToolsInv
  PROVE  CounterTally
<1>1. job \in Jobs /\ job.threads \in Nat \ {0} /\ job.nb \in Nat
  BY JobTypes DEF ToolsInv
<1>2. Max({1, job.nb}) = Limit
  BY <1>1, MaxPair DEF Limit
<1>3. Limit \in Nat /\ Limit >= 1
  BY <1>1 DEF Limit
<1>4. ASSUME CounterInit PROVE CounterTally
  <2>1. DOMAIN stream = {} /\ counted = 0 /\ lowest = -1 /\ ended = {}
    BY <1>4 DEF CounterInit
  <2> QED
    BY <1>1, <1>2, <1>3, <2>1 DEF CounterTally, IsInjective
<1>5. ASSUME job.tool = "appmc" PROVE CounterTally
  <2>1. AppmcInv /\ StopInv /\ counted \in Nat /\ lowest = -1 /\ ended = {}
        /\ \A s, t \in DOMAIN stream : stream[s] = stream[t] => s = t
    BY <1>5 DEF ToolsInv, AppmcInv, StreamInv
  <2>2. Cardinality(DOMAIN flight) \in Nat
    BY <1>1, <2>1, LoopTypes DEF AppmcInv, CommonInv
  <2>3. counted <= Limit + job.threads - 1
    <3>1. CASE stop
      BY <1>1, <1>3, <2>1, <2>2, <3>1 DEF StopInv
    <3>2. CASE ~stop
      BY <1>1, <1>3, <2>1, <3>2 DEF StopInv
    <3> QED
      BY <3>1, <3>2
  <2> QED
    BY <1>2, <2>1, <2>3 DEF CounterTally, IsInjective
<1>6. ASSUME job.tool = "lmc" PROVE CounterTally
  <2>1. stream = <<>> /\ counted = 0 /\ lowest = IF ended = {} THEN -1 ELSE Min(ended)
    BY <1>6 DEF ToolsInv, LmcInv
  <2>2. DOMAIN stream = {}
    BY <2>1
  <2> QED
    BY <1>1, <1>2, <1>3, <2>1, <2>2 DEF CounterTally, IsInjective
<1>7. CounterInit \/ job.tool \in {"appmc", "lmc"}
  BY DEF ToolsInv, IdleInv, PcInv
<1> QED
  BY <1>4, <1>5, <1>6, <1>7

LEMMA InvTally ==
  ASSUME ToolsInv
  PROVE  TallyExact
<1>1. TypeOK /\ CounterTally
  BY InvTypeOK, InvCounterTally
<1>2. job.tool = "sampler" =>
        tmc = IF pc = "start" \/ ~ (Cardinality(Paths) <= job.k) THEN 0
              ELSE Mass(Paths \ (IF pc = "count" THEN todo ELSE {}))
  BY DEF ToolsInv, SamplerInv, Few, CountedPaths
<1>3. job.tool = "rsampler" /\ pc = "fill" =>
        /\ tmc = Mass(visited \ Range(flight))
        /\ \A j \in DOMAIN reservoir :
             reservoir[j] \in visited \ Range(flight)
             /\ (tmc > 0 => job.counts[reservoir[j]] > 0)
  BY DEF ToolsInv, RsamplerInv, FillInv, Tallied
<1>4. job.tool = "rhsampler" /\ ~jumped /\ pc = "skip" =>
        /\ tmc = Mass({p \in Paths : p <= ipath})
        /\ IsInjective(found) /\ Range(found) \subseteq Passed1
        /\ Len(found) < job.nb => Range(found) = Passed1
  BY DEF ToolsInv, RhsamplerInv, WalkInv
<1> QED
  BY <1>1, <1>2, <1>3, <1>4 DEF TallyExact

\* However the threads of the tools interleave, what they have counted is exactly what
\* they have visited, and what they keep are paths and solutions among it.
THEOREM TallyAlwaysExact == Spec => []TallyExact
<1>1. ToolsInv => TallyExact
  BY InvTally
<1> QED
  BY <1>1, ToolsInvariance, PTL

LEMMA InvCounterOutcome ==
  ASSUME ToolsInv
  PROVE  CounterOutcome
<1> SUFFICES ASSUME pc = "done" PROVE CounterOutcome
  BY DEF CounterOutcome
<1>1. job \in Jobs /\ job.threads \in Nat \ {0} /\ job.nb \in Nat /\ job.k \in Nat
  BY JobTypes DEF ToolsInv
<1>2. ASSUME job.tool = "appmc"
      PROVE  /\ counted >= job.nb \/ (job.k > 0 /\ counted >= Max({2, job.k}))
             /\ job.verbose => /\ {lines[j][1] : j \in DOMAIN lines} = 2 .. counted
                               /\ Len(lines) = counted - 1
             /\ job.nb >= 2 => lines # <<>>
             /\ job.nb \in 2 .. counted => job.nb \in {lines[j][1] : j \in DOMAIN lines}
  <2>1. /\ AppmcInv /\ StopInv /\ LinesInv /\ TeamInv /\ counted \in Nat
        /\ out = 1 .. job.threads
    BY <1>2 DEF ToolsInv, AppmcInv
  <2>2. stop
    <3>1. 1 \in out
      BY <1>1, <2>1
    <3> QED
      BY <2>1, <3>1 DEF TeamInv
  <2>3. counted >= 1
        /\ (counted >= job.nb \/ (job.k > 0 /\ counted >= 2 /\ counted >= job.k))
    BY <2>1, <2>2 DEF StopInv
  <2>4. Max({2, job.k}) = IF 2 >= job.k THEN 2 ELSE job.k
    BY <1>1, MaxPair
  <2>5. counted >= job.nb \/ (job.k > 0 /\ counted >= Max({2, job.k}))
    BY <1>1, <2>1, <2>3, <2>4
  <2>6. counted # 0
    BY <2>1, <2>3
  <2> QED
    BY <2>1, <2>2, <2>5, <2>6 DEF LinesInv, ShownIn
<1>3. job.tool = "lmc" => (lowest = -1 <=> job.nb = 0)
  <2> SUFFICES ASSUME job.tool = "lmc" PROVE lowest = -1 <=> job.nb = 0
    OBVIOUS
  <2>1. /\ ended \in SUBSET Nat /\ (lowest = IF ended = {} THEN -1 ELSE Min(ended))
        /\ (ended = {} <=> job.nb = 0)
    BY DEF ToolsInv, LmcInv
  <2>2. ended # {} => Min(ended) \in Nat
    BY <2>1, MinNat
  <2>3. ended # {} => lowest # -1
    <3>1. \A n \in Nat : n # -1
      OBVIOUS
    <3> QED
      BY <2>1, <2>2, <3>1
  <2> QED
    BY <2>1, <2>3
<1>4. job.tool = "pc" => tmc = Len(job.counts)
  BY DEF ToolsInv, PcInv
<1> QED
  BY <1>2, <1>3, <1>4 DEF CounterOutcome

LEMMA InvOutcome ==
  ASSUME ToolsInv
  PROVE  OutcomeSound
<1> DEFINE solutions == Cardinality(Range(lines))
<1>1. CounterOutcome
  BY InvCounterOutcome
<1>2. job \in Jobs /\ job.tool \in {"sampler", "rsampler", "rhsampler", "appmc", "lmc", "pc"}
  BY JobTypes DEF ToolsInv
<1>3. ASSUME job.tool \in {"sampler", "rsampler", "rhsampler"}, ~jumped
      PROVE  \A j \in DOMAIN lines : IsSolution(lines[j])
  <2>1. CASE job.tool = "rhsampler" /\ pc # "done"
    <3>1. lines = <<>>
      BY <2>1 DEF ToolsInv, RhsamplerInv
    <3> QED
      BY <3>1
  <2>2. CASE ~ (job.tool = "rhsampler" /\ pc # "done")
    <3>1. LinesSound
      BY <1>3, <2>2 DEF ToolsInv, SamplerInv, RsamplerInv, RhsamplerInv, PrintsSolutions
    <3> QED
      BY <3>1 DEF LinesSound
  <2> QED
    BY <2>1, <2>2
<1>4. ASSUME pc = "done", job.tool = "rhsampler", ~jumped
      PROVE  /\ solutions = Len(lines)
             /\ solutions = job.nb \/ (solutions = Mass(Paths) /\ solutions < job.nb)
  <2>1. /\ lines \in Seq(Nat \X Nat) /\ IsInjective(lines)
        /\ Len(lines) = job.nb \/ (Len(lines) = Mass(Paths) /\ Len(lines) < job.nb)
    BY <1>4 DEF ToolsInv, RhsamplerInv, CommonInv
  <2>2. solutions = Len(lines)
    BY <2>1, InjectiveCard
  <2> QED
    BY <2>1, <2>2
<1>5. pc = "done" /\ job.tool = "sampler" => Len(lines) = job.nb
  BY DEF ToolsInv, SamplerInv
<1>6. pc = "done" /\ job.tool = "rsampler" => Len(lines) = IF visited = {} THEN 0 ELSE job.nb
  BY DEF ToolsInv, RsamplerInv
<1>7. ASSUME pc = "crashed"
      PROVE  /\ job.tool = "sampler" =>
                  IF Cardinality(Paths) <= job.k THEN Mass(Paths) = 0
                  ELSE \E P \in kSubset(job.k, Paths) : Mass(P) = 0
             /\ job.tool = "rsampler" => tmc = 0
             /\ job.tool = "rhsampler" => job.nb = 0 \/ jumped
             /\ job.tool \in {"appmc", "lmc", "pc"} => Paths = {}
  BY <1>7 DEF ToolsInv, SamplerInv, Few, RsamplerInv, RhsamplerInv, AppmcInv, LmcInv, PcInv
<1> HIDE DEF solutions
<1>8. pc = "done" =>
        CASE job.tool = "sampler" -> Len(lines) = job.nb
          [] job.tool = "rsampler" -> Len(lines) = IF visited = {} THEN 0 ELSE job.nb
          [] job.tool = "rhsampler" /\ ~jumped ->
               /\ solutions = Len(lines)
               /\ solutions = job.nb \/ (solutions = Mass(Paths) /\ solutions < job.nb)
          [] OTHER -> TRUE
  BY <1>4, <1>5, <1>6
<1>9. pc = "crashed" =>
        CASE job.tool = "sampler" ->
               IF Cardinality(Paths) <= job.k THEN Mass(Paths) = 0
               ELSE \E P \in kSubset(job.k, Paths) : Mass(P) = 0
          [] job.tool = "rsampler" -> tmc = 0
          [] job.tool = "rhsampler" -> job.nb = 0 \/ jumped
          [] OTHER -> Paths = {}
  BY <1>2, <1>7
<1> QED
  BY <1>1, <1>3, <1>8, <1>9 DEF OutcomeSound, solutions

\* What the samplers print are solutions, as many as are asked for, and what the counters
\* print is about what they have counted, in whatever order their threads work; a tool
\* fails only on a command line or a circuit that leaves it nothing to draw from.
THEOREM OutcomeAlwaysSound == Spec => []OutcomeSound
<1>1. ToolsInv => OutcomeSound
  BY InvOutcome
<1> QED
  BY <1>1, ToolsInvariance, PTL
=====

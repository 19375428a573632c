-------------------------- MODULE CnfStore_proofs --------------------------
(***************************************************************************)
(* Facts about CnfStore which the proofs about both classes CNF rest on:   *)
(* literals and assignments, loops over slots, what rm_clause and          *)
(* add_clause leave.                                                       *)
(***************************************************************************)
EXTENDS CnfStore, FiniteSetTheorems, FunctionTheorems, SequenceTheorems,
        WellFoundedInduction, TLAPS

-----------------------------------------------------------------------------
(* Literals, assignments and clauses *)

\* Literals are non-zero integers, closed under negation.
LEMMA LiteralFacts ==
  ASSUME NEW l \in Literals
  PROVE  l \in Int /\ l # 0 /\ -l \in Literals /\ -(-l) = l
BY StoreAssumption DEF Literals

\* An assignment holds exactly one of the literals of every variable.
LEMMA AssignmentFacts ==
  ASSUME NEW m \in Assignments, NEW l \in Literals
  PROVE  (l \in m) <=> (-l \notin m)
<1>1. PICK T \in SUBSET Vars : m = {IF v \in T THEN v ELSE -v : v \in Vars}
  BY DEF Assignments
<1>2. \A v \in Vars : v \in Int /\ v > 0 /\ -v < 0 /\ -(-v) = v
  BY StoreAssumption
<1>3. \A v \in Vars : v \in m <=> v \in T
  <2>1. SUFFICES ASSUME NEW v \in Vars PROVE v \in m <=> v \in T
    OBVIOUS
  <2>2. ASSUME v \in m PROVE v \in T
    <3>1. PICK w \in Vars : v = IF w \in T THEN w ELSE -w
      BY <2>2, <1>1
    <3>2. w \in T
      BY <3>1, <1>2
    <3> QED
      BY <3>1, <3>2
  <2>3. ASSUME v \in T PROVE v \in m
    BY <2>3, <1>1
  <2> QED
    BY <2>2, <2>3
<1>4. \A v \in Vars : -v \in m <=> v \notin T
  <2>1. SUFFICES ASSUME NEW v \in Vars PROVE -v \in m <=> v \notin T
    OBVIOUS
  <2>2. ASSUME -v \in m PROVE v \notin T
    <3>1. PICK w \in Vars : -v = IF w \in T THEN w ELSE -w
      BY <2>2, <1>1
    <3>2. w \notin T /\ -v = -w
      BY <3>1, <1>2
    <3>3. v = w
      BY <3>2, <1>2
    <3> QED
      BY <3>2, <3>3
  <2>3. ASSUME v \notin T PROVE -v \in m
    BY <2>3, <1>1
  <2> QED
    BY <2>2, <2>3
<1>5. CASE l \in Vars
  BY <1>3, <1>4, <1>5
<1>6. CASE l \notin Vars
  <2>1. PICK v \in Vars : l = -v
    BY <1>6 DEF Literals
  <2>2. -l = v
    BY <2>1, <1>2
  <2> QED
    BY <1>3, <1>4, <2>1, <2>2
<1> QED
  BY <1>5, <1>6

\* A set that holds one of the literals of every variable is an assignment.
LEMMA AssignmentIntro ==
  ASSUME NEW m \in SUBSET Literals, \A v \in Vars : v \in m <=> -v \notin m
  PROVE  m \in Assignments
<1> DEFINE T == {v \in Vars : v \in m}
<1> DEFINE a == {IF v \in T THEN v ELSE -v : v \in Vars}
<1>1. a \subseteq m
  OBVIOUS
<1>2. m \subseteq a
  <2> SUFFICES ASSUME NEW l \in m PROVE l \in a
    OBVIOUS
  <2>1. CASE l \in Vars
    <3>1. l \in T
      BY <2>1
    <3> QED
      BY <2>1, <3>1
  <2>2. CASE l \notin Vars
    <3>1. PICK v \in Vars : l = -v
      BY <2>2 DEF Literals
    <3>2. v \notin T
      BY <3>1
    <3> QED
      BY <3>1, <3>2
  <2> QED
    BY <2>1, <2>2
<1>3. a \in Assignments
  <2>1. T \in SUBSET Vars
    OBVIOUS
  <2> QED
    BY <2>1 DEF Assignments
<1> QED
  BY <1>1, <1>2, <1>3

LEMMA AssignmentLiterals ==
  ASSUME NEW m \in Assignments
  PROVE  m \subseteq Literals
BY DEF Assignments, Literals

\* A tautology restricts nothing.
LEMMA TautologySatisfied ==
  ASSUME NEW m \in Assignments, NEW c \in SUBSET Literals, Tautology(c)
  PROVE  Satisfies(m, c)
<1>1. PICK l \in c : -l \in c
  BY DEF Tautology
<1> QED
  BY <1>1, AssignmentFacts DEF Satisfies

\* The literals are finite, and so is every clause.
LEMMA ClauseFinite ==
  ASSUME NEW c \in SUBSET Literals
  PROVE  IsFiniteSet(c)
<1> DEFINE f == [v \in Vars |-> -v]
<1>1. f \in Surjection(Vars, {-v : v \in Vars})
  BY DEF Surjection
<1>2. IsFiniteSet({-v : v \in Vars})
  BY <1>1, StoreAssumption, FS_Surjection
<1>3. IsFiniteSet(Literals)
  BY <1>2, StoreAssumption, FS_Union DEF Literals
<1> QED
  BY <1>3, FS_Subset

\* A clause of one literal.
LEMMA UnitClause ==
  ASSUME NEW c \in SUBSET Literals
  PROVE  Cardinality(c) = 1 <=> \E l \in Literals : c = {l}
<1>1. Cardinality(c) = 1 <=> \E l : c = {l}
  BY ClauseFinite, FS_Singleton
<1> QED
  BY <1>1

-----------------------------------------------------------------------------
(* The clause store *)

StoreTypes ==
  /\ clauses \in Seq(SUBSET Literals)
  /\ active \in [Ids -> BOOLEAN]
  /\ idx \in [Literals -> SUBSET Ids]
  /\ available \in Seq(Ids)

\* The order of a loop visits every slot once.
LEMMA OrderFacts ==
  ASSUME NEW T, IsFiniteSet(T), NEW order \in Orders(T)
  PROVE  /\ order \in Seq(T)
         /\ DOMAIN order = 1 .. Len(order)
         /\ SlotsOf(order) = T
         /\ \A j, k \in DOMAIN order : order[j] = order[k] => j = k
<1>1. Cardinality(T) \in Nat
  BY FS_CardinalityType
<1>2. order \in [1 .. Cardinality(T) -> T]
  BY DEF Orders
<1>3. order \in Seq(T)
  BY <1>1, <1>2, SeqDef
<1>4. DOMAIN order = 1 .. Len(order) /\ DOMAIN order = 1 .. Cardinality(T)
  BY <1>2, <1>3, LenProperties
<1>5. SlotsOf(order) = T
  BY <1>2 DEF SlotsOf, Orders
<1>6. order \in Surjection(1 .. Cardinality(T), T)
  BY <1>2 DEF Surjection, Orders
<1>7. IsFiniteSet(1 .. Cardinality(T)) /\ Cardinality(1 .. Cardinality(T)) = Cardinality(T)
  BY <1>1, FS_Interval
<1>8. order \in Injection(1 .. Cardinality(T), T)
  BY <1>6, <1>7, FS_SurjSameCardinalityImpliesInj
<1> QED
  BY <1>3, <1>4, <1>5, <1>8 DEF Injection, IsInjective

\* The slots are finitely many.
LEMMA SlotsFinite ==
  ASSUME StoreTypes, NEW T \in SUBSET Ids
  PROVE  IsFiniteSet(T)
<1>1. Len(clauses) \in Nat /\ Ids = 1 .. Len(clauses)
  BY LenProperties DEF StoreTypes, Ids
<1>2. 1 \in Int /\ Len(clauses) \in Int
  BY <1>1
<1>3. IsFiniteSet(Ids)
  BY <1>1, <1>2, FS_Interval
<1> QED
  BY <1>3, FS_Subset
-----------------------------------------------------------------------------
(* Counters modulo 2^Width *)

LEMMA LessByMultiple ==
  ASSUME NEW M \in Nat \ {0}, NEW d \in Int, NEW q \in Int, q < d
  PROVE  M * q + M <= M * d
<1>1. M * (q + 1) <= M * d
  BY Z3
<1>2. M * (q + 1) = M * q + M
  BY Z3
<1> QED
  BY <1>1, <1>2, Z3

\* Quotient and remainder are unique.
LEMMA Remainder ==
  ASSUME NEW M \in Nat \ {0}, NEW x \in Int, NEW q \in Int, NEW r \in 0 .. M - 1, x = M * q + r
  PROVE  x % M = r
<1> DEFINE d == x \div M
<1> DEFINE s == x % M
<1>1. d \in Int /\ s \in 0 .. M - 1 /\ x = M * d + s
  BY SMT
<1> HIDE DEF d, s
<1>2. M * q \in Int /\ M * d \in Int
  BY <1>1, SMT
<1>3. ~(q < d)
  BY <1>1, <1>2, LessByMultiple
<1>4. ~(d < q)
  BY <1>1, <1>2, LessByMultiple
<1>5. q = d
  BY <1>1, <1>3, <1>4
<1> QED
  BY <1>1, <1>2, <1>5 DEF s

LEMMA ModPlus ==
  ASSUME NEW M \in Nat \ {0}, NEW a \in Int, NEW b \in Int
  PROVE  ((a % M) + b) % M = (a + b) % M
<1> DEFINE q == a \div M
<1> DEFINE r == a % M
<1>1. q \in Int /\ r \in 0 .. M - 1 /\ a = M * q + r
  BY SMT
<1> HIDE DEF q, r
<1>2. r + b \in Int
  BY <1>1
<1> DEFINE d == (r + b) \div M
<1> DEFINE s == (r + b) % M
<1>3. d \in Int /\ s \in 0 .. M - 1 /\ r + b = M * d + s
  BY <1>2, SMT
<1> HIDE DEF d, s
<1> DEFINE e == q + d
<1>4. e \in Int /\ a + b = M * e + s
  <2>1. M * q \in Int /\ M * d \in Int /\ M * (q + d) = M * q + M * d
    BY <1>1, <1>3, SMT
  <2> QED
    BY <1>1, <1>3, <2>1
<1> HIDE DEF e
<1>5. a + b \in Int
  OBVIOUS
<1>6. (a + b) % M = s
  BY <1>3, <1>4, <1>5, Remainder
<1> QED
  BY <1>6 DEF s, r

LEMMA ModMinus ==
  ASSUME NEW M \in Nat \ {0}, NEW a \in Int, NEW b \in Int
  PROVE  (a - (b % M)) % M = (a - b) % M
<1> DEFINE q == b \div M
<1> DEFINE r == b % M
<1>1. q \in Int /\ r \in 0 .. M - 1 /\ b = M * q + r
  BY SMT
<1> HIDE DEF q, r
<1>2. a - r \in Int
  BY <1>1
<1> DEFINE d == (a - r) \div M
<1> DEFINE s == (a - r) % M
<1>3. d \in Int /\ s \in 0 .. M - 1 /\ a - r = M * d + s
  BY <1>2, SMT
<1> HIDE DEF d, s
<1> DEFINE e == d - q
<1>4. e \in Int /\ a - b = M * e + s
  <2>1. M * q \in Int /\ M * d \in Int /\ M * (d - q) = M * d - M * q
    BY <1>1, <1>3, SMT
  <2> QED
    BY <1>1, <1>3, <2>1
<1> HIDE DEF e
<1>5. a - b \in Int
  OBVIOUS
<1>6. (a - b) % M = s
  BY <1>3, <1>4, <1>5, Remainder
<1> QED
  BY <1>6 DEF s, r

LEMMA ModSmall ==
  ASSUME NEW M \in Nat \ {0}, NEW a \in Nat
  PROVE  a % M <= a /\ a % M \in 0 .. M - 1
<1> DEFINE q == a \div M
<1> DEFINE r == a % M
<1>1. q \in Nat /\ r \in 0 .. M - 1 /\ a = M * q + r
  BY SMT
<1> HIDE DEF q, r
<1>2. M * q \in Nat
  BY <1>1, SMT
<1>3. r <= a
  BY <1>1, <1>2
<1> QED
  BY <1>1, <1>3 DEF r

\* A size_t holds at least zero.
LEMMA Sizes == 2^Width \in Nat \ {0}
<1> DEFINE bits == 1 .. Width
<1>1. Width \in Nat
  BY StoreAssumption
<1>2. IsFiniteSet(bits) /\ Cardinality(bits) = Width
  BY <1>1, FS_Interval
<1>3. IsFiniteSet(SUBSET bits) /\ Cardinality(SUBSET bits) = 2^Width
  BY <1>2, FS_SUBSET
<1>4. SUBSET bits # {}
  OBVIOUS
<1> QED
  BY <1>3, <1>4, FS_CardinalityType, FS_EmptySet

LEMMA WrapFacts ==
  /\ \A a, b \in Int : Wrap(Wrap(a) + b) = Wrap(a + b)
  /\ \A a, b \in Int : Wrap(a - Wrap(b)) = Wrap(a - b)
  /\ \A a \in Int : Wrap(a) \in 0 .. 2^Width - 1
  /\ \A a \in Nat : Wrap(a) <= a
<1>1. ASSUME NEW M \in Nat \ {0}
      PROVE  /\ \A a, b \in Int : ((a % M) + b) % M = (a + b) % M
             /\ \A a, b \in Int : (a - (b % M)) % M = (a - b) % M
             /\ \A a \in Int : a % M \in 0 .. M - 1
             /\ \A a \in Nat : a % M <= a
  <2>1. \A a, b \in Int : ((a % M) + b) % M = (a + b) % M
    BY ModPlus
  <2>2. \A a, b \in Int : (a - (b % M)) % M = (a - b) % M
    BY ModMinus
  <2>3. \A a \in Int : a % M \in 0 .. M - 1
    BY SMT
  <2> QED
    BY <2>1, <2>2, <2>3, ModSmall
<1> QED
  BY <1>1, Sizes DEF Wrap

\* A number that fits is itself.
LEMMA WrapSmall ==
  ASSUME NEW k \in Nat, k < 2^Width
  PROVE  Wrap(k) = k
<1>1. ASSUME NEW M \in Nat \ {0}, k < M PROVE k % M = k
  <2>1. k = M * 0 + k /\ k \in 0 .. M - 1
    BY <1>1
  <2> QED
    BY <2>1, Remainder
<1> QED
  BY <1>1, Sizes DEF Wrap

-----------------------------------------------------------------------------
(* The counter of active clauses *)

\* The counter is, modulo 2^Width, the number of active clauses.
CounterExact == nbActive = Wrap(Cardinality(ActiveIds))

LEMMA ActiveFinite ==
  ASSUME StoreTypes
  PROVE  IsFiniteSet(ActiveIds) /\ Cardinality(ActiveIds) \in Nat
BY SlotsFinite, FS_CardinalityType DEF ActiveIds

\* A counter from which the number of clauses switched off is subtracted.
LEMMA CounterMinus ==
  ASSUME StoreTypes, CounterExact, NEW T \in SUBSET ActiveIds
  PROVE  Wrap(nbActive - Cardinality(T)) = Wrap(Cardinality(ActiveIds \ T))
<1>1. IsFiniteSet(ActiveIds) /\ Cardinality(ActiveIds) \in Nat
  BY ActiveFinite
<1>2. T = ActiveIds \cap T /\ IsFiniteSet(T) /\ Cardinality(T) \in Nat
  BY <1>1, FS_Subset, FS_CardinalityType
<1>3. Cardinality(ActiveIds \ T) = Cardinality(ActiveIds) - Cardinality(T)
  BY <1>1, <1>2, FS_Difference
<1>4. \A a, b \in Int : Wrap(Wrap(a) + b) = Wrap(a + b)
  BY WrapFacts
<1>5. Wrap(Wrap(Cardinality(ActiveIds)) + (-Cardinality(T)))
      = Wrap(Cardinality(ActiveIds) + (-Cardinality(T)))
  BY <1>1, <1>2, <1>4
<1>6. Wrap(Cardinality(ActiveIds)) \in Int
  BY <1>1, WrapFacts
<1>7. /\ Wrap(Cardinality(ActiveIds)) + (-Cardinality(T)) = nbActive - Cardinality(T)
      /\ Cardinality(ActiveIds) + (-Cardinality(T)) = Cardinality(ActiveIds \ T)
  BY <1>1, <1>2, <1>3, <1>6 DEF CounterExact
<1> QED
  BY <1>5, <1>7

LEMMA IntervalCount ==
  ASSUME NEW n \in Nat
  PROVE  IsFiniteSet(1 .. n) /\ Cardinality(1 .. n) = n
<1>1. 1 \in Int /\ n \in Int
  OBVIOUS
<1>2. IsFiniteSet(1 .. n) /\ Cardinality(1 .. n) = IF 1 > n THEN 0 ELSE n - 1 + 1
  BY <1>1, FS_Interval
<1> QED
  BY <1>2

\* A sequence that visits every slot of T once is as long as T is large.
LEMMA OrderLength ==
  ASSUME NEW T, NEW order \in Seq(T), SlotsOf(order) = T,
         \A j, k \in DOMAIN order : order[j] = order[k] => j = k
  PROVE  IsFiniteSet(T) /\ Len(order) = Cardinality(T)
<1>1. Len(order) \in Nat /\ order \in [1 .. Len(order) -> T] /\ DOMAIN order = 1 .. Len(order)
  BY LenProperties
<1>2. order \in Surjection(1 .. Len(order), T)
  BY <1>1 DEF Surjection, SlotsOf
<1>3. order \in Injection(1 .. Len(order), T)
  BY <1>1 DEF Injection, IsInjective
<1>4. IsFiniteSet(1 .. Len(order)) /\ Cardinality(1 .. Len(order)) = Len(order)
  BY <1>1, IntervalCount
<1> QED
  BY <1>2, <1>3, <1>4, FS_Surjection

\* rm_clause on active clauses.
LEMMA DeactivateCounts ==
  ASSUME StoreTypes, CounterExact, NEW T \in SUBSET ActiveIds, NEW order \in Seq(T),
         SlotsOf(order) = T, \A j, k \in DOMAIN order : order[j] = order[k] => j = k,
         Deactivate(order), Ids' = Ids
  PROVE  ActiveIds' = ActiveIds \ T /\ CounterExact'
<1>1. Len(order) = Cardinality(T)
  BY OrderLength
<1>2. ActiveIds' = ActiveIds \ T
  BY DEF Deactivate, ActiveIds
<1>3. nbActive' = Wrap(nbActive - Cardinality(T))
  BY <1>1 DEF Deactivate
<1> QED
  BY <1>2, <1>3, CounterMinus DEF CounterExact

\* add_clause in a slot that holds no active clause.
LEMMA AddClauseCounts ==
  ASSUME StoreTypes, CounterExact, NEW c, AddClause(c), NextSlot \notin ActiveIds
  PROVE  ActiveIds' = ActiveIds \cup {NextSlot} /\ CounterExact'
         /\ Cardinality(ActiveIds') = Cardinality(ActiveIds) + 1
<1>1. IsFiniteSet(ActiveIds) /\ Cardinality(ActiveIds) \in Nat
  BY ActiveFinite
<1>2. Ids' = Ids \cup {NextSlot}
      /\ active' = [id \in Ids \cup {NextSlot} |-> id = NextSlot \/ active[id]]
  BY DEF AddClause, Ids
<1>3. ActiveIds' = ActiveIds \cup {NextSlot}
  BY <1>2 DEF ActiveIds
<1>4. Cardinality(ActiveIds') = Cardinality(ActiveIds) + 1
  BY <1>1, <1>3, FS_AddElement
<1>5. nbActive' = Wrap(Wrap(Cardinality(ActiveIds)) + 1)
  BY DEF AddClause, CounterExact
<1>6. Wrap(Wrap(Cardinality(ActiveIds)) + 1) = Wrap(Cardinality(ActiveIds) + 1)
  BY <1>1, WrapFacts
<1> QED
  BY <1>3, <1>4, <1>5, <1>6 DEF CounterExact
-----------------------------------------------------------------------------
(* Sums over a set, as the community modules define them *)

\* f is the sum of h over every subset of K.
AddsUp(f, h, K) ==
  \A s \in SUBSET K : f[s] = IF s = {} THEN 0
    ELSE h[CHOOSE x \in s : TRUE] + f[s \ {CHOOSE x \in s : TRUE}]

\* Two functions that both are agree: a smallest set on which they do not has an element
\* without which they do.
LEMMA SumUnique ==
  ASSUME NEW K, IsFiniteSet(K), NEW h, NEW f, NEW g, AddsUp(f, h, K), AddsUp(g, h, K)
  PROVE  \A s \in SUBSET K : f[s] = g[s]
<1> DEFINE pick(s) == CHOOSE x \in s : TRUE
           T == {s \in SUBSET K : f[s] # g[s]}
<1>1. \A s \in SUBSET K : s # {} =>
        /\ pick(s) \in s
        /\ f[s] = h[pick(s)] + f[s \ {pick(s)}] /\ g[s] = h[pick(s)] + g[s \ {pick(s)}]
  BY DEF AddsUp
<1>2. f[{}] = 0 /\ g[{}] = 0
  BY DEF AddsUp
<1> HIDE DEF pick
<1>3. ASSUME T # {} PROVE FALSE
  <2>1. IsWellFoundedOn(StrictSubsetOrdering(K), SUBSET K)
    BY FS_StrictSubsetOrderingWellFounded, FS_FiniteSubsetsOfFinite
  <2>2. PICK s \in T : \A t \in T : ~ (<<t, s>> \in StrictSubsetOrdering(K))
    BY <1>3, <2>1, WFMin
  <2>3. s # {}
    BY <1>2
  <2>4. s \ {pick(s)} \in SUBSET K /\ <<s \ {pick(s)}, s>> \in StrictSubsetOrdering(K)
    BY <1>1, <2>3 DEF StrictSubsetOrdering
  <2>5. f[s \ {pick(s)}] = g[s \ {pick(s)}]
    BY <2>2, <2>4
  <2>6. s \in SUBSET K /\ f[s] # g[s]
    OBVIOUS
  <2> HIDE DEF T
  <2> QED
    BY <1>1, <2>3, <2>5, <2>6
<1> QED
  BY <1>3

=============================================================================

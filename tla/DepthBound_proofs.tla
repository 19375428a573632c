-------------------------- MODULE DepthBound_proofs --------------------------
(***************************************************************************)
(* Proofs about Annf, which turns ids into the models of a circuit, for    *)
(* every d-DNNF and every list of disjoint cubes: the counts are exact and *)
(* the ids are in bijection with the models.                               *)
(*                                                                         *)
(* Then about the compiler D4d, for every formula, every depth, every      *)
(* answer of the solver and every choice of variables: at each step the    *)
(* circuit is a d-DNNF, what is printed is an upper bound over the same    *)
(* variables, and it is the formula if the depth is no limit; and about    *)
(* DepthBound, where the one is read by the other.                         *)
(***************************************************************************)
EXTENDS DepthBound, FiniteSetTheorems, SequenceTheorems, WellFoundedInduction, TLAPS
-----------------------------------------------------------------------------
(* Folds: a fold over a sequence goes through the results for its prefixes *)

\* A set of numbers has a least one.
LEMMA LeastNat ==
  ASSUME NEW S \in SUBSET Nat, S # {}
  PROVE  \E x \in S : \A y \in S : x <= y
<1>1. PICK x \in S : \A y \in S : ~ (<<y, x>> \in OpToRel(<, Nat))
  BY NatLessThanWellFounded, WFMin
<1>2. \A y \in S : ~ (y < x)
  BY <1>1 DEF OpToRel
<1> QED
  BY <1>2

\* What holds of 0 and is handed from k - 1 to k holds up to n.
LEMMA CountUp ==
  ASSUME NEW n \in Nat, NEW F, 0 \in F, \A k \in 1 .. n : k - 1 \in F => k \in F
  PROVE  \A k \in 0 .. n : k \in F
<1> DEFINE Bad == {k \in 0 .. n : k \notin F}
<1> SUFFICES ASSUME Bad # {} PROVE FALSE
  OBVIOUS
<1>1. Bad \in SUBSET Nat
  OBVIOUS
<1>2. PICK k \in Bad : \A j \in Bad : k <= j
  <2> HIDE DEF Bad
  <2> QED
    BY <1>1, LeastNat
<1>3. k \in 1 .. n /\ k - 1 \in 0 .. n /\ ~(k <= k - 1)
  OBVIOUS
<1>4. k - 1 \notin Bad
  <2> HIDE DEF Bad
  <2> QED
    BY <1>2, <1>3
<1> QED
  BY <1>3, <1>4

\* The Max by which a fold picks the next index.
LEMMA MaxUpto ==
  ASSUME NEW n \in Nat, NEW t \in SUBSET (1 .. n), t # {}
  PROVE  Max(t) \in t /\ \A y \in t : y <= Max(t)
<1> DEFINE T == {n - x : x \in t}
<1>1. \A x \in t : x \in 1 .. n
  OBVIOUS
<1>2. T \in SUBSET Nat /\ T # {}
  <2>1. \A x \in t : n - x \in Nat
    BY <1>1
  <2> QED
    BY <2>1
<1>3. PICK u \in T : \A v \in T : u <= v
  BY <1>2, LeastNat
<1>4. PICK x \in t : u = n - x
  OBVIOUS
<1>5. \A y \in t : n - x <= n - y
  BY <1>3, <1>4
<1>6. \A y \in t : x >= y
  BY <1>1, <1>5
<1>7. \E m \in t : \A y \in t : m >= y
  BY <1>6
<1>8. Max(t) \in t /\ \A y \in t : Max(t) >= y
  BY <1>7 DEF Max
<1> QED
  BY <1>1, <1>8

\* The greatest index of a prefix.
LEMMA MaxOfUpto ==
  ASSUME NEW n \in Nat, NEW k \in 1 .. n, NEW t \in SUBSET (1 .. k), k \in t
  PROVE  Max(t) = k
<1>1. t \in SUBSET (1 .. n) /\ t # {} /\ \A y \in t : y \in 1 .. k
  OBVIOUS
<1>2. Max(t) \in t /\ k <= Max(t)
  BY <1>1, MaxUpto
<1>3. \A m \in 1 .. k : k <= m => m = k
  OBVIOUS
<1> QED
  BY <1>1, <1>2, <1>3

\* A fold with the given step over 1 .. n exists.
Folds(it, n, base, step) ==
  \A t \in SUBSET (1 .. n) :
    it[t] = IF t = {} THEN base ELSE step[<<it[t \ {Max(t)}], Max(t)>>]

\* A fold with a step over 1 .. n exists: one is built for every set of indices up to n.
LEMMA FoldExists ==
  ASSUME NEW n \in Nat, NEW A, NEW base \in A, NEW step \in [A \X (1 .. n) -> A]
  PROVE  \E it \in [SUBSET (1 .. n) -> A] : Folds(it, n, base, step)
<1> DEFINE Good(k) == \E it \in [SUBSET (1 .. k) -> A] : Folds(it, k, base, step)
           Bad == {k \in 0 .. n : ~ Good(k)}
<1> SUFFICES ASSUME ~ Good(n) PROVE FALSE
  OBVIOUS
<1>1. n \in Bad /\ Bad \in SUBSET Nat
  <2> HIDE DEF Good
  <2> QED
    OBVIOUS
<1>2. PICK k \in Bad : \A j \in Bad : k <= j
  <2> HIDE DEF Bad
  <2> QED
    BY <1>1, LeastNat
<1>3. k \in 0 .. n /\ ~ Good(k)
  <2> HIDE DEF Good
  <2> QED
    OBVIOUS
<1>4. k # 0
  <2>1. Good(0)
    <3> DEFINE it == [t \in SUBSET (1 .. 0) |-> base]
    <3>1. 1 .. 0 = {}
      OBVIOUS
    <3>2. it \in [SUBSET (1 .. 0) -> A] /\ \A t \in SUBSET (1 .. 0) : t = {} /\ it[t] = base
      BY <3>1
    <3> HIDE DEF it
    <3>3. Folds(it, 0, base, step)
      BY <3>2 DEF Folds
    <3> QED
      BY <3>2, <3>3
  <2> QED
    BY <1>3, <2>1
<1>5. k \in Nat /\ k - 1 \in 0 .. n /\ k - 1 < k /\ k \in 1 .. n
  BY <1>3, <1>4
<1>6. Good(k - 1)
  <2>1. k - 1 \notin Bad
    <3> HIDE DEF Bad
    <3>1. k - 1 \in Bad => k <= k - 1
      BY <1>2
    <3> QED
      BY <1>5, <3>1
  <2> HIDE DEF Good
  <2> QED
    BY <1>5, <2>1
<1>7. PICK it \in [SUBSET (1 .. k - 1) -> A] : Folds(it, k - 1, base, step)
  BY <1>6
<1> DEFINE new == [t \in SUBSET (1 .. k) |-> IF k \in t THEN step[<<it[t \ {k}], k>>] ELSE it[t]]
<1>8. \A t \in SUBSET (1 .. k) : t \ {k} \in SUBSET (1 .. k - 1)
        /\ (k \notin t => t \in SUBSET (1 .. k - 1))
  <2>1. \A j \in 1 .. k : j # k => j \in 1 .. k - 1
    BY <1>5
  <2> QED
    BY <2>1
<1>9. \A t \in SUBSET (1 .. k) :
        new[t] = (IF k \in t THEN step[<<it[t \ {k}], k>>] ELSE it[t]) /\ new[t] \in A
  <2> TAKE t \in SUBSET (1 .. k)
  <2>1. it[t \ {k}] \in A /\ <<it[t \ {k}], k>> \in A \X (1 .. n)
    BY <1>5, <1>8
  <2>2. k \notin t => it[t] \in A
    BY <1>8
  <2> QED
    BY <2>1, <2>2
<1>10. new \in [SUBSET (1 .. k) -> A]
  BY <1>9
<1> HIDE DEF new
<1>11. ASSUME NEW t \in SUBSET (1 .. k)
       PROVE  new[t] = IF t = {} THEN base ELSE step[<<new[t \ {Max(t)}], Max(t)>>]
  <2>1. CASE k \in t
    <3>1. Max(t) = k
      BY <1>5, <2>1, MaxOfUpto
    <3>2. t \ {k} \in SUBSET (1 .. k) /\ k \notin t \ {k}
      OBVIOUS
    <3>3. new[t \ {k}] = it[t \ {k}]
      BY <1>9, <3>2
    <3> QED
      BY <1>9, <2>1, <3>1, <3>3
  <2>2. CASE k \notin t
    <3>1. t \in SUBSET (1 .. k - 1) /\ new[t] = it[t]
      BY <1>8, <1>9, <2>2
    <3>2. it[t] = IF t = {} THEN base ELSE step[<<it[t \ {Max(t)}], Max(t)>>]
      BY <1>7, <3>1 DEF Folds
    <3>3. k \notin t \ {Max(t)} /\ t \ {Max(t)} \in SUBSET (1 .. k)
      BY <2>2
    <3>4. new[t \ {Max(t)}] = it[t \ {Max(t)}]
      BY <1>9, <3>3
    <3> QED
      BY <3>1, <3>2, <3>4
  <2> QED
    BY <2>1, <2>2
<1>12. Folds(new, k, base, step)
  BY <1>11 DEF Folds
<1> QED
  BY <1>3, <1>10, <1>12

\* The function inside MapThenFoldSet, and the results for the prefixes it goes through.
IsFold(f, n, A, base, step) ==
  /\ f[{}] = base
  /\ \A t \in (SUBSET (1 .. n)) \ {{}} :
       f[t \ {Max(t)}] \in A => f[t] = step[<<f[t \ {Max(t)}], Max(t)>>]
Result(f, n) == f[1 .. n]
Runs(g, n, A, base, step, r) ==
  /\ g \in [0 .. n -> A] /\ g[0] = base /\ g[n] = r
  /\ \A k \in 1 .. n : g[k] = step[<<g[k - 1], k>>]

\* The results of a fold for the prefixes are a chain of steps.
LEMMA FoldChain ==
  ASSUME NEW n \in Nat, NEW A, NEW base \in A, NEW step \in [A \X (1 .. n) -> A], NEW f,
         IsFold(f, n, A, base, step)
  PROVE  \E g : Runs(g, n, A, base, step, Result(f, n))
<1> DEFINE g == [k \in 0 .. n |-> f[1 .. k]]
           Bad == {k \in 0 .. n : g[k] \notin A}
<1>1. 1 .. 0 = {} /\ g[0] = base /\ g[n] = f[1 .. n]
  BY DEF IsFold
<1>2. ASSUME NEW k \in 1 .. n, g[k - 1] \in A
      PROVE  g[k] = step[<<g[k - 1], k>>] /\ g[k] \in A
  <2>1. 1 .. k \in (SUBSET (1 .. n)) \ {{}} /\ k \in 1 .. k /\ k - 1 \in 0 .. n /\ k \in 0 .. n
    OBVIOUS
  <2>2. Max(1 .. k) = k
    BY <2>1, MaxOfUpto
  <2>3. (1 .. k) \ {k} = 1 .. k - 1
    OBVIOUS
  <2>4. g[k] = f[1 .. k] /\ g[k - 1] = f[(1 .. k) \ {Max(1 .. k)}]
    BY <2>1, <2>2, <2>3
  <2>5. g[k] = step[<<g[k - 1], k>>]
    <3> HIDE DEF g
    <3> QED
      BY <1>2, <2>1, <2>2, <2>4 DEF IsFold
  <2> HIDE DEF g
  <2>6. <<g[k - 1], k>> \in A \X (1 .. n)
    BY <1>2
  <2> QED
    BY <2>5, <2>6
<1> HIDE DEF g
<1>3. Bad = {}
  <2> SUFFICES ASSUME Bad # {} PROVE FALSE
    OBVIOUS
  <2>1. PICK k \in Bad : \A j \in Bad : k <= j
    <3>1. Bad \in SUBSET Nat
      OBVIOUS
    <3> HIDE DEF Bad
    <3> QED
      BY <3>1, LeastNat
  <2>2. k \in 0 .. n /\ g[k] \notin A
    OBVIOUS
  <2>3. k \in 1 .. n /\ k - 1 \in 0 .. n /\ ~(k <= k - 1)
    BY <1>1, <2>2
  <2>4. k - 1 \notin Bad
    <3> HIDE DEF Bad
    <3> QED
      BY <2>1, <2>3
  <2>5. g[k - 1] \in A
    BY <2>3, <2>4
  <2> QED
    BY <1>2, <2>2, <2>3, <2>5
<1>4. \A k \in 0 .. n : g[k] \in A
  BY <1>3
<1>5. g \in [0 .. n -> A]
  BY <1>4 DEF g
<1>6. ASSUME NEW k \in 1 .. n PROVE g[k] = step[<<g[k - 1], k>>]
  <2>1. k - 1 \in 0 .. n
    OBVIOUS
  <2> QED
    BY <1>2, <1>4, <2>1
<1>7. Runs(g, n, A, base, step, Result(f, n))
  BY <1>1, <1>5, <1>6 DEF Runs, Result
<1> QED
  BY <1>7


\* A sum, a product.
LEMMA SumFold ==
  ASSUME NEW n \in Nat, NEW c \in [1 .. n -> Nat]
  PROVE  \E g \in [0 .. n -> Nat] :
           g[0] = 0 /\ g[n] = SumOf(c) /\ \A k \in 1 .. n : g[k] = g[k - 1] + c[k]
<1> DEFINE f == CHOOSE it : it = [t \in SUBSET DOMAIN c |->
                  IF t = {} THEN 0 ELSE it[t \ {Max(t)}] + c[Max(t)]]
           step == [x \in Nat \X (1 .. n) |-> x[1] + c[x[2]]]
<1>1. SumOf(c) = f[DOMAIN c]
  BY DEF SumOf, FoldLeft, MapThenFoldSet
<1>2. 0 \in Nat /\ \A x \in Nat, k \in 1 .. n : x + c[k] \in Nat
  OBVIOUS
<1>3. step \in [Nat \X (1 .. n) -> Nat]
  BY <1>2
<1>4. \A x \in Nat, k \in 1 .. n : step[<<x, k>>] = x + c[k]
  OBVIOUS
<1>5. \A t \in SUBSET (1 .. n) : t # {} => Max(t) \in 1 .. n /\ t \ {Max(t)} \in SUBSET (1 .. n)
  BY MaxUpto
<1> HIDE DEF step, f
<1>6. PICK it \in [SUBSET (1 .. n) -> Nat] : Folds(it, n, 0, step)
  BY <1>2, <1>3, FoldExists
<1>7. ASSUME NEW t \in SUBSET (1 .. n)
      PROVE  it[t] = IF t = {} THEN 0 ELSE it[t \ {Max(t)}] + c[Max(t)]
  BY <1>4, <1>5, <1>6 DEF Folds
<1>8. DOMAIN c = 1 .. n /\ {} \in SUBSET (1 .. n)
  OBVIOUS
<1>9. it = [t \in SUBSET DOMAIN c |-> IF t = {} THEN 0 ELSE it[t \ {Max(t)}] + c[Max(t)]]
  BY <1>7, <1>8
<1>10. f = [t \in SUBSET DOMAIN c |-> IF t = {} THEN 0 ELSE f[t \ {Max(t)}] + c[Max(t)]]
  BY <1>9 DEF f
<1>11. f[{}] = 0
  BY <1>8, <1>10
<1>12. ASSUME NEW t \in (SUBSET (1 .. n)) \ {{}}, f[t \ {Max(t)}] \in Nat
       PROVE  f[t] = step[<<f[t \ {Max(t)}], Max(t)>>]
  <2>1. f[t] = f[t \ {Max(t)}] + c[Max(t)]
    BY <1>8, <1>10
  <2> QED
    BY <1>4, <1>5, <1>12, <2>1
<1>13. IsFold(f, n, Nat, 0, step)
  BY <1>11, <1>12 DEF IsFold
<1>14. PICK g : Runs(g, n, Nat, 0, step, Result(f, n))
  BY <1>2, <1>3, <1>13, FoldChain
<1>15. ASSUME NEW k \in 1 .. n PROVE g[k] = g[k - 1] + c[k]
  <2>1. k - 1 \in 0 .. n
    OBVIOUS
  <2> QED
    BY <1>4, <1>14, <2>1 DEF Runs
<1>16. g \in [0 .. n -> Nat] /\ g[0] = 0 /\ g[n] = SumOf(c)
  BY <1>1, <1>8, <1>14 DEF Runs, Result
<1> QED
  BY <1>15, <1>16

\* The products of the prefixes.
LEMMA ProductFold ==
  ASSUME NEW n \in Nat, NEW c \in [1 .. n -> Nat]
  PROVE  \E g \in [0 .. n -> Nat] :
           g[0] = 1 /\ g[n] = ProductOf(c) /\ \A k \in 1 .. n : g[k] = g[k - 1] * c[k]
<1> DEFINE f == CHOOSE it : it = [t \in SUBSET DOMAIN c |->
                  IF t = {} THEN 1 ELSE it[t \ {Max(t)}] * c[Max(t)]]
           step == [x \in Nat \X (1 .. n) |-> x[1] * c[x[2]]]
<1>1. ProductOf(c) = f[DOMAIN c]
  BY DEF ProductOf, FoldLeft, MapThenFoldSet
<1>2. 1 \in Nat /\ \A x \in Nat, k \in 1 .. n : x * c[k] \in Nat
  OBVIOUS
<1>3. step \in [Nat \X (1 .. n) -> Nat]
  BY <1>2
<1>4. \A x \in Nat, k \in 1 .. n : step[<<x, k>>] = x * c[k]
  OBVIOUS
<1>5. \A t \in SUBSET (1 .. n) : t # {} => Max(t) \in 1 .. n /\ t \ {Max(t)} \in SUBSET (1 .. n)
  BY MaxUpto
<1> HIDE DEF step, f
<1>6. PICK it \in [SUBSET (1 .. n) -> Nat] : Folds(it, n, 1, step)
  BY <1>2, <1>3, FoldExists
<1>7. ASSUME NEW t \in SUBSET (1 .. n)
      PROVE  it[t] = IF t = {} THEN 1 ELSE it[t \ {Max(t)}] * c[Max(t)]
  BY <1>4, <1>5, <1>6 DEF Folds
<1>8. DOMAIN c = 1 .. n /\ {} \in SUBSET (1 .. n)
  OBVIOUS
<1>9. it = [t \in SUBSET DOMAIN c |-> IF t = {} THEN 1 ELSE it[t \ {Max(t)}] * c[Max(t)]]
  BY <1>7, <1>8
<1>10. f = [t \in SUBSET DOMAIN c |-> IF t = {} THEN 1 ELSE f[t \ {Max(t)}] * c[Max(t)]]
  BY <1>9 DEF f
<1>11. f[{}] = 1
  BY <1>8, <1>10
<1>12. ASSUME NEW t \in (SUBSET (1 .. n)) \ {{}}, f[t \ {Max(t)}] \in Nat
       PROVE  f[t] = step[<<f[t \ {Max(t)}], Max(t)>>]
  <2>1. f[t] = f[t \ {Max(t)}] * c[Max(t)]
    BY <1>8, <1>10
  <2> QED
    BY <1>4, <1>5, <1>12, <2>1
<1>13. IsFold(f, n, Nat, 1, step)
  BY <1>11, <1>12 DEF IsFold
<1>14. PICK g : Runs(g, n, Nat, 1, step, Result(f, n))
  BY <1>2, <1>3, <1>13, FoldChain
<1>15. ASSUME NEW k \in 1 .. n PROVE g[k] = g[k - 1] * c[k]
  <2>1. k - 1 \in 0 .. n
    OBVIOUS
  <2> QED
    BY <1>4, <1>14, <2>1 DEF Runs
<1>16. g \in [0 .. n -> Nat] /\ g[0] = 1 /\ g[n] = ProductOf(c)
  BY <1>1, <1>8, <1>14 DEF Runs, Result
<1> QED
  BY <1>15, <1>16

\* What compute_ordering pushes.
PushRun(g, Ns, S, n, c, V) ==
  /\ g \in [0 .. n -> Seq(Ns)] /\ g[0] = S
  /\ g[n] = FoldLeft(LAMBDA st, e : IF e.dst \in V THEN st ELSE Append(st, e.dst), S, c)
  /\ \A k \in 1 .. n : g[k] = (IF c[k].dst \in V THEN g[k - 1] ELSE Append(g[k - 1], c[k].dst))

\* The stack after every child that compute_ordering looks at.
LEMMA PushFold ==
  ASSUME NEW Ns, NEW S, NEW n \in Nat, NEW c \in [1 .. n -> Edges], NEW V,
         S \in Seq(Ns), \A k \in 1 .. n : c[k].dst \in Ns
  PROVE  \E g : PushRun(g, Ns, S, n, c, V)
<1> DEFINE f == CHOOSE it : it = [t \in SUBSET DOMAIN c |->
                  IF t = {} THEN S ELSE (IF c[Max(t)].dst \in V THEN it[t \ {Max(t)}]
                      ELSE Append(it[t \ {Max(t)}], c[Max(t)].dst))]
           step == [x \in Seq(Ns) \X (1 .. n) |-> (IF c[x[2]].dst \in V THEN x[1]
               ELSE Append(x[1], c[x[2]].dst))]
<1>1. FoldLeft(LAMBDA st, e : IF e.dst \in V THEN st ELSE Append(st, e.dst), S, c) = f[DOMAIN c]
  BY DEF FoldLeft, MapThenFoldSet
<1>2. S \in Seq(Ns) /\ \A x \in Seq(Ns), k \in 1 .. n : (IF c[k].dst \in V THEN x
        ELSE Append(x, c[k].dst)) \in Seq(Ns)
  OBVIOUS
<1>3. step \in [Seq(Ns) \X (1 .. n) -> Seq(Ns)]
  BY <1>2
<1>4. \A x \in Seq(Ns), k \in 1 .. n : step[<<x, k>>] = (IF c[k].dst \in V THEN x ELSE Append(x, c[k].dst))
  OBVIOUS
<1>5. \A t \in SUBSET (1 .. n) : t # {} => Max(t) \in 1 .. n /\ t \ {Max(t)} \in SUBSET (1 .. n)
  BY MaxUpto
<1> HIDE DEF step, f
<1>6. PICK it \in [SUBSET (1 .. n) -> Seq(Ns)] : Folds(it, n, S, step)
  BY <1>2, <1>3, FoldExists
<1>7. ASSUME NEW t \in SUBSET (1 .. n)
      PROVE  it[t] = IF t = {} THEN S ELSE (IF c[Max(t)].dst \in V THEN it[t \ {Max(t)}]
               ELSE Append(it[t \ {Max(t)}], c[Max(t)].dst))
  BY <1>4, <1>5, <1>6 DEF Folds
<1>8. DOMAIN c = 1 .. n /\ {} \in SUBSET (1 .. n)
  OBVIOUS
<1>9. it = [t \in SUBSET DOMAIN c |-> IF t = {} THEN S
        ELSE (IF c[Max(t)].dst \in V THEN it[t \ {Max(t)}] ELSE Append(it[t \ {Max(t)}], c[Max(t)].dst))]
  BY <1>7, <1>8
<1>10. f = [t \in SUBSET DOMAIN c |-> IF t = {} THEN S
         ELSE (IF c[Max(t)].dst \in V THEN f[t \ {Max(t)}] ELSE Append(f[t \ {Max(t)}], c[Max(t)].dst))]
  BY Zenon, <1>9 DEF f
<1>11. f[{}] = S
  BY <1>8, <1>10
<1>12. ASSUME NEW t \in (SUBSET (1 .. n)) \ {{}}, f[t \ {Max(t)}] \in Seq(Ns)
       PROVE  f[t] = step[<<f[t \ {Max(t)}], Max(t)>>]
  <2>1. f[t] = (IF c[Max(t)].dst \in V THEN f[t \ {Max(t)}] ELSE Append(f[t \ {Max(t)}], c[Max(t)].dst))
    BY <1>8, <1>10
  <2> QED
    BY <1>4, <1>5, <1>12, <2>1
<1>13. IsFold(f, n, Seq(Ns), S, step)
  BY <1>11, <1>12 DEF IsFold
<1>14. PICK g : Runs(g, n, Seq(Ns), S, step, Result(f, n))
  BY <1>2, <1>3, <1>13, FoldChain
<1>15. ASSUME NEW k \in 1 .. n PROVE g[k] = (IF c[k].dst \in V THEN g[k - 1]
                ELSE Append(g[k - 1], c[k].dst))
  <2>1. k - 1 \in 0 .. n
    OBVIOUS
  <2> QED
    BY <1>4, <1>14, <2>1 DEF Runs
<1>16. g \in [0 .. n -> Seq(Ns)] /\ g[0] = S
         /\ g[n] = FoldLeft(LAMBDA st, e : IF e.dst \in V THEN st ELSE Append(st, e.dst), S, c)
  BY <1>1, <1>8, <1>14 DEF Runs, Result
<1> QED
  BY <1>15, <1>16 DEF PushRun

-----------------------------------------------------------------------------
(* Circuits *)

Dsts(q, n) == {q.circuit[n].children[k].dst : k \in DOMAIN q.circuit[n].children}
Shape == [type : {"t", "f", "a", "o", "u"}, children : Seq(Edges)]

\* A circuit to be counted, whatever its nodes mean.
Drawn(q) == q.count \in {"mc", "pc"} /\ IsCircuit(q.circuit)

\* The types of the nodes of a circuit.
LEMMA DrawnFacts ==
  ASSUME NEW q, Drawn(q)
  PROVE  /\ ROOT \in DOMAIN q.circuit
         /\ q.circuit \in Seq(Shape) /\ IsFiniteSet(DOMAIN q.circuit)
         /\ \A n \in DOMAIN q.circuit :
              /\ q.circuit[n].type \in {"t", "f", "a", "o", "u"}
              /\ q.circuit[n].children \in Seq(Edges)
              /\ Dsts(q, n) \subseteq DOMAIN q.circuit
<1> DEFINE C == q.circuit
<1>1. ROOT \in DOMAIN C /\ C \in Seq(Shape)
  BY DEF Drawn, IsCircuit, Shape
<1>2. \A n \in DOMAIN C : \A k \in DOMAIN C[n].children : C[n].children[k].dst \in DOMAIN C
  BY DEF Drawn, IsCircuit
<1>3. \A n \in DOMAIN C : Dsts(q, n) = {C[n].children[k].dst : k \in DOMAIN C[n].children}
  BY DEF Dsts
<1> HIDE DEF C
<1>4. DOMAIN C = 1 .. Len(C) /\ Len(C) \in Nat
  BY <1>1
<1>5. IsFiniteSet(DOMAIN C)
  BY <1>4, FS_Interval
<1>6. \A n \in DOMAIN C : C[n] \in Shape
  BY <1>1
<1>7. \A n \in DOMAIN C : C[n].type \in {"t", "f", "a", "o", "u"} /\ C[n].children \in Seq(Edges)
  BY <1>6 DEF Shape
<1>8. \A n \in DOMAIN C : Dsts(q, n) \subseteq DOMAIN C
  BY <1>2, <1>3
<1> QED
  BY <1>1, <1>5, <1>7, <1>8 DEF C

\* The types of a query and of its nodes.
LEMMA CircuitFacts ==
  ASSUME NEW q, IsQuery(q)
  PROVE  /\ Drawn(q) /\ q.count \in {"mc", "pc"} /\ AreCubes(q)
         /\ ROOT \in DOMAIN q.circuit
         /\ q.circuit \in Seq(Shape) /\ IsFiniteSet(DOMAIN q.circuit)
         /\ \A n \in DOMAIN q.circuit :
              /\ q.circuit[n].type \in {"t", "f", "a", "o", "u"}
              /\ q.circuit[n].children \in Seq(Edges)
              /\ Dsts(q, n) \subseteq DOMAIN q.circuit
<1>1. Drawn(q) /\ AreCubes(q)
  BY DEF IsQuery, IsDDNNF, Drawn
<1>2. q.count \in {"mc", "pc"}
  BY SMTT(30) DEF IsQuery
<1> QED
  BY <1>1, <1>2, DrawnFacts

\* The types of an edge, and that it knows no variable twice.
LEMMA EdgeFacts ==
  ASSUME NEW q, IsQuery(q), NEW n \in DOMAIN q.circuit, NEW k \in DOMAIN q.circuit[n].children
  PROVE  LET e == q.circuit[n].children[k]
         IN  /\ e.dst \in DOMAIN q.circuit /\ e.dst \in Dsts(q, n)
             /\ e.units \in SUBSET (Int \ {0}) /\ e.free \in Seq(Nat \ {0})
             /\ q.circuit[n].type = "a" => e.units = {} /\ e.free = <<>>
             /\ IsInjective(e.free) /\ Apart(e.units, Range(e.free))
<1> DEFINE e == q.circuit[n].children[k]
<1>1. e \in Edges /\ e.dst \in Dsts(q, n) /\ Dsts(q, n) \subseteq DOMAIN q.circuit
  BY CircuitFacts DEF Dsts
<1>2. IsCircuit(q.circuit)
  BY DEF IsQuery, IsDDNNF
<1>3. /\ q.circuit[n].type = "a" => e.units = {} /\ e.free = <<>>
      /\ IsInjective(e.free) /\ Apart(e.units, Range(e.free))
  BY <1>2 DEF IsCircuit
<1> QED
  BY <1>1, <1>3 DEF Edges

\* There are no cycles: what holds below a node can be shown for it first.
LEMMA Upwards ==
  ASSUME NEW q, Drawn(q), NEW F, {} \in F,
         \A S \in F : \A n \in DOMAIN q.circuit \ S :
           S \subseteq DOMAIN q.circuit /\ Dsts(q, n) \subseteq S => S \cup {n} \in F
  PROVE  DOMAIN q.circuit \in F
<1> DEFINE Ns == DOMAIN q.circuit
           Left == {Cardinality(Ns \ S) : S \in F \cap SUBSET Ns}
<1>1. IsFiniteSet(Ns) /\ \A S \in SUBSET Ns : IsFiniteSet(Ns \ S) /\ Cardinality(Ns \ S) \in Nat
  BY DrawnFacts, FS_Difference, FS_CardinalityType
<1>2. Left \in SUBSET Nat /\ Cardinality(Ns \ {}) \in Left
  BY <1>1
<1>3. PICK l \in Left : \A x \in Left : l <= x
  <2> HIDE DEF Left
  <2> QED
    BY <1>2, LeastNat
<1>4. PICK S \in F \cap SUBSET Ns : l = Cardinality(Ns \ S)
  OBVIOUS
<1>5. ASSUME NEW n \in Ns \ S, Dsts(q, n) \subseteq S PROVE FALSE
  <2>1. S \cup {n} \in F \cap SUBSET Ns
    BY <1>5
  <2>2. Cardinality(Ns \ (S \cup {n})) \in Left
    BY <2>1
  <2>3. Ns \ (S \cup {n}) = (Ns \ S) \ {n}
    OBVIOUS
  <2>4. Cardinality(Ns \ (S \cup {n})) = Cardinality(Ns \ S) - 1
    <3> DEFINE R == Ns \ S
    <3>1. IsFiniteSet(R) /\ n \in R
      BY <1>1
    <3> HIDE DEF R
    <3>2. Cardinality(R \ {n}) = Cardinality(R) - 1
      BY <3>1, FS_RemoveElement
    <3> QED
      BY <2>3, <3>2 DEF R
  <2>5. l <= l - 1 /\ l \in Nat
    <3> HIDE DEF Left
    <3> QED
      BY <1>2, <1>3, <1>4, <2>2, <2>4
  <2> QED
    BY <2>5
<1>6. Ns \ S = {}
  <2> SUFFICES ASSUME Ns \ S # {} PROVE FALSE
    OBVIOUS
  <2>1. IsCircuit(q.circuit)
    BY DEF Drawn
  <2>2. Ns \ S \in (SUBSET DOMAIN q.circuit) \ {{}}
    OBVIOUS
  <2>3. PICK n \in Ns \ S : \A k \in DOMAIN q.circuit[n].children : q.circuit[n].children[k].dst \notin Ns \ S
    BY <2>1, <2>2 DEF IsCircuit
  <2>4. Dsts(q, n) \subseteq Ns
    BY DrawnFacts
  <2>5. Dsts(q, n) \subseteq S
    BY <2>3, <2>4 DEF Dsts
  <2> QED
    BY <1>5, <2>5
<1>7. S = Ns
  BY <1>6
<1> QED
  BY <1>4, <1>7

\* What a node means depends on its children only.
LEMMA MeaningLocal ==
  ASSUME NEW q, Drawn(q), NEW n \in DOMAIN q.circuit, NEW M, NEW L,
         \A d \in Dsts(q, n) : M[d] = L[d]
  PROVE  MeaningOf(q, M, n) = MeaningOf(q, L, n)
<1> DEFINE kids == q.circuit[n].children
<1>1. \A k \in DOMAIN kids : M[kids[k].dst] = L[kids[k].dst]
  BY DEF Dsts
<1> HIDE DEF kids
<1>2. Joined(M, kids) = Joined(L, kids)
  <2>1. UNION {M[kids[k].dst] : k \in DOMAIN kids} = UNION {L[kids[k].dst] : k \in DOMAIN kids}
    BY <1>1
  <2>2. {f \in [DOMAIN kids -> UNION {M[kids[k].dst] : k \in DOMAIN kids}] :
           \A k \in DOMAIN kids : f[k] \in M[kids[k].dst]} =
        {f \in [DOMAIN kids -> UNION {L[kids[k].dst] : k \in DOMAIN kids}] :
           \A k \in DOMAIN kids : f[k] \in L[kids[k].dst]}
    BY <1>1, <2>1
  <2> QED
    BY <2>2 DEF Joined
<1>3. \A k \in DOMAIN kids : Through(q, M, kids[k]) = Through(q, L, kids[k])
  BY <1>1 DEF Through
<1>4. {Through(q, M, kids[k]) : k \in DOMAIN kids} = {Through(q, L, kids[k]) : k \in DOMAIN kids}
  BY <1>3
<1> QED
  BY <1>2, <1>4 DEF MeaningOf, kids

\* A circuit has no cycles: its meaning is defined from the leaves up.
LEMMA MeaningExists ==
  ASSUME NEW q, Drawn(q)
  PROVE  \E M : M = [n \in DOMAIN q.circuit |-> MeaningOf(q, M, n)]
<1> DEFINE Ns == DOMAIN q.circuit
           F == {S \in SUBSET Ns : /\ \A n \in S : Dsts(q, n) \subseteq S
                                  /\ \E M : M = [n \in S |-> MeaningOf(q, M, n)]}
<1>1. {} \in F
  <2> DEFINE M == [n \in {} |-> {}]
  <2>1. M = [n \in {} |-> MeaningOf(q, M, n)]
    OBVIOUS
  <2> QED
    BY <2>1
<1>2. ASSUME NEW S \in F, NEW n \in Ns \ S, Dsts(q, n) \subseteq S
      PROVE  S \cup {n} \in F
  <2>1. PICK M : M = [x \in S |-> MeaningOf(q, M, x)]
    OBVIOUS
  <2> DEFINE T == S \cup {n}
             L == [x \in T |-> IF x = n THEN MeaningOf(q, M, n) ELSE M[x]]
  <2>2. \A x \in S : x # n /\ L[x] = M[x] /\ Dsts(q, x) \subseteq S
    OBVIOUS
  <2>3. L[n] = MeaningOf(q, M, n)
    OBVIOUS
  <2>4. DOMAIN L = T /\ L = [x \in T |-> L[x]]
    OBVIOUS
  <2> HIDE DEF L
  <2>5. \A x \in T : \A d \in Dsts(q, x) : M[d] = L[d]
    BY <1>2, <2>2
  <2>6. \A x \in T : MeaningOf(q, M, x) = MeaningOf(q, L, x)
    <3>1. T \subseteq Ns
      OBVIOUS
    <3> QED
      BY <2>5, <3>1, MeaningLocal
  <2>7. \A x \in S : M[x] = MeaningOf(q, M, x)
    BY <2>1
  <2>8. \A x \in T : L[x] = MeaningOf(q, L, x)
    BY <2>2, <2>3, <2>6, <2>7
  <2>9. L = [x \in T |-> MeaningOf(q, L, x)]
    BY <2>4, <2>8
  <2>10. \A x \in T : Dsts(q, x) \subseteq T
    BY <1>2, <2>2
  <2>11. T \in SUBSET Ns
    OBVIOUS
  <2> QED
    BY <2>9, <2>10, <2>11
<1> HIDE DEF F
<1>3. Ns \in F
  BY <1>1, <1>2, Upwards
<1> QED
  BY <1>3 DEF F

\* The meaning of a node is what its children make of it.
LEMMA DrawnMeaning ==
  ASSUME NEW q, Drawn(q)
  PROVE  /\ DOMAIN Meanings(q) = DOMAIN q.circuit
         /\ Meanings(q) = [n \in DOMAIN q.circuit |-> Meanings(q)[n]]
         /\ \A n \in DOMAIN q.circuit : Meanings(q)[n] = MeaningOf(q, Meanings(q), n)
<1> DEFINE M == CHOOSE M : M = [n \in DOMAIN q.circuit |-> MeaningOf(q, M, n)]
<1>1. Meanings(q) = M
  BY DEF Meanings
<1>2. M = [n \in DOMAIN q.circuit |-> MeaningOf(q, M, n)]
  BY MeaningExists
<1> HIDE DEF M
<1> QED
  BY <1>1, <1>2

\* The meaning of a query.
LEMMA MeaningFacts ==
  ASSUME NEW q, IsQuery(q)
  PROVE  /\ DOMAIN Meanings(q) = DOMAIN q.circuit
         /\ \A n \in DOMAIN q.circuit : Meanings(q)[n] = MeaningOf(q, Meanings(q), n)
BY CircuitFacts, DrawnMeaning

-----------------------------------------------------------------------------
(* Counting *)

\* Functions are equal if their values are.
LEMMA SameFunction ==
  ASSUME NEW D, NEW X, NEW f \in [D -> X], NEW g \in [D -> X], \A x \in D : f[x] = g[x]
  PROVE  f = g
OBVIOUS

\* A bijection keeps the cardinality.
LEMMA SameCardinality ==
  ASSUME NEW S, NEW T, IsFiniteSet(S), NEW h \in [S -> T],
         \A x, y \in S : h[x] = h[y] => x = y, \A t \in T : \E x \in S : h[x] = t
  PROVE  IsFiniteSet(T) /\ Cardinality(T) = Cardinality(S)
<1>1. h \in Bijection(S, T)
  BY DEF Bijection, Injection, Surjection, IsInjective
<1>2. ExistsBijection(S, T)
  BY <1>1 DEF ExistsBijection
<1> QED
  BY <1>2, FS_Bijection

\* Two disjoint sets add up.
LEMMA AddDisjoint ==
  ASSUME NEW S, NEW T, IsFiniteSet(S), IsFiniteSet(T), S \cap T = {}
  PROVE  IsFiniteSet(S \cup T) /\ Cardinality(S \cup T) = Cardinality(S) + Cardinality(T)
<1>1. /\ IsFiniteSet(S \cup T)
      /\ Cardinality(S \cup T) = Cardinality(S) + Cardinality(T) - Cardinality({})
  BY FS_Union
<1>2. Cardinality({}) = 0 /\ Cardinality(S) \in Nat /\ Cardinality(T) \in Nat
  BY FS_EmptySet, FS_CardinalityType
<1> QED
  BY <1>1, <1>2

\* Disjoint sets add up.
LEMMA CountUnion ==
  ASSUME NEW n \in Nat, NEW U, \A k \in 1 .. n : IsFiniteSet(U[k]),
         \A j, k \in 1 .. n : j # k => U[j] \cap U[k] = {}
  PROVE  /\ IsFiniteSet(UNION {U[k] : k \in 1 .. n})
         /\ Cardinality(UNION {U[k] : k \in 1 .. n}) = SumOf([k \in 1 .. n |-> Cardinality(U[k])])
<1> DEFINE c == [k \in 1 .. n |-> Cardinality(U[k])]
           V(k) == UNION {U[j] : j \in 1 .. k}
<1>1. c \in [1 .. n -> Nat]
  BY FS_CardinalityType
<1>2. \A k \in 1 .. n : c[k] = Cardinality(U[k])
  OBVIOUS
<1> HIDE DEF c
<1>3. PICK g \in [0 .. n -> Nat] :
        g[0] = 0 /\ g[n] = SumOf(c) /\ \A k \in 1 .. n : g[k] = g[k - 1] + c[k]
  BY <1>1, SumFold
<1> DEFINE F == {k \in 0 .. n : IsFiniteSet(V(k)) /\ Cardinality(V(k)) = g[k]}
<1>4. 0 \in F
  <2>1. V(0) = {}
    OBVIOUS
  <2> HIDE DEF V
  <2>2. IsFiniteSet(V(0)) /\ Cardinality(V(0)) = 0
    BY <2>1, FS_EmptySet
  <2>3. 0 \in 0 .. n
    OBVIOUS
  <2> QED
    BY <1>3, <2>2, <2>3
<1>5. ASSUME NEW k \in 1 .. n, k - 1 \in F PROVE k \in F
  <2>1. V(k) = V(k - 1) \cup U[k]
    <3>1. \A j \in 1 .. k : j \in 1 .. k - 1 \/ j = k
      OBVIOUS
    <3>2. k \in 1 .. k /\ \A j \in 1 .. k - 1 : j \in 1 .. k
      OBVIOUS
    <3> QED
      BY <3>1, <3>2
  <2>2. V(k - 1) \cap U[k] = {}
    <3>1. \A j \in 1 .. k - 1 : j \in 1 .. n /\ j # k
      OBVIOUS
    <3> QED
      BY <3>1
  <2>3. IsFiniteSet(V(k - 1)) /\ Cardinality(V(k - 1)) = g[k - 1] /\ k - 1 \in 0 .. n
    BY <1>5
  <2> HIDE DEF V
  <2>4. IsFiniteSet(V(k)) /\ Cardinality(V(k)) = Cardinality(V(k - 1)) + Cardinality(U[k])
    <3> DEFINE S == V(k - 1)
               T == U[k]
    <3>1. IsFiniteSet(S) /\ IsFiniteSet(T) /\ S \cap T = {} /\ V(k) = S \cup T
      BY <2>1, <2>2, <2>3
    <3> HIDE DEF S, T
    <3>2. IsFiniteSet(S \cup T) /\ Cardinality(S \cup T) = Cardinality(S) + Cardinality(T)
      BY <3>1, AddDisjoint
    <3> QED
      BY <3>1, <3>2 DEF S, T
  <2>6. g[k] = g[k - 1] + c[k] /\ c[k] = Cardinality(U[k]) /\ c[k] \in Nat /\ g[k - 1] \in Nat
    BY <1>1, <1>2, <1>3, <2>3
  <2>7. k \in 0 .. n
    OBVIOUS
  <2> QED
    BY <2>3, <2>4, <2>6, <2>7
<1> HIDE DEF V
<1>6. n \in F
  <2>1. \A k \in 1 .. n : k - 1 \in F => k \in F
    BY <1>5
  <2> HIDE DEF F
  <2>2. \A k \in 0 .. n : k \in F
    BY <1>4, <2>1, CountUp
  <2> QED
    BY <2>2
<1> QED
  BY <1>3, <1>6 DEF c, V

\* The ways to choose one member of each of n sets multiply.
Picks(n, U, X) == {f \in [1 .. n -> X] : \A k \in 1 .. n : f[k] \in U[k]}

\* There are as many choices as the product of the parts.
LEMMA CountChoices ==
  ASSUME NEW n \in Nat, NEW U, NEW X,
         \A k \in 1 .. n : IsFiniteSet(U[k]) /\ U[k] \subseteq X
  PROVE  /\ IsFiniteSet(Picks(n, U, X))
         /\ Cardinality(Picks(n, U, X)) = ProductOf([k \in 1 .. n |-> Cardinality(U[k])])
<1> DEFINE c == [k \in 1 .. n |-> Cardinality(U[k])]
<1>1. c \in [1 .. n -> Nat]
  BY FS_CardinalityType
<1>2. \A k \in 1 .. n : c[k] = Cardinality(U[k])
  OBVIOUS
<1> HIDE DEF c
<1>3. PICK g \in [0 .. n -> Nat] :
        g[0] = 1 /\ g[n] = ProductOf(c) /\ \A k \in 1 .. n : g[k] = g[k - 1] * c[k]
  BY <1>1, ProductFold
<1> DEFINE F == {k \in 0 .. n : IsFiniteSet(Picks(k, U, X)) /\ Cardinality(Picks(k, U, X)) = g[k]}
<1>4. 0 \in F
  <2> DEFINE e == [k \in {} |-> {}]
  <2>1. 1 .. 0 = {}
    OBVIOUS
  <2>2. e \in [1 .. 0 -> X] /\ \A f \in [1 .. 0 -> X] : f = e
    BY <2>1
  <2> HIDE DEF e
  <2>3. Picks(0, U, X) = {e}
    BY <2>1, <2>2 DEF Picks
  <2>4. IsFiniteSet(Picks(0, U, X)) /\ Cardinality(Picks(0, U, X)) = 1
    BY <2>3, FS_Singleton
  <2>5. 0 \in 0 .. n
    OBVIOUS
  <2> QED
    BY <1>3, <2>4, <2>5
<1>5. ASSUME NEW k \in 1 .. n, k - 1 \in F PROVE k \in F
  <2> DEFINE D == Picks(k - 1, U, X) \X U[k]
             h == [p \in D |-> [j \in 1 .. k |-> IF j = k THEN p[2] ELSE p[1][j]]]
  <2>1. IsFiniteSet(Picks(k - 1, U, X)) /\ Cardinality(Picks(k - 1, U, X)) = g[k - 1] /\ k - 1 \in 0 .. n
    BY <1>5
  <2>2. IsFiniteSet(D) /\ Cardinality(D) = g[k - 1] * c[k]
    BY <1>2, <2>1, FS_Product
  <2>3. k \in 1 .. k /\ (\A j \in 1 .. k : j # k => j \in 1 .. k - 1)
          /\ \A j \in 1 .. k - 1 : j \in 1 .. k /\ j # k /\ j \in 1 .. n
    OBVIOUS
  <2>4. ASSUME NEW f \in Picks(k - 1, U, X), NEW u \in U[k]
        PROVE  /\ <<f, u>> \in D /\ h[<<f, u>>] \in Picks(k, U, X)
               /\ h[<<f, u>>][k] = u /\ \A j \in 1 .. k - 1 : h[<<f, u>>][j] = f[j]
    <3>1. <<f, u>> \in D /\ h[<<f, u>>] = [j \in 1 .. k |-> IF j = k THEN u ELSE f[j]]
      BY <2>4
    <3>2. f \in [1 .. k - 1 -> X] /\ \A j \in 1 .. k - 1 : f[j] \in U[j]
      BY DEF Picks
    <3>3. u \in X
      OBVIOUS
    <3>4. [j \in 1 .. k |-> IF j = k THEN u ELSE f[j]] \in Picks(k, U, X)
      BY <2>3, <3>2, <3>3 DEF Picks
    <3> QED
      BY <2>3, <3>1, <3>4
  <2>5. ASSUME NEW p \in D PROVE \E f \in Picks(k - 1, U, X), u \in U[k] : p = <<f, u>>
    OBVIOUS
  <2>6. h \in [D -> Picks(k, U, X)]
    <3>1. \A p \in D : h[p] \in Picks(k, U, X)
      <4> HIDE DEF h, D
      <4> QED
        BY <2>4, <2>5
    <3> QED
      BY <3>1
  <2>7. ASSUME NEW p \in D, NEW r \in D, h[p] = h[r] PROVE p = r
    <3>1. PICK f \in Picks(k - 1, U, X), u \in U[k] : p = <<f, u>>
      BY <2>5
    <3>2. PICK e \in Picks(k - 1, U, X), v \in U[k] : r = <<e, v>>
      BY <2>5
    <3> HIDE DEF h, D
    <3>3. u = v /\ \A j \in 1 .. k - 1 : f[j] = e[j]
      <4>1. h[<<f, u>>][k] = u /\ \A j \in 1 .. k - 1 : h[<<f, u>>][j] = f[j]
        BY <2>4
      <4>2. h[<<e, v>>][k] = v /\ \A j \in 1 .. k - 1 : h[<<e, v>>][j] = e[j]
        BY <2>4
      <4>3. h[<<f, u>>] = h[<<e, v>>]
        BY <2>7, <3>1, <3>2
      <4> QED
        BY <4>1, <4>2, <4>3
    <3>4. f \in [1 .. k - 1 -> X] /\ e \in [1 .. k - 1 -> X]
      BY DEF Picks
    <3>5. f = e
      BY <3>3, <3>4
    <3> QED
      BY <3>1, <3>2, <3>3, <3>5
  <2>8. ASSUME NEW w \in Picks(k, U, X) PROVE \E p \in D : h[p] = w
    <3> DEFINE f == [j \in 1 .. k - 1 |-> w[j]]
    <3>1. w \in [1 .. k -> X] /\ \A j \in 1 .. k : w[j] \in U[j]
      BY DEF Picks
    <3>2. f \in Picks(k - 1, U, X) /\ w[k] \in U[k]
      BY <2>3, <3>1 DEF Picks
    <3>3. \A j \in 1 .. k - 1 : f[j] = w[j]
      OBVIOUS
    <3> HIDE DEF f, h, D
    <3>4. <<f, w[k]>> \in D /\ h[<<f, w[k]>>] \in [1 .. k -> X]
      BY <2>4, <3>2 DEF Picks
    <3>5. \A j \in 1 .. k : h[<<f, w[k]>>][j] = w[j]
      BY <2>3, <2>4, <3>2, <3>3
    <3>6. h[<<f, w[k]>>] = w
      <4> DEFINE z == h[<<f, w[k]>>]
      <4>1. z \in [1 .. k -> X] /\ \A j \in 1 .. k : z[j] = w[j]
        BY <3>4, <3>5
      <4> HIDE DEF z
      <4>2. z = w
        BY <3>1, <4>1
      <4> QED
        BY <4>2 DEF z
    <3> QED
      BY <3>4, <3>6
  <2> HIDE DEF h, D
  <2>9. \A p, r \in D : h[p] = h[r] => p = r
    BY <2>7
  <2>10. IsFiniteSet(Picks(k, U, X)) /\ Cardinality(Picks(k, U, X)) = Cardinality(D)
    BY <2>2, <2>6, <2>8, <2>9, SameCardinality
  <2>11. k \in 0 .. n
    OBVIOUS
  <2> QED
    BY <1>3, <2>2, <2>10, <2>11
<1>6. n \in F
  <2>1. \A k \in 1 .. n : k - 1 \in F => k \in F
    BY <1>5
  <2> HIDE DEF F
  <2>2. \A k \in 0 .. n : k \in F
    BY <1>4, <2>1, CountUp
  <2> QED
    BY <2>2
<1> QED
  BY <1>3, <1>6 DEF c

-----------------------------------------------------------------------------
(* What a node and an edge mean under a cube *)

Cube(a) == a \in SUBSET (Int \ {0}) /\ ~Conflicts(a, a)
Signs(R, T) == {IF x \in T THEN x ELSE -x : x \in R}
ChoicesUnder(q, e, a) == {f \in FreeChoices(q, e) : ~Conflicts(f, a)}
ThroughUnder(q, e, a) == {m \in Through(q, Meanings(q), e) : ~Conflicts(m, a)}

\* A set of signs holds exactly one literal of every variable.
LEMMA SignFacts ==
  ASSUME NEW R \in SUBSET (Nat \ {0}), NEW T
  PROVE  /\ \A x \in R : (x \in Signs(R, T) <=> x \in T) /\ (-x \in Signs(R, T) <=> x \notin T)
         /\ \A l \in Signs(R, T) : l \in Int \ {0} /\ (l \in R \/ -l \in R)
<1>1. \A x \in R : x \in Int /\ x > 0 /\ -x < 0 /\ -(-x) = x
  OBVIOUS
<1>2. ASSUME NEW l \in Signs(R, T)
      PROVE  \E x \in R : (x \in T /\ l = x) \/ (x \notin T /\ l = -x)
  BY DEF Signs
<1>3. \A x \in R : (x \in T => x \in Signs(R, T)) /\ (x \notin T => -x \in Signs(R, T))
  BY DEF Signs
<1>4. ASSUME NEW x \in R, x \in Signs(R, T) PROVE x \in T
  <2>1. PICK y \in R : (y \in T /\ x = y) \/ (y \notin T /\ x = -y)
    BY <1>2, <1>4
  <2> QED
    BY <1>1, <2>1
<1>5. ASSUME NEW x \in R, -x \in Signs(R, T) PROVE x \notin T
  <2>1. PICK y \in R : (y \in T /\ -x = y) \/ (y \notin T /\ -x = -y)
    BY <1>2, <1>5
  <2>2. x = y
    BY <1>1, <2>1
  <2> QED
    BY <1>1, <2>1, <2>2
<1>6. ASSUME NEW l \in Signs(R, T) PROVE l \in Int \ {0} /\ (l \in R \/ -l \in R)
  <2>1. PICK y \in R : (y \in T /\ l = y) \/ (y \notin T /\ l = -y)
    BY <1>2
  <2> QED
    BY <1>1, <2>1
<1> QED
  BY <1>3, <1>4, <1>5, <1>6

\* Signs that agree on R are equal.
LEMMA SignsEqual ==
  ASSUME NEW R, NEW S, NEW T, \A x \in R : x \in S <=> x \in T
  PROVE  Signs(R, S) = Signs(R, T)
BY DEF Signs

\* The free literals of an edge are the signs of its free variables.
LEMMA FreeFacts ==
  ASSUME NEW q, IsQuery(q), NEW n \in DOMAIN q.circuit, NEW k \in DOMAIN q.circuit[n].children
  PROVE  LET e == q.circuit[n].children[k]
         IN  /\ Range(e.free) \in SUBSET (Nat \ {0}) /\ IsFiniteSet(Range(e.free))
             /\ q.count = "pc" => FreeChoices(q, e) = {{}}
             /\ q.count = "mc" => FreeChoices(q, e) = {Signs(Range(e.free), T) : T \in SUBSET Range(e.free)}
<1> DEFINE e == q.circuit[n].children[k]
<1>1. e.free \in Seq(Nat \ {0})
  BY EdgeFacts
<1>2. DOMAIN e.free = 1 .. Len(e.free) /\ Len(e.free) \in Nat
  BY <1>1
<1>3. Range(e.free) = {e.free[j] : j \in DOMAIN e.free}
  BY DEF Range
<1>4. Range(e.free) \in SUBSET (Nat \ {0})
  BY <1>1, <1>3
<1>5. IsFiniteSet(DOMAIN e.free)
  BY <1>2, FS_Interval
<1>6. IsFiniteSet(Range(e.free))
  <2> DEFINE h == [j \in DOMAIN e.free |-> e.free[j]]
             D == DOMAIN e.free
             R == Range(e.free)
  <2>1. h \in Surjection(D, R)
    BY <1>3 DEF Surjection
  <2> HIDE DEF h, R, D
  <2>2. IsFiniteSet(R)
    BY <1>5, <2>1, FS_Surjection DEF D
  <2> QED
    BY <2>2 DEF R
<1>7. q.count = "pc" => FreeChoices(q, e) = {{}}
  BY DEF FreeChoices
<1>8. q.count = "mc" => FreeChoices(q, e) = {Signs(Range(e.free), T) : T \in SUBSET Range(e.free)}
  BY DEF FreeChoices, Signs
<1> QED
  BY <1>4, <1>6, <1>7, <1>8

\* A set has as many subsets as the power of two says.
LEMMA PowerOfTwo ==
  ASSUME NEW S, IsFiniteSet(S)
  PROVE  IsFiniteSet(SUBSET S) /\ Cardinality(SUBSET S) = 2^Cardinality(S) /\ 2^Cardinality(S) \in Nat
BY FS_SUBSET, FS_CardinalityType

\* Every free variable that the cube leaves open doubles the choices.
LEMMA ChoicesCount ==
  ASSUME NEW q, IsQuery(q), NEW n \in DOMAIN q.circuit, NEW k \in DOMAIN q.circuit[n].children,
         NEW a, Cube(a)
  PROVE  LET e == q.circuit[n].children[k]
         IN  /\ IsFiniteSet(ChoicesUnder(q, e, a))
             /\ q.count = "pc" => Cardinality(ChoicesUnder(q, e, a)) = 1
             /\ q.count = "mc" => Cardinality(ChoicesUnder(q, e, a)) = 2^Cardinality(FreeUnder(e, a))
<1> DEFINE e == q.circuit[n].children[k]
           R == Range(e.free)
           U == FreeUnder(e, a)
           C == ChoicesUnder(q, e, a)
<1>1. R \in SUBSET (Nat \ {0}) /\ IsFiniteSet(R) /\ q.count \in {"mc", "pc"}
  BY FreeFacts, CircuitFacts
<1>2. CASE q.count = "pc"
  <2>1. FreeChoices(q, e) = {{}}
    BY <1>2, FreeFacts
  <2>2. C = {{}}
    BY <2>1 DEF ChoicesUnder, Conflicts
  <2> HIDE DEF C
  <2> QED
    BY ZenonT(40), <1>2, <2>2, FS_Singleton DEF C
<1>3. CASE q.count = "mc"
  <2>1. FreeChoices(q, e) = {Signs(R, T) : T \in SUBSET R}
    BY <1>3, FreeFacts
  <2>2. U = {x \in R : x \notin a /\ -x \notin a}
    BY DEF FreeUnder, Apart
  <2>3. IsFiniteSet(U) /\ U \subseteq R
    BY <1>1, <2>2, FS_Subset
  <2>4. a \in SUBSET (Int \ {0}) /\ \A l \in a : -l \notin a
    BY DEF Cube, Conflicts
  <2>5. \A x \in R : x \in Int /\ -(-x) = x /\ ~(x \in a /\ -x \in a)
    BY <1>1, <2>4
  <2> DEFINE h == [T \in SUBSET U |-> Signs(R, T \cup (R \cap a))]
  <2> HIDE DEF R, U
  <2>6. ASSUME NEW T \in SUBSET U
        PROVE  /\ h[T] = Signs(R, T \cup (R \cap a)) /\ h[T] \in C
               /\ T = {x \in U : x \in h[T]}
    <3>1. h[T] = Signs(R, T \cup (R \cap a))
      OBVIOUS
    <3> HIDE DEF h
    <3>2. T \cup (R \cap a) \in SUBSET R
      BY <2>3
    <3>3. \A x \in R : /\ x \in h[T] <=> x \in T \cup (R \cap a)
                       /\ -x \in h[T] <=> x \notin T \cup (R \cap a)
      <4>1. \A S : \A x \in R : (x \in Signs(R, S) <=> x \in S) /\ (-x \in Signs(R, S) <=> x \notin S)
        BY <1>1, SignFacts
      <4> QED
        BY <3>1, <4>1
    <3>4. \A l \in h[T] : l \in Int /\ (l \in R \/ -l \in R)
      BY <1>1, <3>1, SignFacts
    <3>5. ASSUME NEW l \in h[T], -l \in a PROVE FALSE
      <4>1. CASE l \in R
        BY <2>2, <2>5, <3>3, <3>5, <4>1
      <4>2. CASE -l \in R
        <5>1. l = -(-l)
          BY <3>4
        <5> QED
          BY <3>3, <3>5, <4>2, <5>1
      <4> QED
        BY <3>4, <4>1, <4>2
    <3>6. h[T] \in C
      BY <2>1, <3>1, <3>2, <3>5 DEF ChoicesUnder, Conflicts
    <3>7. T = {x \in U : x \in h[T]}
      BY <2>2, <3>3
    <3> QED
      BY <3>1, <3>6, <3>7
  <2>7. ASSUME NEW f \in C PROVE \E T \in SUBSET U : h[T] = f
    <3>1. PICK S \in SUBSET R : f = Signs(R, S)
      BY <2>1 DEF ChoicesUnder
    <3>2. \A l \in f : -l \notin a
      BY DEF ChoicesUnder, Conflicts
    <3>3. \A x \in R : (x \in f <=> x \in S) /\ (-x \in f <=> x \notin S)
      BY <1>1, <3>1, SignFacts
    <3> DEFINE T == S \cap U
    <3>4. ASSUME NEW x \in R PROVE x \in T \cup (R \cap a) <=> x \in S
      <4>1. -(-x) = x /\ ~(x \in a /\ -x \in a)
        BY <2>5
      <4>2. x \in a => x \in S
        BY <3>2, <3>3, <4>1
      <4>3. -x \in a => x \notin S
        BY <3>2, <3>3
      <4> QED
        BY <2>2, <4>1, <4>2, <4>3
    <3>5. Signs(R, T \cup (R \cap a)) = f
      BY <3>1, <3>4, SignsEqual
    <3>6. T \in SUBSET U
      OBVIOUS
    <3>7. h[T] = f
      BY <3>5, <3>6
    <3> QED
      BY <3>6, <3>7
  <2> HIDE DEF h, C
  <2>8. \A T \in SUBSET U : h[T] \in C
    BY <2>6
  <2>9. h \in [SUBSET U -> C]
    BY <2>8 DEF h
  <2>10. ASSUME NEW S \in SUBSET U, NEW T \in SUBSET U, h[S] = h[T] PROVE S = T
    <3>1. S = {x \in U : x \in h[S]} /\ T = {x \in U : x \in h[T]}
      BY <2>6
    <3> QED
      BY <2>10, <3>1
  <2>11. IsFiniteSet(SUBSET U) /\ Cardinality(SUBSET U) = 2^Cardinality(U)
    BY <2>3, PowerOfTwo
  <2>12. IsFiniteSet(C) /\ Cardinality(C) = Cardinality(SUBSET U)
    <3> DEFINE P == SUBSET U
    <3>1. /\ IsFiniteSet(P) /\ h \in [P -> C]
          /\ \A x, y \in P : h[x] = h[y] => x = y
          /\ \A t \in C : \E x \in P : h[x] = t
      BY <2>7, <2>9, <2>10, <2>11
    <3> HIDE DEF P
    <3>2. IsFiniteSet(C) /\ Cardinality(C) = Cardinality(P)
      BY <3>1, SameCardinality
    <3> QED
      BY <3>2 DEF P
  <2> QED
    BY <1>3, <2>11, <2>12 DEF C, U
<1> QED
  BY <1>1, <1>2, <1>3

\* The parts of what goes through an edge can be told apart.
LEMMA ThroughApart ==
  ASSUME NEW q, IsQuery(q), NEW n \in DOMAIN q.circuit, NEW k \in DOMAIN q.circuit[n].children,
         NEW f \in FreeChoices(q, q.circuit[n].children[k]),
         NEW g \in FreeChoices(q, q.circuit[n].children[k]),
         NEW l \in Meanings(q)[q.circuit[n].children[k].dst],
         NEW m \in Meanings(q)[q.circuit[n].children[k].dst],
         q.circuit[n].children[k].units \cup f \cup l = q.circuit[n].children[k].units \cup g \cup m
  PROVE  f = g /\ l = m
<1> DEFINE e == q.circuit[n].children[k]
           R == Range(e.free)
           u == e.units
<1>1. R \in SUBSET (Nat \ {0}) /\ u \in SUBSET (Int \ {0}) /\ Apart(u, R)
  BY FreeFacts, EdgeFacts
<1>2. /\ l \subseteq Int \ {0} /\ Apart(l, u \cup R)
      /\ m \subseteq Int \ {0} /\ Apart(m, u \cup R)
  BY DEF IsQuery, IsDDNNF
<1>3. \A x \in f \cup g : x \in R \/ -x \in R
  <2>1. q.count \in {"mc", "pc"}
    BY CircuitFacts
  <2>2. CASE q.count = "pc"
    BY <2>2, FreeFacts
  <2>3. CASE q.count = "mc"
    <3>1. FreeChoices(q, e) = {Signs(R, T) : T \in SUBSET R}
      BY <2>3, FreeFacts
    <3>2. (\E S : f = Signs(R, S)) /\ (\E T : g = Signs(R, T))
      BY <3>1
    <3> QED
      BY Zenon, <1>1, <3>2, SignFacts
  <2> QED
    BY <2>1, <2>2, <2>3
<1>4. u \cup f \cup l = u \cup g \cup m
  OBVIOUS
<1> HIDE DEF e, R, u
<1>5. /\ \A x \in u : x \notin R /\ -x \notin R
      /\ \A x \in l \cup m : x \notin R /\ -x \notin R /\ x \notin u
  BY <1>1, <1>2 DEF Apart
<1>6. f = g
  BY <1>3, <1>4, <1>5
<1>7. l = m
  BY <1>3, <1>4, <1>5
<1> QED
  BY SMTT(30), <1>6, <1>7


\* What w counts below the nodes of D is exact.
Exact(q, w, D, a) ==
  \A d \in D : IsFiniteSet(UnderOf(q, d, a)) /\ w[d] = Cardinality(UnderOf(q, d, a))

\* get_mc and get_pc of an edge are exact if the count of its target is.
LEMMA EdgeCountExact ==
  ASSUME NEW q, IsQuery(q), NEW n \in DOMAIN q.circuit, NEW k \in DOMAIN q.circuit[n].children,
         NEW a, Cube(a), NEW w, Exact(q, w, Dsts(q, n), a)
  PROVE  LET e == q.circuit[n].children[k]
         IN  /\ IsFiniteSet(ThroughUnder(q, e, a))
             /\ EdgeCount(q, w, e, a) = Cardinality(ThroughUnder(q, e, a))
             /\ EdgeCount(q, w, e, a) \in Nat
<1> DEFINE e == q.circuit[n].children[k]
           u == e.units
           M == Meanings(q)[e.dst]
           C == ChoicesUnder(q, e, a)
           B == UnderOf(q, e.dst, a)
           T == ThroughUnder(q, e, a)
<1>1. e.dst \in Dsts(q, n)
  BY EdgeFacts
<1>2. IsFiniteSet(B) /\ w[e.dst] = Cardinality(B) /\ w[e.dst] \in Nat
  BY <1>1, FS_CardinalityType DEF Exact
<1>3. T = {m \in {u \cup f \cup m : f \in FreeChoices(q, e), m \in M} : ~Conflicts(m, a)}
  BY DEF ThroughUnder, Through
<1>4. C = {f \in FreeChoices(q, e) : ~Conflicts(f, a)} /\ B = {m \in M : ~Conflicts(m, a)}
  BY DEF ChoicesUnder, UnderOf
<1>5. CASE Conflicts(u, a)
  <2>1. \A f, m : Conflicts(u \cup f \cup m, a)
    BY <1>5 DEF Conflicts
  <2>2. T = {}
    <3> SUFFICES ASSUME NEW x \in T PROVE FALSE
      OBVIOUS
    <3>1. PICK f \in FreeChoices(q, e), m \in M : x = u \cup f \cup m
      BY <1>3
    <3>2. ~Conflicts(x, a)
      BY <1>3
    <3> QED
      BY <2>1, <3>1, <3>2
  <2>3. EdgeCount(q, w, e, a) = 0
    BY <1>5 DEF EdgeCount
  <2> QED
    BY <2>2, <2>3, FS_EmptySet
<1>6. CASE ~Conflicts(u, a)
  <2>1. \A f, m : Conflicts(u \cup f \cup m, a) <=> Conflicts(f, a) \/ Conflicts(m, a)
    BY <1>6 DEF Conflicts
  <2>2. T = {u \cup f \cup m : f \in C, m \in B}
    <3> HIDE DEF T, C, B, M, u
    <3>1. ASSUME NEW x \in T PROVE x \in {u \cup f \cup m : f \in C, m \in B}
      <4>1. PICK f \in FreeChoices(q, e), m \in M : x = u \cup f \cup m
        BY <1>3
      <4>2. ~Conflicts(u \cup f \cup m, a)
        BY <1>3, <4>1
      <4>3. f \in C /\ m \in B
        BY <1>4, <2>1, <4>2
      <4> QED
        BY <4>1, <4>3
    <3>2. ASSUME NEW f \in C, NEW m \in B PROVE u \cup f \cup m \in T
      <4>1. ~Conflicts(u \cup f \cup m, a) /\ f \in FreeChoices(q, e) /\ m \in M
        BY <1>4, <2>1
      <4> QED
        BY <1>3, <4>1
    <3> QED
      BY <3>1, <3>2
  <2> DEFINE D == C \X B
             h == [p \in D |-> u \cup p[1] \cup p[2]]
  <2>3. ASSUME NEW f \in C, NEW m \in B PROVE <<f, m>> \in D /\ h[<<f, m>>] = u \cup f \cup m
    OBVIOUS
  <2>4. \A p \in D : \E f \in C, m \in B : p = <<f, m>>
    OBVIOUS
  <2>5. IsFiniteSet(C) /\ IsFiniteSet(D) /\ Cardinality(D) = Cardinality(C) * Cardinality(B)
          /\ Cardinality(C) \in Nat
    <3>1. IsFiniteSet(C)
      BY ChoicesCount
    <3> HIDE DEF C, B
    <3> QED
      BY <1>2, <3>1, FS_Product, FS_CardinalityType
  <2>6. DOMAIN h = D
    OBVIOUS
  <2>6a. h = [p \in D |-> h[p]]
    BY SMTT(30)
  <2>7. ASSUME NEW f \in C, NEW m \in B, NEW g \in C, NEW l \in B, u \cup f \cup m = u \cup g \cup l
        PROVE  f = g /\ m = l
    <3>1. f \in FreeChoices(q, e) /\ g \in FreeChoices(q, e) /\ m \in M /\ l \in M
      BY <1>4
    <3> QED
      BY <2>7, <3>1, ThroughApart
  <2> HIDE DEF h, D, T, C, B, u
  <2>8. \A p \in D : h[p] \in T
    BY <2>2, <2>3, <2>4
  <2>9. h \in [D -> T]
    BY <2>6, <2>6a, <2>8
  <2>10. ASSUME NEW p \in D, NEW r \in D, h[p] = h[r] PROVE p = r
    <3>1. PICK f \in C, m \in B : p = <<f, m>>
      BY <2>4
    <3>2. PICK g \in C, l \in B : r = <<g, l>>
      BY <2>4
    <3>3. u \cup f \cup m = u \cup g \cup l
      BY <2>3, <2>10, <3>1, <3>2
    <3> QED
      BY <2>7, <3>1, <3>2, <3>3
  <2>11. ASSUME NEW t \in T PROVE \E p \in D : h[p] = t
    <3>1. PICK f \in C, m \in B : t = u \cup f \cup m
      BY <2>2
    <3> QED
      BY <2>3, <3>1
  <2>12. IsFiniteSet(T) /\ Cardinality(T) = Cardinality(C) * Cardinality(B)
    <3>1. IsFiniteSet(T) /\ Cardinality(T) = Cardinality(D)
      BY <2>5, <2>9, <2>10, <2>11, SameCardinality
    <3> QED
      BY <2>5, <3>1
  <2>13. EdgeCount(q, w, e, a) = Cardinality(C) * Cardinality(B)
    <3>1. CASE q.count = "pc"
      <4>1. Cardinality(C) = 1
        BY <3>1, ChoicesCount DEF C
      <4>2. EdgeCount(q, w, e, a) = w[e.dst]
        BY <1>6, <3>1 DEF EdgeCount, u
      <4> QED
        BY <1>2, <4>1, <4>2
    <3>2. CASE q.count = "mc"
      <4>1. Cardinality(C) = 2^Cardinality(FreeUnder(e, a))
        BY <3>2, ChoicesCount DEF C
      <4>2. EdgeCount(q, w, e, a) = w[e.dst] * 2^Cardinality(FreeUnder(e, a))
        BY <1>6, <3>2 DEF EdgeCount, u
      <4>3. EdgeCount(q, w, e, a) = Cardinality(B) * Cardinality(C)
        BY <1>2, <4>1, <4>2
      <4>4. Cardinality(B) \in Nat /\ Cardinality(C) \in Nat
        BY <1>2, <2>5
      <4> HIDE DEF e
      <4> QED
        BY <4>3, <4>4
    <3> QED
      BY <3>1, <3>2, CircuitFacts
  <2>14. Cardinality(T) \in Nat
    BY <2>12, FS_CardinalityType
  <2> QED
    BY <2>12, <2>13, <2>14 DEF T
<1> QED
  BY <1>5, <1>6

\* An edge out of an And node carries nothing.
LEMMA AndEdgeCount ==
  ASSUME NEW q, IsQuery(q), NEW n \in DOMAIN q.circuit, NEW k \in DOMAIN q.circuit[n].children,
         q.circuit[n].type = "a",
         NEW a, NEW w, w[q.circuit[n].children[k].dst] \in Nat
  PROVE  EdgeCount(q, w, q.circuit[n].children[k], a) = w[q.circuit[n].children[k].dst]
<1> DEFINE e == q.circuit[n].children[k]
<1>1. e.units = {} /\ e.free = <<>>
  BY EdgeFacts
<1>2. ~Conflicts(e.units, a)
  BY <1>1 DEF Conflicts
<1>3. FreeUnder(e, a) = {}
  BY <1>1 DEF FreeUnder, Range
<1>4. Cardinality(SUBSET {}) = 2^Cardinality({}) /\ SUBSET {} = {{}}
  BY FS_EmptySet, PowerOfTwo
<1>5. Cardinality({{}}) = 1
  BY FS_Singleton
<1>6. 2^Cardinality(FreeUnder(e, a)) = 1
  BY <1>3, <1>4, <1>5
<1>7. q.count \in {"mc", "pc"}
  BY CircuitFacts
<1>8. CASE q.count = "pc"
  BY <1>2, <1>8 DEF EdgeCount
<1>9. CASE q.count = "mc"
  <2>1. EdgeCount(q, w, e, a) = w[e.dst] * 2^Cardinality(FreeUnder(e, a))
    BY <1>2, <1>9 DEF EdgeCount
  <2>2. EdgeCount(q, w, e, a) = w[e.dst] * 1
    BY <1>6, <2>1
  <2> QED
    BY <2>2
<1> QED
  BY <1>7, <1>8, <1>9

\* One member of every child of an And.
AndPicks(q, n, a) ==
  LET kids == q.circuit[n].children
  IN  Picks(Len(kids), [k \in 1 .. Len(kids) |-> UnderOf(q, kids[k].dst, a)],
            UNION {Meanings(q)[kids[k].dst] : k \in DOMAIN kids})

\* They make up its members, and can be told apart.
LEMMA AndParts ==
  ASSUME NEW q, IsQuery(q), NEW n \in DOMAIN q.circuit, q.circuit[n].type = "a", NEW a
  PROVE  /\ \A f \in AndPicks(q, n, a) : UNION Range(f) \in UnderOf(q, n, a)
         /\ \A f, g \in AndPicks(q, n, a) : UNION Range(f) = UNION Range(g) => f = g
         /\ \A m \in UnderOf(q, n, a) : \E f \in AndPicks(q, n, a) : UNION Range(f) = m
<1> DEFINE kids == q.circuit[n].children
           K == Len(kids)
           U == [k \in 1 .. K |-> UnderOf(q, kids[k].dst, a)]
           M == [k \in 1 .. K |-> Meanings(q)[kids[k].dst]]
           X == UNION {Meanings(q)[kids[k].dst] : k \in DOMAIN kids}
           P == Picks(K, U, X)
           T == UnderOf(q, n, a)
<1>1. K \in Nat /\ DOMAIN kids = 1 .. K
  BY SMTT(30), CircuitFacts
<1>2. \A k \in 1 .. K : /\ U[k] = UnderOf(q, kids[k].dst, a) /\ M[k] = Meanings(q)[kids[k].dst]
                        /\ U[k] = {m \in M[k] : ~Conflicts(m, a)}
  BY <1>1 DEF Dsts, UnderOf
<1>5. P = AndPicks(q, n, a)
  BY SMTT(30) DEF AndPicks
<1>6. T = {m \in {UNION Range(f) : f \in {f \in [1 .. K -> X] : \A k \in 1 .. K : f[k] \in M[k]}} :
        ~Conflicts(m, a)}
  <2>1. Meanings(q)[n] = Joined(Meanings(q), kids)
    BY MeaningFacts DEF MeaningOf
  <2>2. Joined(Meanings(q), kids) =
          {UNION Range(f) : f \in {f \in [1 .. K -> X] : \A k \in 1 .. K :
              f[k] \in Meanings(q)[kids[k].dst]}}
    BY <1>1 DEF Joined
  <2>3. {f \in [1 .. K -> X] : \A k \in 1 .. K : f[k] \in Meanings(q)[kids[k].dst]} =
        {f \in [1 .. K -> X] : \A k \in 1 .. K : f[k] \in M[k]}
    BY <1>2
  <2> QED
    BY <2>1, <2>2, <2>3 DEF UnderOf
<1>7. ASSUME NEW j \in 1 .. K, NEW k \in 1 .. K, j # k, NEW x \in M[j], NEW y \in M[k]
      PROVE  x \cap y = {}
  <2>1. Apart(x, y)
    BY ZenonT(40), <1>1, <1>2, <1>7 DEF IsQuery, IsDDNNF
  <2> QED
    BY <2>1 DEF Apart
<1> HIDE DEF kids, K, U, M, X, T
<1>8. ASSUME NEW f \in [1 .. K -> X]
      PROVE  /\ \A l : l \in UNION Range(f) <=> \E k \in 1 .. K : l \in f[k]
             /\ Conflicts(UNION Range(f), a) <=> \E k \in 1 .. K : Conflicts(f[k], a)
  <2>1. Range(f) = {f[k] : k \in 1 .. K}
    BY DEF Range
  <2> QED
    BY <2>1 DEF Conflicts
<1>9. ASSUME NEW f \in P
      PROVE  /\ f \in [1 .. K -> X] /\ (\A k \in 1 .. K : f[k] \in M[k] /\ ~Conflicts(f[k], a))
             /\ UNION Range(f) \in T
  <2>1. f \in [1 .. K -> X] /\ \A k \in 1 .. K : f[k] \in M[k] /\ ~Conflicts(f[k], a)
    BY <1>2 DEF Picks
  <2>2. ~Conflicts(UNION Range(f), a)
    BY <1>8, <2>1
  <2> QED
    BY <1>6, <2>1, <2>2
<1>10. ASSUME NEW m \in T PROVE \E f \in P : UNION Range(f) = m
  <2>1. PICK f \in [1 .. K -> X] : (\A k \in 1 .. K : f[k] \in M[k]) /\ m = UNION Range(f)
    BY <1>6
  <2>2. ~Conflicts(m, a)
    BY <1>6
  <2>3. \A k \in 1 .. K : f[k] \in U[k]
    BY <1>2, <1>8, <2>1, <2>2
  <2>4. f \in P
    BY <2>3 DEF Picks
  <2> QED
    BY <2>1, <2>4
<1>11. ASSUME NEW f \in P, NEW g \in P, UNION Range(f) = UNION Range(g) PROVE f = g
  <2>1. /\ f \in [1 .. K -> X] /\ \A k \in 1 .. K : f[k] \in M[k]
        /\ g \in [1 .. K -> X] /\ \A k \in 1 .. K : g[k] \in M[k]
    BY <1>9
  <2>2. ASSUME NEW k \in 1 .. K PROVE f[k] = g[k]
    <3>1. ASSUME NEW l \in f[k] PROVE l \in g[k]
      <4>1. l \in UNION Range(g)
        BY <1>8, <1>11, <2>1
      <4>2. PICK j \in 1 .. K : l \in g[j]
        BY <1>8, <2>1, <4>1
      <4>3. j # k => f[k] \cap g[j] = {}
        BY <1>7, <2>1
      <4> QED
        BY <4>2, <4>3
    <3>2. ASSUME NEW l \in g[k] PROVE l \in f[k]
      <4>1. l \in UNION Range(f)
        BY <1>8, <1>11, <2>1
      <4>2. PICK j \in 1 .. K : l \in f[j]
        BY <1>8, <2>1, <4>1
      <4>3. j # k => g[k] \cap f[j] = {}
        BY <1>7, <2>1
      <4> QED
        BY <4>2, <4>3
    <3> QED
      BY <3>1, <3>2
  <2> DEFINE D == 1 .. K
  <2>3. f \in [D -> X] /\ g \in [D -> X] /\ \A k \in D : f[k] = g[k]
    BY <2>1, <2>2
  <2> HIDE DEF P, D
  <2> QED
    BY <2>3, SameFunction
<1> HIDE DEF P
<1> QED
  BY <1>5, <1>9, <1>10, <1>11 DEF T

\* An And: one member of every child, which can be told apart.
LEMMA AndCount ==
  ASSUME NEW q, IsQuery(q), NEW n \in DOMAIN q.circuit, q.circuit[n].type = "a",
         NEW a, Cube(a), NEW w, Exact(q, w, Dsts(q, n), a)
  PROVE  /\ IsFiniteSet(UnderOf(q, n, a))
         /\ NodeCount(q, w, n, a) = Cardinality(UnderOf(q, n, a))
<1> DEFINE kids == q.circuit[n].children
           K == Len(kids)
           U == [k \in 1 .. K |-> UnderOf(q, kids[k].dst, a)]
           M == [k \in 1 .. K |-> Meanings(q)[kids[k].dst]]
           X == UNION {Meanings(q)[kids[k].dst] : k \in DOMAIN kids}
           P == Picks(K, U, X)
           T == UnderOf(q, n, a)
<1>1. K \in Nat /\ DOMAIN kids = 1 .. K
  BY SMTT(30), CircuitFacts
<1>2. \A k \in 1 .. K : /\ kids[k].dst \in Dsts(q, n)
                        /\ U[k] = UnderOf(q, kids[k].dst, a) /\ M[k] = Meanings(q)[kids[k].dst]
                        /\ U[k] = {m \in M[k] : ~Conflicts(m, a)}
  BY Zenon, <1>1 DEF Dsts, UnderOf
<1>3. \A k \in 1 .. K : IsFiniteSet(U[k]) /\ w[kids[k].dst] = Cardinality(U[k]) /\ w[kids[k].dst] \in Nat
  BY ZenonT(40), <1>2, FS_CardinalityType DEF Exact
<1>4. X = UNION {M[k] : k \in 1 .. K}
  BY <1>1
<1>5. NodeCount(q, w, n, a) = ProductOf([k \in 1 .. K |-> Cardinality(U[k])])
  <2>1. \A k \in 1 .. K : EdgeCount(q, w, kids[k], a) = Cardinality(U[k])
    <3> SUFFICES ASSUME NEW k \in 1 .. K PROVE EdgeCount(q, w, kids[k], a) = Cardinality(U[k])
      OBVIOUS
    <3>1. k \in DOMAIN kids /\ w[kids[k].dst] = Cardinality(U[k]) /\ w[kids[k].dst] \in Nat
      BY <1>1, <1>3
    <3>2. EdgeCount(q, w, kids[k], a) = w[kids[k].dst]
      <4> DEFINE c == w[kids[k].dst]
      <4>1. c \in Nat /\ k \in DOMAIN kids
        BY <3>1
      <4> HIDE DEF U, M, X, P, T, K
      <4> QED
        BY <4>1, AndEdgeCount
    <3> QED
      BY <3>1, <3>2
  <2>2. [k \in DOMAIN kids |-> EdgeCount(q, w, kids[k], a)] = [k \in 1 .. K |-> Cardinality(U[k])]
    BY <1>1, <2>1
  <2> QED
    BY <2>2 DEF NodeCount
<1> HIDE DEF kids, K, U, M, X, T
<1>12. IsFiniteSet(P) /\ Cardinality(P) = ProductOf([k \in 1 .. K |-> Cardinality(U[k])])
  <2>1. \A k \in 1 .. K : IsFiniteSet(U[k]) /\ U[k] \subseteq X
    BY <1>2, <1>3, <1>4
  <2> QED
    BY <1>1, <2>1, CountChoices
<1> DEFINE h == [f \in P |-> UNION Range(f)]
<1>13. P = AndPicks(q, n, a)
  BY DEF AndPicks, kids, K, U, X
<1> HIDE DEF P
<1>13a. /\ \A f \in P : UNION Range(f) \in T
        /\ \A f, g \in P : UNION Range(f) = UNION Range(g) => f = g
        /\ \A m \in T : \E f \in P : UNION Range(f) = m
  BY <1>13, AndParts DEF T
<1>13b. h \in [P -> T] /\ \A f \in P : h[f] = UNION Range(f)
  BY <1>13a
<1> HIDE DEF h
<1>14. IsFiniteSet(T) /\ Cardinality(T) = Cardinality(P)
  <2>1. \A f, g \in P : h[f] = h[g] => f = g
    BY <1>13a, <1>13b
  <2>2. \A m \in T : \E f \in P : h[f] = m
    BY <1>13a, <1>13b
  <2> QED
    BY <1>12, <1>13b, <2>1, <2>2, SameCardinality
<1> QED
  BY <1>5, <1>12, <1>14 DEF T

\* An Or: what goes through one edge does not go through another.
LEMMA OrCount ==
  ASSUME NEW q, IsQuery(q), NEW n \in DOMAIN q.circuit, q.circuit[n].type \in {"o", "u"},
         NEW a, Cube(a), NEW w, Exact(q, w, Dsts(q, n), a)
  PROVE  /\ IsFiniteSet(UnderOf(q, n, a))
         /\ NodeCount(q, w, n, a) = Cardinality(UnderOf(q, n, a))
<1> DEFINE kids == q.circuit[n].children
           K == Len(kids)
           U == [k \in 1 .. K |-> ThroughUnder(q, kids[k], a)]
<1>1. K \in Nat /\ DOMAIN kids = 1 .. K
  BY CircuitFacts
<1>2. \A k \in 1 .. K : /\ U[k] = ThroughUnder(q, kids[k], a) /\ IsFiniteSet(U[k])
                        /\ EdgeCount(q, w, kids[k], a) = Cardinality(U[k])
  BY <1>1, EdgeCountExact
<1>3. \A j, k \in 1 .. K : j # k => U[j] \cap U[k] = {}
  <2> SUFFICES ASSUME NEW j \in 1 .. K, NEW k \in 1 .. K, j # k PROVE U[j] \cap U[k] = {}
    OBVIOUS
  <2>1. Through(q, Meanings(q), kids[j]) \cap Through(q, Meanings(q), kids[k]) = {}
    BY <1>1 DEF IsQuery, IsDDNNF
  <2> QED
    BY <1>2, <2>1 DEF ThroughUnder
<1>4. UnderOf(q, n, a) = UNION {U[k] : k \in 1 .. K}
  <2>1. Meanings(q)[n] = UNION {Through(q, Meanings(q), kids[k]) : k \in 1 .. K}
    BY <1>1, MeaningFacts DEF MeaningOf
  <2>2. UnderOf(q, n, a) = {m \in Meanings(q)[n] : ~Conflicts(m, a)}
    BY DEF UnderOf
  <2>3. \A k \in 1 .. K : U[k] = {m \in Through(q, Meanings(q), kids[k]) : ~Conflicts(m, a)}
    BY DEF ThroughUnder
  <2> HIDE DEF U, K
  <2> QED
    BY <2>1, <2>2, <2>3
<1>5. NodeCount(q, w, n, a) = SumOf([k \in 1 .. K |-> Cardinality(U[k])])
  <2>1. [k \in DOMAIN kids |-> EdgeCount(q, w, kids[k], a)] = [k \in 1 .. K |-> Cardinality(U[k])]
    BY <1>1, <1>2
  <2> QED
    BY <2>1 DEF NodeCount
<1> HIDE DEF U, K
<1>6. /\ IsFiniteSet(UNION {U[k] : k \in 1 .. K})
      /\ Cardinality(UNION {U[k] : k \in 1 .. K}) = SumOf([k \in 1 .. K |-> Cardinality(U[k])])
  BY <1>1, <1>2, <1>3, CountUnion
<1> QED
  BY <1>4, <1>5, <1>6

\* The count of a node is exact if those of its children are.
LEMMA NodeCountExact ==
  ASSUME NEW q, IsQuery(q), NEW n \in DOMAIN q.circuit,
         NEW a, Cube(a), NEW w, Exact(q, w, Dsts(q, n), a)
  PROVE  /\ IsFiniteSet(UnderOf(q, n, a))
         /\ NodeCount(q, w, n, a) = Cardinality(UnderOf(q, n, a))
<1>1. q.circuit[n].type \in {"t", "f", "a", "o", "u"} /\ Meanings(q)[n] = MeaningOf(q, Meanings(q), n)
  BY CircuitFacts, MeaningFacts
<1>2. CASE q.circuit[n].type = "t"
  <2>1. UnderOf(q, n, a) = {{}}
    BY <1>1, <1>2 DEF MeaningOf, UnderOf, Conflicts
  <2>2. NodeCount(q, w, n, a) = 1
    BY <1>2 DEF NodeCount
  <2> QED
    BY ZenonT(40), <2>1, <2>2, FS_Singleton
<1>3. CASE q.circuit[n].type = "f"
  <2>1. UnderOf(q, n, a) = {}
    BY <1>1, <1>3 DEF MeaningOf, UnderOf
  <2>2. NodeCount(q, w, n, a) = 0
    BY <1>3 DEF NodeCount
  <2> QED
    BY <2>1, <2>2, FS_EmptySet
<1> QED
  BY <1>1, <1>2, <1>3, AndCount, OrCount

-----------------------------------------------------------------------------
(* One pass annotates the circuit *)

\* The count of an edge is a number.
LEMMA EdgeCountType ==
  ASSUME NEW q, IsQuery(q), NEW n \in DOMAIN q.circuit, NEW k \in DOMAIN q.circuit[n].children,
         NEW a, NEW w, w[q.circuit[n].children[k].dst] \in Nat
  PROVE  EdgeCount(q, w, q.circuit[n].children[k], a) \in Nat
<1> DEFINE e == q.circuit[n].children[k]
           p == 2^Cardinality(FreeUnder(e, a))
<1>1. IsFiniteSet(FreeUnder(e, a))
  <2>1. FreeUnder(e, a) \subseteq Range(e.free) /\ IsFiniteSet(Range(e.free))
    BY FreeFacts DEF FreeUnder
  <2> QED
    BY <2>1, FS_Subset
<1>2. p \in Nat
  BY <1>1, PowerOfTwo
<1>3. EdgeCount(q, w, e, a) \in {0, w[e.dst], w[e.dst] * p}
  BY DEF EdgeCount
<1> HIDE DEF e, p
<1> QED
  BY <1>2, <1>3 DEF e

\* The count of a node is a number.
LEMMA NodeCountType ==
  ASSUME NEW q, IsQuery(q), NEW n \in DOMAIN q.circuit, NEW a,
         NEW w, \A d \in Dsts(q, n) : w[d] \in Nat
  PROVE  NodeCount(q, w, n, a) \in Nat
<1> DEFINE kids == q.circuit[n].children
           K == Len(kids)
           c == [k \in DOMAIN kids |-> EdgeCount(q, w, kids[k], a)]
<1>1. K \in Nat /\ DOMAIN kids = 1 .. K /\ q.circuit[n].type \in {"t", "f", "a", "o", "u"}
  BY CircuitFacts
<1>2. c \in [1 .. K -> Nat]
  BY <1>1, EdgeFacts, EdgeCountType
<1>3. NodeCount(q, w, n, a) \in {0, 1, SumOf(c), ProductOf(c)}
  BY <1>1 DEF NodeCount
<1> HIDE DEF K, c
<1>4. SumOf(c) \in Nat
  <2>1. PICK g \in [0 .. K -> Nat] : g[K] = SumOf(c)
    BY <1>1, <1>2, SumFold
  <2> QED
    BY <1>1, <2>1
<1>5. ProductOf(c) \in Nat
  <2>1. PICK g \in [0 .. K -> Nat] : g[K] = ProductOf(c)
    BY <1>1, <1>2, ProductFold
  <2> QED
    BY <1>1, <2>1
<1> QED
  BY <1>3, <1>4, <1>5


AnnotateRun(g, q, a, n, c) ==
  /\ g \in [0 .. n -> [DOMAIN q.circuit -> Nat]]
  /\ g[0] = [d \in DOMAIN q.circuit |-> 0] /\ g[n] = Annotated(q, a, c)
       /\ \A k \in 1 .. n : g[k] = [g[k - 1] EXCEPT ![c[k]] = NodeCount(q, g[k - 1], c[k], a)]

\* The counts after every node of the pass.
LEMMA AnnotateFold ==
  ASSUME NEW q, IsQuery(q), NEW a, NEW n \in Nat, NEW c \in [1 .. n -> DOMAIN q.circuit]
  PROVE  \E g : AnnotateRun(g, q, a, n, c)
<1> DEFINE f == CHOOSE it : it = [t \in SUBSET DOMAIN c |->
                  IF t = {} THEN [d \in DOMAIN q.circuit |-> 0]
                      ELSE [it[t \ {Max(t)}] EXCEPT ![c[Max(t)]] = NodeCount(q, it[t \ {Max(t)}], c[Max(t)], a)]]
           step == [x \in [DOMAIN q.circuit -> Nat] \X (1 .. n) |->
               [x[1] EXCEPT ![c[x[2]]] = NodeCount(q, x[1], c[x[2]], a)]]
<1>1. Annotated(q, a, c) = f[DOMAIN c]
  BY DEF Annotated, FoldLeft, MapThenFoldSet
<1>2. [d \in DOMAIN q.circuit |-> 0] \in [DOMAIN q.circuit -> Nat]
        /\ \A x \in [DOMAIN q.circuit -> Nat], k \in 1 .. n :
             [x EXCEPT ![c[k]] = NodeCount(q, x, c[k], a)] \in [DOMAIN q.circuit -> Nat]
  <2>1. \A x \in [DOMAIN q.circuit -> Nat], y \in DOMAIN q.circuit : NodeCount(q, x, y, a) \in Nat
    <3>1. \A y \in DOMAIN q.circuit : Dsts(q, y) \subseteq DOMAIN q.circuit
      BY CircuitFacts
    <3> QED
      BY <3>1, NodeCountType
  <2> QED
    BY <2>1
<1>3. step \in [[DOMAIN q.circuit -> Nat] \X (1 .. n) -> [DOMAIN q.circuit -> Nat]]
  BY <1>2
<1>4. \A x \in [DOMAIN q.circuit -> Nat], k \in 1 .. n :
        step[<<x, k>>] = [x EXCEPT ![c[k]] = NodeCount(q, x, c[k], a)]
  OBVIOUS
<1>5. \A t \in SUBSET (1 .. n) : t # {} => Max(t) \in 1 .. n /\ t \ {Max(t)} \in SUBSET (1 .. n)
  BY MaxUpto
<1> HIDE DEF step, f
<1>6. PICK it \in [SUBSET (1 .. n) -> [DOMAIN q.circuit -> Nat]] :
        Folds(it, n, [d \in DOMAIN q.circuit |-> 0], step)
  BY <1>2, <1>3, FoldExists
<1>7. ASSUME NEW t \in SUBSET (1 .. n)
      PROVE  it[t] = IF t = {} THEN [d \in DOMAIN q.circuit |-> 0]
               ELSE [it[t \ {Max(t)}] EXCEPT ![c[Max(t)]] = NodeCount(q, it[t \ {Max(t)}], c[Max(t)], a)]
  BY <1>4, <1>5, <1>6 DEF Folds
<1>8. DOMAIN c = 1 .. n /\ {} \in SUBSET (1 .. n)
  OBVIOUS
<1>9. it = [t \in SUBSET DOMAIN c |-> IF t = {} THEN [d \in DOMAIN q.circuit |-> 0]
        ELSE [it[t \ {Max(t)}] EXCEPT ![c[Max(t)]] = NodeCount(q, it[t \ {Max(t)}], c[Max(t)], a)]]
  BY ZenonT(40), <1>7, <1>8
<1>10. f = [t \in SUBSET DOMAIN c |-> IF t = {} THEN [d \in DOMAIN q.circuit |-> 0]
         ELSE [f[t \ {Max(t)}] EXCEPT ![c[Max(t)]] = NodeCount(q, f[t \ {Max(t)}], c[Max(t)], a)]]
  BY <1>9 DEF f
<1>11. f[{}] = [d \in DOMAIN q.circuit |-> 0]
  BY <1>8, <1>10
<1>12. ASSUME NEW t \in (SUBSET (1 .. n)) \ {{}}, f[t \ {Max(t)}] \in [DOMAIN q.circuit -> Nat]
       PROVE  f[t] = step[<<f[t \ {Max(t)}], Max(t)>>]
  <2>1. f[t] = [f[t \ {Max(t)}] EXCEPT ![c[Max(t)]] = NodeCount(q, f[t \ {Max(t)}], c[Max(t)], a)]
    BY <1>8, <1>10
  <2> QED
    BY <1>4, <1>5, <1>12, <2>1
<1>13. IsFold(f, n, [DOMAIN q.circuit -> Nat], [d \in DOMAIN q.circuit |-> 0], step)
  BY <1>11, <1>12 DEF IsFold
<1>14. PICK g : Runs(g, n, [DOMAIN q.circuit -> Nat], [d \in DOMAIN q.circuit |-> 0], step, Result(f, n))
  BY <1>2, <1>3, <1>13, FoldChain
<1>15. ASSUME NEW k \in 1 .. n PROVE g[k] = [g[k - 1] EXCEPT ![c[k]] = NodeCount(q, g[k - 1], c[k], a)]
  <2>1. k - 1 \in 0 .. n
    OBVIOUS
  <2> QED
    BY <1>4, <1>14, <2>1 DEF Runs
<1>16. g \in [0 .. n -> [DOMAIN q.circuit -> Nat]] /\ g[0] = [d \in DOMAIN q.circuit |-> 0]
         /\ g[n] = Annotated(q, a, c)
  BY <1>1, <1>8, <1>14 DEF Runs, Result
<1> QED
  BY <1>15, <1>16 DEF AnnotateRun

\* One pass over an order with the children first makes every count of it exact.
LEMMA AnnotatedExact ==
  ASSUME NEW q, IsQuery(q), NEW a, Cube(a), NEW order \in Seq(DOMAIN q.circuit),
         IsInjective(order),
         \A k \in DOMAIN order : Dsts(q, order[k]) \subseteq {order[j] : j \in 1 .. k - 1}
  PROVE  /\ Annotated(q, a, order) \in [DOMAIN q.circuit -> Nat]
         /\ Exact(q, Annotated(q, a, order), Range(order), a)
<1> DEFINE n == Len(order)
           Ns == DOMAIN q.circuit
<1>1. n \in Nat /\ DOMAIN order = 1 .. n /\ order \in [1 .. n -> Ns]
  OBVIOUS
<1> HIDE DEF n
<1>2. PICK g : AnnotateRun(g, q, a, n, order)
  BY <1>1, AnnotateFold
<1>2a. /\ g \in [0 .. n -> [Ns -> Nat]] /\ g[n] = Annotated(q, a, order)
      /\ \A k \in 1 .. n : g[k] = [g[k - 1] EXCEPT ![order[k]] = NodeCount(q, g[k - 1], order[k], a)]
  BY <1>2 DEF AnnotateRun
<1> DEFINE F == {k \in 0 .. n : Exact(q, g[k], {order[j] : j \in 1 .. k}, a)}
<1> HIDE DEF Ns
<1>3. 0 \in F
  <2>1. {order[j] : j \in 1 .. 0} = {} /\ 0 \in 0 .. n
    BY <1>1
  <2>2. Exact(q, g[0], {}, a)
    BY DEF Exact
  <2> QED
    BY <2>1, <2>2
<1>4. ASSUME NEW k \in 1 .. n, k - 1 \in F PROVE k \in F
  <2>1. k \in 0 .. n /\ k - 1 \in 0 .. n /\ Exact(q, g[k - 1], {order[j] : j \in 1 .. k - 1}, a)
    BY <1>4
  <2>2. Exact(q, g[k - 1], Dsts(q, order[k]), a) /\ order[k] \in Ns
    BY <1>1, <2>1 DEF Exact
  <2>3. /\ IsFiniteSet(UnderOf(q, order[k], a))
        /\ NodeCount(q, g[k - 1], order[k], a) = Cardinality(UnderOf(q, order[k], a))
    BY <2>2, NodeCountExact DEF Ns
  <2>4. g[k - 1] \in [Ns -> Nat] /\ g[k] = [g[k - 1] EXCEPT ![order[k]] = NodeCount(q, g[k - 1], order[k], a)]
    BY <1>2a, <2>1
  <2>5. ASSUME NEW d \in {order[j] : j \in 1 .. k}
        PROVE  IsFiniteSet(UnderOf(q, d, a)) /\ g[k][d] = Cardinality(UnderOf(q, d, a))
    <3>1. PICK j \in 1 .. k : d = order[j]
      OBVIOUS
    <3>2. CASE j = k
      BY <2>2, <2>3, <2>4, <3>1, <3>2
    <3>3. CASE j # k
      <4>1. j \in 1 .. k - 1 /\ j \in 1 .. n
        BY <1>1, <3>3
      <4>2. order[j] # order[k]
        BY <1>1, <3>3, <4>1 DEF IsInjective
      <4>3. order[j] \in Ns
        BY <1>1, <4>1
      <4>4. g[k][d] = g[k - 1][d]
        BY <2>4, <3>1, <4>2, <4>3
      <4>5. d \in {order[i] : i \in 1 .. k - 1}
        BY <3>1, <4>1
      <4> QED
        BY <2>1, <4>4, <4>5 DEF Exact
    <3> QED
      BY <3>2, <3>3
  <2> QED
    BY <2>1, <2>5 DEF Exact
<1>5. n \in F
  <2>1. \A k \in 1 .. n : k - 1 \in F => k \in F
    BY <1>4
  <2> HIDE DEF F
  <2>2. \A k \in 0 .. n : k \in F
    BY <1>1, <1>3, <2>1, CountUp
  <2> QED
    BY <1>1, <2>2
<1>6. Range(order) = {order[j] : j \in 1 .. n}
  BY <1>1 DEF Range
<1>7. g[n] \in [Ns -> Nat]
  <2>1. n \in 0 .. n
    BY <1>1
  <2> QED
    BY <1>2a, <2>1
<1> QED
  BY <1>2a, <1>5, <1>6, <1>7 DEF Ns

-----------------------------------------------------------------------------
(* The free variables halve an id *)

Halves == [id : Int, count : Int, lits : SUBSET Int]

\* A step of the loop over the free variables keeps the types.
LEMMA HalveType ==
  ASSUME NEW a, NEW acc \in Halves, NEW x \in Nat \ {0}
  PROVE  Halve(a, acc, x) \in Halves
<1> DEFINE half == acc.count \div 2
<1>1. acc.id \in Int /\ half \in Int /\ acc.id - half \in Int /\ acc.count \in Int
  BY DEF Halves
<1>2. acc.lits \cup {x} \in SUBSET Int /\ acc.lits \cup {-x} \in SUBSET Int
  BY DEF Halves
<1>3. \/ Halve(a, acc, x) = [acc EXCEPT !.lits = acc.lits \cup {IF x \in a THEN x ELSE -x}]
      \/ Halve(a, acc, x) = [id |-> acc.id, count |-> half, lits |-> acc.lits \cup {x}]
      \/ Halve(a, acc, x) = [id |-> acc.id - half, count |-> half, lits |-> acc.lits \cup {-x}]
  BY DEF Halve
<1>4. [acc EXCEPT !.lits = acc.lits \cup {IF x \in a THEN x ELSE -x}] =
        [id |-> acc.id, count |-> acc.count, lits |-> acc.lits \cup {IF x \in a THEN x ELSE -x}]
  BY DEF Halves
<1>5. acc.lits \cup {IF x \in a THEN x ELSE -x} \in SUBSET Int
  BY <1>2
<1> HIDE DEF half
<1> QED
  BY <1>1, <1>2, <1>3, <1>4, <1>5 DEF Halves


HalveRun(g, a, n, c, start) ==
  /\ g \in [0 .. n -> Halves]
  /\ g[0] = start /\ g[n] = FoldLeft(LAMBDA acc, x : Halve(a, acc, x), start, c)
       /\ \A k \in 1 .. n : g[k] = Halve(a, g[k - 1], c[k])

\* What is left of the id after every free variable.
LEMMA HalveFold ==
  ASSUME NEW a, NEW n \in Nat, NEW c \in [1 .. n -> Nat \ {0}], NEW start \in Halves
  PROVE  \E g : HalveRun(g, a, n, c, start)
<1> DEFINE f == CHOOSE it : it = [t \in SUBSET DOMAIN c |->
                  IF t = {} THEN start ELSE Halve(a, it[t \ {Max(t)}], c[Max(t)])]
           step == [x \in Halves \X (1 .. n) |-> Halve(a, x[1], c[x[2]])]
<1>1. FoldLeft(LAMBDA acc, x : Halve(a, acc, x), start, c) = f[DOMAIN c]
  BY DEF FoldLeft, MapThenFoldSet
<1>2. start \in Halves /\ \A x \in Halves, k \in 1 .. n : Halve(a, x, c[k]) \in Halves
  BY HalveType
<1>3. step \in [Halves \X (1 .. n) -> Halves]
  BY <1>2
<1>4. \A x \in Halves, k \in 1 .. n : step[<<x, k>>] = Halve(a, x, c[k])
  OBVIOUS
<1>5. \A t \in SUBSET (1 .. n) : t # {} => Max(t) \in 1 .. n /\ t \ {Max(t)} \in SUBSET (1 .. n)
  BY MaxUpto
<1> HIDE DEF step, f
<1>6. PICK it \in [SUBSET (1 .. n) -> Halves] : Folds(it, n, start, step)
  BY <1>2, <1>3, FoldExists
<1>7. ASSUME NEW t \in SUBSET (1 .. n)
      PROVE  it[t] = IF t = {} THEN start ELSE Halve(a, it[t \ {Max(t)}], c[Max(t)])
  BY <1>4, <1>5, <1>6 DEF Folds
<1>8. DOMAIN c = 1 .. n /\ {} \in SUBSET (1 .. n)
  OBVIOUS
<1>9. it = [t \in SUBSET DOMAIN c |-> IF t = {} THEN start ELSE Halve(a, it[t \ {Max(t)}], c[Max(t)])]
  BY <1>7, <1>8
<1>10. f = [t \in SUBSET DOMAIN c |-> IF t = {} THEN start ELSE Halve(a, f[t \ {Max(t)}], c[Max(t)])]
  BY <1>9 DEF f
<1>11. f[{}] = start
  BY <1>8, <1>10
<1>12. ASSUME NEW t \in (SUBSET (1 .. n)) \ {{}}, f[t \ {Max(t)}] \in Halves
       PROVE  f[t] = step[<<f[t \ {Max(t)}], Max(t)>>]
  <2>1. f[t] = Halve(a, f[t \ {Max(t)}], c[Max(t)])
    BY <1>8, <1>10
  <2> QED
    BY <1>4, <1>5, <1>12, <2>1
<1>13. IsFold(f, n, Halves, start, step)
  BY <1>11, <1>12 DEF IsFold
<1>14. PICK g : Runs(g, n, Halves, start, step, Result(f, n))
  BY <1>2, <1>3, <1>13, FoldChain
<1>15. ASSUME NEW k \in 1 .. n PROVE g[k] = Halve(a, g[k - 1], c[k])
  <2>1. k - 1 \in 0 .. n
    OBVIOUS
  <2> QED
    BY <1>4, <1>14, <2>1 DEF Runs
<1>16. g \in [0 .. n -> Halves] /\ g[0] = start
         /\ g[n] = FoldLeft(LAMBDA acc, x : Halve(a, acc, x), start, c)
  BY <1>1, <1>8, <1>14 DEF Runs, Result
<1> QED
  BY <1>15, <1>16 DEF HalveRun

\* One more element doubles the power.
LEMMA DoublePower ==
  ASSUME NEW S, IsFiniteSet(S), NEW x, x \notin S
  PROVE  /\ 2^Cardinality(S \cup {x}) = 2 * 2^Cardinality(S)
         /\ 2^Cardinality(S) \in Nat
<1> DEFINE P == SUBSET S
           Q == {T \cup {x} : T \in P}
           h == [T \in P |-> T \cup {x}]
<1>1. IsFiniteSet(P) /\ Cardinality(P) = 2^Cardinality(S) /\ 2^Cardinality(S) \in Nat
  BY PowerOfTwo
<1>2. IsFiniteSet(Q) /\ Cardinality(Q) = Cardinality(P)
  <2>1. \A T \in P : h[T] = T \cup {x} /\ h[T] \in Q /\ x \notin T
    OBVIOUS
  <2>2. \A t \in Q : \E T \in P : h[T] = t
    OBVIOUS
  <2>3. \A T, U \in P : h[T] = h[U] => T = U
    <3> SUFFICES ASSUME NEW T \in P, NEW U \in P, h[T] = h[U] PROVE T = U
      OBVIOUS
    <3>1. T \cup {x} = U \cup {x} /\ x \notin T /\ x \notin U
      BY <2>1
    <3> QED
      BY <3>1
  <2>4. h \in [P -> Q]
    BY <2>1
  <2> HIDE DEF P, Q, h
  <2> QED
    BY <1>1, <2>2, <2>3, <2>4, SameCardinality
<1>3. P \cap Q = {}
  OBVIOUS
<1>4. SUBSET (S \cup {x}) = P \cup Q
  <2>1. ASSUME NEW T \in SUBSET (S \cup {x}), x \in T PROVE T \in Q
    <3>1. T \ {x} \in P /\ T = (T \ {x}) \cup {x}
      BY <2>1
    <3> QED
      BY <3>1
  <2>2. ASSUME NEW T \in SUBSET (S \cup {x}), x \notin T PROVE T \in P
    BY <2>2
  <2>3. P \cup Q \subseteq SUBSET (S \cup {x})
    OBVIOUS
  <2> HIDE DEF P, Q
  <2> QED
    BY <2>1, <2>2, <2>3
<1>5. Cardinality(P \cup Q) = 2 * 2^Cardinality(S)
  <2> HIDE DEF P, Q, h
  <2>1. Cardinality(P \cup Q) = Cardinality(P) + Cardinality(Q)
    BY <1>1, <1>2, <1>3, AddDisjoint
  <2> QED
    BY <1>1, <1>2, <2>1
<1>6. IsFiniteSet(S \cup {x})
  BY FS_AddElement
<1>7. Cardinality(SUBSET (S \cup {x})) = 2^Cardinality(S \cup {x})
  BY <1>6, PowerOfTwo
<1> HIDE DEF P, Q, h
<1> QED
  BY <1>1, <1>4, <1>5, <1>7

\* The variables before and after the k-th, and what holds in between.
Done(c, k) == {c[j] : j \in 1 .. k}
Open(a, n, c, k) == {x \in {c[j] : j \in k + 1 .. n} : x \notin a /\ -x \notin a}
HalveInv(a, w, n, c, k, acc) ==
  /\ acc \in Halves
  /\ acc.count = w * 2^Cardinality(Open(a, n, c, k))
  /\ acc.id \in 1 .. acc.count
  /\ acc.lits = Signs(Done(c, k), acc.lits)
  /\ \A x \in Done(c, k) : (x \in a => x \in acc.lits) /\ (-x \in a => x \notin acc.lits)

\* The variables done and those still open around the k-th.
LEMMA OpenFacts ==
  ASSUME NEW a, NEW n \in Nat, NEW c \in [1 .. n -> Nat \ {0}], NEW k \in 1 .. n,
         \A i, j \in 1 .. n : i # j => c[i] # c[j]
  PROVE  /\ IsFiniteSet(Open(a, n, c, k))
         /\ c[k] \notin Open(a, n, c, k) /\ c[k] \notin Done(c, k - 1)
         /\ Open(a, n, c, k - 1) = IF c[k] \notin a /\ -c[k] \notin a
                                   THEN Open(a, n, c, k) \cup {c[k]} ELSE Open(a, n, c, k)
         /\ Done(c, k) = Done(c, k - 1) \cup {c[k]}
         /\ Done(c, k) \in SUBSET (Nat \ {0})
<1>1. /\ \A j \in k + 1 .. n : j \in 1 .. n /\ j # k
      /\ \A j \in 1 .. k - 1 : j \in 1 .. n /\ j # k /\ j \in 1 .. k
      /\ k \in 1 .. k /\ k \in k - 1 + 1 .. n
      /\ \A j \in 1 .. k : j = k \/ j \in 1 .. k - 1
      /\ \A j \in k - 1 + 1 .. n : j = k \/ j \in k + 1 .. n
      /\ \A j \in k + 1 .. n : j \in k - 1 + 1 .. n
  OBVIOUS
<1>2. c[k] \notin Open(a, n, c, k) /\ c[k] \notin Done(c, k - 1)
  BY <1>1 DEF Open, Done
<1>3. Done(c, k) = Done(c, k - 1) \cup {c[k]}
  BY <1>1 DEF Done
<1>4. {c[j] : j \in k - 1 + 1 .. n} = {c[j] : j \in k + 1 .. n} \cup {c[k]}
  BY <1>1
<1>5. Open(a, n, c, k - 1) = IF c[k] \notin a /\ -c[k] \notin a
                             THEN Open(a, n, c, k) \cup {c[k]} ELSE Open(a, n, c, k)
  BY <1>4 DEF Open
<1>6. IsFiniteSet(Open(a, n, c, k))
  <2> DEFINE D == 1 .. n
             R == {c[j] : j \in D}
  <2>1. c \in Surjection(D, R)
    BY DEF Surjection
  <2>2. IsFiniteSet(D)
    BY FS_Interval
  <2>3. Open(a, n, c, k) \subseteq R
    BY <1>1 DEF Open
  <2> HIDE DEF D, R
  <2>4. IsFiniteSet(R)
    BY <2>1, <2>2, FS_Surjection
  <2> QED
    BY <2>3, <2>4, FS_Subset
<1>7. Done(c, k) \in SUBSET (Nat \ {0})
  BY <1>1 DEF Done
<1> QED
  BY <1>2, <1>3, <1>5, <1>6, <1>7

\* What a step of the loop does to the literals, and to the id.
Undone(a, half, x, acc, r) ==
  /\ x \notin acc.lits /\ -x \notin acc.lits
  /\ r.lits \in {acc.lits \cup {x}, acc.lits \cup {-x}}
  /\ acc.id = IF (x \notin a /\ -x \notin a) /\ x \notin r.lits THEN r.id + half ELSE r.id

\* A step keeps the id in its range, and says what it did.
LEMMA HalveCases ==
  ASSUME NEW a, Cube(a), NEW w \in Nat, NEW n \in Nat, NEW c \in [1 .. n -> Nat \ {0}], NEW k \in 1 .. n,
         \A i, j \in 1 .. n : i # j => c[i] # c[j],
         NEW acc, HalveInv(a, w, n, c, k - 1, acc)
  PROVE  /\ HalveInv(a, w, n, c, k, Halve(a, acc, c[k]))
         /\ Undone(a, w * 2^Cardinality(Open(a, n, c, k)), c[k], acc, Halve(a, acc, c[k]))
<1>0. /\ IsFiniteSet(Open(a, n, c, k))
      /\ c[k] \notin Open(a, n, c, k) /\ c[k] \notin Done(c, k - 1)
      /\ Open(a, n, c, k - 1) = IF c[k] \notin a /\ -c[k] \notin a
                                THEN Open(a, n, c, k) \cup {c[k]} ELSE Open(a, n, c, k)
      /\ Done(c, k) = Done(c, k - 1) \cup {c[k]}
      /\ Done(c, k) \in SUBSET (Nat \ {0})
  BY OpenFacts
<1> DEFINE x == c[k]
           r == Halve(a, acc, x)
           O == Open(a, n, c, k)
           p == 2^Cardinality(O)
           half == w * p
           open == x \notin a /\ -x \notin a
<1>1. x \in Nat \ {0} /\ x \in Int /\ -x \in Int /\ x # -x
  OBVIOUS
<1>2. acc \in Halves /\ acc.count = w * 2^Cardinality(Open(a, n, c, k - 1)) /\ acc.id \in 1 .. acc.count
  BY DEF HalveInv
<1>3. IsFiniteSet(O) /\ x \notin O /\ x \notin Done(c, k - 1)
      /\ Open(a, n, c, k - 1) = (IF open THEN O \cup {x} ELSE O)
  BY <1>0
<1>4. Done(c, k) = Done(c, k - 1) \cup {x} /\ Done(c, k - 1) \in SUBSET (Nat \ {0})
  <2>1. Done(c, k - 1) \subseteq Done(c, k)
    BY <1>0
  <2> QED
    BY <1>0, <2>1
<1>5. p \in Nat /\ 2^Cardinality(O \cup {x}) = 2 * p
  BY <1>3, DoublePower
<1>6. half \in Nat /\ acc.count = IF open THEN 2 * half ELSE half
  <2>1. half \in Nat
    <3> HIDE DEF p
    <3> QED
      BY <1>5
  <2>2. open => acc.count = w * (2 * p)
    BY <1>2, <1>3, <1>5
  <2>3. w * (2 * p) = 2 * (w * p)
    <3> HIDE DEF p
    <3> QED
      BY <1>5
  <2>4. ~open => acc.count = half
    BY <1>2, <1>3
  <2> QED
    BY <2>1, <2>2, <2>3, <2>4
<1>7. acc.lits = Signs(Done(c, k - 1), acc.lits)
  BY DEF HalveInv
<1>8. \A l \in acc.lits : l \in Int /\ (l \in Done(c, k - 1) \/ -l \in Done(c, k - 1))
  <2> DEFINE R == Done(c, k - 1)
  <2>1. R \in SUBSET (Nat \ {0})
    BY <1>4
  <2> HIDE DEF R, x, r, O, half, open, p
  <2>2. \A l \in Signs(R, acc.lits) : l \in Int \ {0} /\ (l \in R \/ -l \in R)
    <3> DEFINE T == acc.lits
    <3> HIDE DEF T
    <3>1. \A l \in Signs(R, T) : l \in Int \ {0} /\ (l \in R \/ -l \in R)
      BY <2>1, SignFacts
    <3> QED
      BY <3>1 DEF T
  <2>3. acc.lits = Signs(R, acc.lits)
    BY <1>7 DEF R
  <2>4. \A l \in acc.lits : l \in Int \ {0} /\ (l \in R \/ -l \in R)
    BY <2>2, <2>3
  <2> QED
    BY <2>4 DEF R
<1>9. x \notin acc.lits /\ -x \notin acc.lits
  <2>1. -(-x) = x /\ -x \notin Nat
    BY <1>1
  <2> QED
    BY <1>3, <1>4, <1>8, <2>1
<1> HIDE DEF x, half, open, O
<1>10. Apart({x}, a) <=> open
  BY DEF Apart, open
<1>11. \E y \in {x, -x} :
         /\ r.lits = acc.lits \cup {y} /\ (x \in a => y = x) /\ (-x \in a => y = -x)
         /\ r.count = half /\ r.id \in 1 .. half
         /\ acc.id = IF open /\ y = -x THEN r.id + half ELSE r.id
  <2>1. CASE ~open
    <3> DEFINE y == IF x \in a THEN x ELSE -x
    <3>1. r = [acc EXCEPT !.lits = acc.lits \cup {y}]
      BY <1>10, <2>1 DEF Halve
    <3>2. r.id = acc.id /\ r.count = acc.count /\ r.lits = acc.lits \cup {y}
      BY <1>2, <3>1 DEF Halves
    <3>3. ~(x \in a /\ -x \in a)
      <4>1. \A l \in a : -l \notin a
        BY DEF Cube, Conflicts
      <4> QED
        BY <4>1
    <3>4. (x \in a => y = x) /\ (-x \in a => y = -x) /\ y \in {x, -x}
      BY <3>3
    <3>5. r.count = half /\ r.id \in 1 .. half
      BY <1>2, <1>6, <2>1, <3>2
    <3> HIDE DEF y, r
    <3> QED
      BY <2>1, <3>2, <3>4, <3>5
  <2>2. CASE open
    <3>1. acc.count = 2 * half /\ acc.count \div 2 = half /\ acc.id \in Int
      BY <1>2, <1>6, <2>2 DEF Halves
    <3>2. CASE acc.id <= half
      <4>1. r = [id |-> acc.id, count |-> half, lits |-> acc.lits \cup {x}]
        BY <1>10, <2>2, <3>1, <3>2 DEF Halve
      <4>2. r.id = acc.id /\ r.count = half /\ r.lits = acc.lits \cup {x}
        BY <4>1
      <4>3. r.id \in 1 .. half
        BY <1>2, <1>6, <3>2, <4>2
      <4> HIDE DEF r
      <4> QED
        BY <1>1, <2>2, <4>2, <4>3 DEF open
    <3>3. CASE ~(acc.id <= half)
      <4>1. r = [id |-> acc.id - half, count |-> half, lits |-> acc.lits \cup {-x}]
        BY <1>10, <2>2, <3>1, <3>3 DEF Halve
      <4>2. r.id = acc.id - half /\ r.count = half /\ r.lits = acc.lits \cup {-x}
        BY <4>1
      <4>3. r.id \in 1 .. half /\ acc.id = r.id + half
        BY <1>2, <1>6, <3>1, <3>3, <4>2
      <4> HIDE DEF r
      <4> QED
        BY <1>1, <2>2, <4>2, <4>3 DEF open
    <3> QED
      BY <3>2, <3>3
  <2> QED
    BY <2>1, <2>2
<1>12. PICK y \in {x, -x} :
         /\ r.lits = acc.lits \cup {y} /\ (x \in a => y = x) /\ (-x \in a => y = -x)
         /\ r.count = half /\ r.id \in 1 .. half
         /\ acc.id = IF open /\ y = -x THEN r.id + half ELSE r.id
  BY <1>11
<1>13. r \in Halves
  BY <1>1, <1>2, HalveType
<1> HIDE DEF r
<1>14. (x \in r.lits <=> y = x) /\ \A z \in Done(c, k - 1) : z \in r.lits <=> z \in acc.lits
  <2>1. x # -x /\ x \in Nat \ {0} /\ -x \notin Nat
    BY <1>1
  <2>2. \A z \in Done(c, k - 1) : z # x /\ z # -x
    BY <1>3, <1>4, <2>1
  <2> QED
    BY <1>9, <1>12, <2>1, <2>2
<1>15. r.lits = Signs(Done(c, k), r.lits)
  <2>1. Signs(Done(c, k), r.lits) = Signs(Done(c, k - 1), r.lits) \cup {IF x \in r.lits THEN x ELSE -x}
    BY <1>4 DEF Signs
  <2>2. Signs(Done(c, k - 1), r.lits) = Signs(Done(c, k - 1), acc.lits)
    BY <1>14, SignsEqual
  <2>3. (IF x \in r.lits THEN x ELSE -x) = y
    BY <1>12, <1>14
  <2> QED
    BY <1>7, <1>12, <2>1, <2>2, <2>3
<1>16. \A z \in Done(c, k) : (z \in a => z \in r.lits) /\ (-z \in a => z \notin r.lits)
  <2>1. \A z \in Done(c, k - 1) : (z \in a => z \in acc.lits) /\ (-z \in a => z \notin acc.lits)
    BY DEF HalveInv
  <2>2. (x \in a => x \in r.lits) /\ (-x \in a => x \notin r.lits)
    BY <1>1, <1>12, <1>14
  <2> QED
    BY <1>4, <1>14, <2>1, <2>2
<1>17. HalveInv(a, w, n, c, k, r)
  BY <1>12, <1>13, <1>15, <1>16 DEF HalveInv, half, O
<1>18. acc.id = IF open /\ x \notin r.lits THEN r.id + half ELSE r.id
  BY <1>1, <1>12, <1>14
<1>19. r.lits \in {acc.lits \cup {x}, acc.lits \cup {-x}}
  BY <1>12
<1> QED
  BY <1>9, <1>17, <1>18, <1>19 DEF Undone, x, r, half, open, O


\* The same id and the same literals.
Agree(r, t) == r.id = t.id /\ r.lits = t.lits

\* A step can be undone: two ids that give the same were the same.
LEMMA HalveBack ==
  ASSUME NEW a, Cube(a), NEW w \in Nat, NEW n \in Nat, NEW c \in [1 .. n -> Nat \ {0}], NEW k \in 1 .. n,
         \A i, j \in 1 .. n : i # j => c[i] # c[j],
         NEW acc, HalveInv(a, w, n, c, k - 1, acc),
         NEW acd, HalveInv(a, w, n, c, k - 1, acd),
         Agree(Halve(a, acc, c[k]), Halve(a, acd, c[k]))
  PROVE  Agree(acc, acd)
<1> DEFINE x == c[k]
           r == Halve(a, acc, x)
           half == w * 2^Cardinality(Open(a, n, c, k))
           t == Halve(a, acd, x)
<1>1. Undone(a, half, x, acc, r) /\ Undone(a, half, x, acd, t)
  BY HalveCases
<1>2. r.id = t.id /\ r.lits = t.lits
  BY DEF Agree
<1> HIDE DEF x, r, half, t
<1>3. acc.lits = r.lits \ {x, -x} /\ acd.lits = t.lits \ {x, -x}
  BY <1>1 DEF Undone
<1> QED
  BY <1>1, <1>2, <1>3 DEF Undone, Agree

\* The ids an edge hands down to its target, whose count is w.
Handed(q, e, a, w) == IF q.count = "pc" THEN w ELSE w * 2^Cardinality(FreeUnder(e, a))

\* The loop over the free variables of e for the id i.
HalvedRun(g, q, e, a, w, i) ==
  LET L == Len(e.free)
  IN  /\ L \in Nat /\ e.free \in [1 .. L -> Nat \ {0}] /\ Range(e.free) = Done(e.free, L)
      /\ \A x, y \in 1 .. L : x # y => e.free[x] # e.free[y]
      /\ g[0].id = i /\ g[0].lits = {}
      /\ g[L] = Halved(q, e, a, i, Handed(q, e, a, w))
      /\ \A j \in 1 .. L : g[j] = Halve(a, g[j - 1], e.free[j])
      /\ \A j \in 0 .. L : HalveInv(a, w, L, e.free, j, g[j])

\* The loop goes through states in which the id is in its range.
LEMMA HalvedRuns ==
  ASSUME NEW q, IsQuery(q), NEW n \in DOMAIN q.circuit, NEW k \in DOMAIN q.circuit[n].children,
         q.count = "mc", NEW a, Cube(a), NEW w \in Nat,
         NEW i \in 1 .. Handed(q, q.circuit[n].children[k], a, w)
  PROVE  \E g : HalvedRun(g, q, q.circuit[n].children[k], a, w, i)
<1> DEFINE e == q.circuit[n].children[k]
           c == e.free
           L == Len(c)
           count == Handed(q, e, a, w)
           start == [id |-> i, count |-> count, lits |-> {}]
<1>1. c \in Seq(Nat \ {0}) /\ IsInjective(c)
  BY EdgeFacts
<1>2. L \in Nat /\ DOMAIN c = 1 .. L /\ c \in [1 .. L -> Nat \ {0}]
  BY <1>1
<1>3. \A x, y \in 1 .. L : x # y => c[x] # c[y]
  BY <1>1, <1>2 DEF IsInjective
<1>4. Range(c) = Done(c, L)
  BY <1>2 DEF Range, Done
<1>5. Open(a, L, c, 0) = FreeUnder(e, a)
  BY <1>2, <1>4 DEF Open, Done, FreeUnder, Apart
<1>6. count = w * 2^Cardinality(FreeUnder(e, a))
  BY DEF Handed
<1>7. count \in Nat /\ i \in Int
  <2>1. IsFiniteSet(FreeUnder(e, a))
    <3>1. FreeUnder(e, a) \subseteq Range(c) /\ IsFiniteSet(Range(c))
      BY FreeFacts DEF FreeUnder
    <3> QED
      BY <3>1, FS_Subset
  <2> DEFINE p == 2^Cardinality(FreeUnder(e, a))
  <2>2. p \in Nat
    BY <2>1, PowerOfTwo
  <2>3. count = w * p
    BY <1>6
  <2> HIDE DEF p, count
  <2> QED
    BY <2>2, <2>3
<1>8. start \in Halves
  BY <1>7 DEF Halves
<1>9. start.id = i /\ start.count = count /\ start.lits = {}
  OBVIOUS
<1>10. HalveInv(a, w, L, c, 0, start)
  <2>1. Done(c, 0) = {}
    BY DEF Done
  <2>2. Signs({}, {}) = {}
    BY DEF Signs
  <2>3. start.count = w * 2^Cardinality(Open(a, L, c, 0))
    BY <1>5, <1>6
  <2> QED
    BY <1>8, <1>9, <2>1, <2>2, <2>3 DEF HalveInv
<1>11. Halved(q, e, a, i, count) = FoldLeft(LAMBDA acc, x : Halve(a, acc, x), start, c)
  BY DEF Halved
<1> HIDE DEF start, L, c, count
<1>12. PICK g : HalveRun(g, a, L, c, start)
  BY <1>2, <1>8, HalveFold
<1>13. /\ g[0] = start /\ g[L] = Halved(q, e, a, i, count)
       /\ \A j \in 1 .. L : g[j] = Halve(a, g[j - 1], c[j])
  BY <1>11, <1>12 DEF HalveRun
<1> DEFINE F == {j \in 0 .. L : HalveInv(a, w, L, c, j, g[j])}
<1>14. 0 \in F
  BY <1>2, <1>10, <1>13
<1>15. ASSUME NEW j \in 1 .. L, j - 1 \in F PROVE j \in F
  <2>1. HalveInv(a, w, L, c, j - 1, g[j - 1])
    BY <1>15
  <2>2. HalveInv(a, w, L, c, j, Halve(a, g[j - 1], c[j]))
    BY <1>2, <1>3, <2>1, HalveCases
  <2> QED
    BY <1>2, <1>13, <2>2
<1>16. \A j \in 0 .. L : j \in F
  <2>1. \A j \in 1 .. L : j - 1 \in F => j \in F
    BY <1>15
  <2> HIDE DEF F
  <2> QED
    BY <1>2, <1>14, <2>1, CountUp
<1>17. \A j \in 0 .. L : HalveInv(a, w, L, c, j, g[j])
  BY <1>16
<1>18. HalvedRun(g, q, e, a, w, i)
  <2>1. g[0].id = i /\ g[0].lits = {}
    BY <1>9, <1>13
  <2> HIDE DEF e
  <2> QED
    BY <1>2, <1>3, <1>4, <1>13, <1>17, <2>1 DEF HalvedRun, L, c, count
<1> QED
  BY <1>18

\* What the edge makes of an id: an id of its target, and free literals under the cube.
LEMMA HalvedFacts ==
  ASSUME NEW q, IsQuery(q), NEW n \in DOMAIN q.circuit, NEW k \in DOMAIN q.circuit[n].children,
         NEW a, Cube(a), NEW w \in Nat,
         NEW i \in 1 .. Handed(q, q.circuit[n].children[k], a, w)
  PROVE  LET e == q.circuit[n].children[k]
             h == Halved(q, e, a, i, Handed(q, e, a, w))
         IN  h.id \in 1 .. w /\ h.lits \in ChoicesUnder(q, e, a)
<1> DEFINE e == q.circuit[n].children[k]
           h == Halved(q, e, a, i, Handed(q, e, a, w))
<1>1. CASE q.count = "pc"
  <2>1. Handed(q, e, a, w) = w
    BY <1>1 DEF Handed
  <2>2. h = [id |-> i, count |-> w, lits |-> {}]
    BY <1>1, <2>1 DEF Halved
  <2>3. FreeChoices(q, e) = {{}}
    BY <1>1, FreeFacts
  <2> HIDE DEF e
  <2>4. h.id = i /\ h.lits = {}
    BY <2>2
  <2>5. {} \in ChoicesUnder(q, e, a)
    BY <2>3 DEF ChoicesUnder, Conflicts
  <2> QED
    BY <2>1, <2>4, <2>5 DEF e
<1>2. CASE q.count = "mc"
  <2> DEFINE L == Len(e.free)
             R == Range(e.free)
  <2>1. PICK g : HalvedRun(g, q, e, a, w, i)
    BY <1>2, HalvedRuns
  <2> HIDE DEF e, h
  <2>2. L \in Nat /\ R = Done(e.free, L) /\ g[L] = h /\ HalveInv(a, w, L, e.free, L, g[L])
    BY <2>1 DEF HalvedRun, h
  <2>3. Open(a, L, e.free, L) = {}
    BY <2>2 DEF Open
  <2>4. 2^Cardinality({}) = 1
    <3>1. Cardinality(SUBSET {}) = 2^Cardinality({}) /\ SUBSET {} = {{}}
      BY FS_EmptySet, PowerOfTwo
    <3>2. Cardinality({{}}) = 1
      BY FS_Singleton
    <3> QED
      BY <3>1, <3>2
  <2>5. h.count = w /\ h.id \in 1 .. w
    BY <2>2, <2>3, <2>4 DEF HalveInv
  <2>6. /\ h.lits = Signs(R, h.lits)
        /\ \A x \in R : (x \in a => x \in h.lits) /\ (-x \in a => x \notin h.lits)
    BY <2>2 DEF HalveInv
  <2>7. R \in SUBSET (Nat \ {0}) /\ FreeChoices(q, e) = {Signs(R, T) : T \in SUBSET R}
    BY ZenonT(40), <1>2, FreeFacts DEF e
  <2> HIDE DEF R
  <2>8. h.lits \in FreeChoices(q, e)
    <3> DEFINE T == h.lits \cap R
    <3>1. Signs(R, T) = Signs(R, h.lits)
      BY SignsEqual
    <3>2. T \in SUBSET R
      OBVIOUS
    <3> QED
      BY <2>6, <2>7, <3>1, <3>2
  <2>9. ASSUME NEW l \in h.lits, -l \in a PROVE FALSE
    <3> DEFINE T == h.lits
    <3>1. l \in Signs(R, T)
      BY <2>6
    <3>2. \A x \in R : (x \in T => x \in Signs(R, T)) /\ (-x \in T <=> x \notin T)
      <4> HIDE DEF T
      <4>1. \A x \in R : (x \in Signs(R, T) <=> x \in T) /\ (-x \in Signs(R, T) <=> x \notin T)
        BY <2>7, SignFacts
      <4>2. T = Signs(R, T)
        BY <2>6 DEF T
      <4> QED
        BY <4>1, <4>2
    <3>3. l \in Int /\ (l \in R \/ -l \in R) /\ l = -(-l)
      <4> HIDE DEF T
      <4>1. l \in Int \ {0} /\ (l \in R \/ -l \in R)
        BY <2>7, <3>1, SignFacts
      <4> QED
        BY <4>1
    <3>4. CASE l \in R
      BY <2>6, <2>9, <3>4
    <3>5. CASE -l \in R
      <4>1. -l \in h.lits
        BY <2>6, <2>9, <3>5
      <4> QED
        BY <2>9, <3>2, <3>3, <3>5, <4>1
    <3> QED
      BY <3>3, <3>4, <3>5
  <2>10. h.lits \in ChoicesUnder(q, e, a)
    BY <2>8, <2>9 DEF ChoicesUnder, Conflicts
  <2> QED
    BY <2>5, <2>10 DEF e, h
<1> QED
  BY <1>1, <1>2, CircuitFacts

\* Different ids of an edge differ in the literals or in the id handed down.
LEMMA HalvedInjective ==
  ASSUME NEW q, IsQuery(q), NEW n \in DOMAIN q.circuit, NEW k \in DOMAIN q.circuit[n].children,
         NEW a, Cube(a), NEW w \in Nat,
         NEW i \in 1 .. Handed(q, q.circuit[n].children[k], a, w),
         NEW j \in 1 .. Handed(q, q.circuit[n].children[k], a, w),
         Agree(Halved(q, q.circuit[n].children[k], a, i, Handed(q, q.circuit[n].children[k], a, w)),
               Halved(q, q.circuit[n].children[k], a, j, Handed(q, q.circuit[n].children[k], a, w)))
  PROVE  i = j
<1> DEFINE e == q.circuit[n].children[k]
           c == e.free
           L == Len(c)
           count == Handed(q, e, a, w)
           h == Halved(q, e, a, i, count)
           l == Halved(q, e, a, j, count)
<1>1. h.id = l.id /\ h.lits = l.lits
  BY DEF Agree
<1>2. CASE q.count = "pc"
  <2>1. h.id = i /\ l.id = j
    BY <1>2 DEF Halved
  <2> QED
    BY <1>1, <2>1
<1>3. CASE q.count = "mc"
  <2>1. PICK g : HalvedRun(g, q, e, a, w, i)
    BY <1>3, HalvedRuns
  <2>2. PICK f : HalvedRun(f, q, e, a, w, j)
    BY <1>3, HalvedRuns
  <2> HIDE DEF e
  <2>3. /\ L \in Nat /\ c \in [1 .. L -> Nat \ {0}] /\ \A x, y \in 1 .. L : x # y => c[x] # c[y]
        /\ g[0].id = i /\ g[L] = h /\ f[0].id = j /\ f[L] = l
        /\ \A x \in 1 .. L : g[x] = Halve(a, g[x - 1], c[x]) /\ f[x] = Halve(a, f[x - 1], c[x])
        /\ \A x \in 0 .. L : HalveInv(a, w, L, c, x, g[x]) /\ HalveInv(a, w, L, c, x, f[x])
    BY <2>1, <2>2 DEF HalvedRun
  <2> HIDE DEF c, L, h, l
  <2> DEFINE F == {x \in 0 .. L : g[L - x].id = f[L - x].id /\ g[L - x].lits = f[L - x].lits}
  <2>4. 0 \in F
    <3>1. L - 0 = L
      BY <2>3
    <3> QED
      BY <1>1, <2>3, <3>1
  <2>5. ASSUME NEW x \in 1 .. L, x - 1 \in F PROVE x \in F
    <3>0. L \in Nat /\ L - (x - 1) \in 1 .. L
      BY <2>3
    <3>1. PICK m \in 1 .. L : m = L - (x - 1)
      BY <3>0
    <3>2. m - 1 \in 0 .. L /\ m - 1 = L - x /\ x \in 0 .. L
      BY <3>0, <3>1
    <3>3. g[m].id = f[m].id /\ g[m].lits = f[m].lits
      BY <2>5, <3>1
    <3>4. /\ HalveInv(a, w, L, c, m - 1, g[m - 1]) /\ HalveInv(a, w, L, c, m - 1, f[m - 1])
          /\ g[m] = Halve(a, g[m - 1], c[m]) /\ f[m] = Halve(a, f[m - 1], c[m])
      BY <2>3, <3>2
    <3>5. Agree(Halve(a, g[m - 1], c[m]), Halve(a, f[m - 1], c[m]))
      BY <3>3, <3>4 DEF Agree
    <3>6. L \in Nat /\ c \in [1 .. L -> Nat \ {0}] /\ \A y, z \in 1 .. L : y # z => c[y] # c[z]
      BY <2>3
    <3> HIDE DEF F
    <3>7. Agree(g[m - 1], f[m - 1])
      BY ONLY Cube(a), w \in Nat, <3>4, <3>5, <3>6, HalveBack
    <3> QED
      BY <3>2, <3>7 DEF Agree, F
  <2>6. L \in F
    <3>1. \A x \in 1 .. L : x - 1 \in F => x \in F
      BY <2>5
    <3>2. L \in Nat /\ L \in 0 .. L
      BY <2>3
    <3> HIDE DEF F
    <3>3. \A x \in 0 .. L : x \in F
      BY <2>4, <3>1, <3>2, CountUp
    <3> QED
      BY <3>2, <3>3
  <2>7. L - L = 0
    BY <2>3
  <2> QED
    BY <2>3, <2>6, <2>7
<1> QED
  BY <1>2, <1>3, CircuitFacts

-----------------------------------------------------------------------------
(* An And writes an id in the mixed base of the counts of its children *)

\* A product of sequence entries is positive only if all of them are.
LEMMA ProductPositive ==
  ASSUME NEW n \in Nat, NEW c \in [1 .. n -> Nat], ProductOf(c) # 0
  PROVE  c \in [1 .. n -> Nat \ {0}]
<1>1. PICK p \in [0 .. n -> Nat] :
        p[0] = 1 /\ p[n] = ProductOf(c) /\ \A k \in 1 .. n : p[k] = p[k - 1] * c[k]
  BY ProductFold
<1>2. ASSUME NEW k \in 1 .. n, c[k] = 0 PROVE FALSE
  <2> DEFINE F == {m \in 0 .. n : m >= k => p[m] = 0}
  <2>1. 0 \in F
    OBVIOUS
  <2>2. ASSUME NEW m \in 1 .. n, m - 1 \in F PROVE m \in F
    <3>1. p[m] = p[m - 1] * c[m] /\ p[m - 1] \in Nat /\ c[m] \in Nat
      BY <1>1
    <3>2. m - 1 >= k => p[m - 1] = 0
      BY <2>2
    <3>3. CASE m = k
      <4>1. p[m] = p[m - 1] * 0
        BY <1>2, <3>1, <3>3
      <4> QED
        BY <3>1, <3>3, <4>1
    <3>4. CASE m > k
      <4>1. p[m] = 0 * c[m]
        BY <3>1, <3>2, <3>4
      <4> QED
        BY <3>1, <3>4, <4>1
    <3>5. CASE m < k
      BY <3>5
    <3> QED
      BY <3>3, <3>4, <3>5
  <2>3. \A m \in 0 .. n : m \in F
    <3>1. \A m \in 1 .. n : m - 1 \in F => m \in F
      BY <2>2
    <3> HIDE DEF F
    <3> QED
      BY <2>1, <3>1, CountUp
  <2>4. p[n] = 0
    <3>1. n \in F
      BY <2>3
    <3> QED
      BY <3>1
  <2> QED
    BY <1>1, <2>4
<1>3. \A k \in 1 .. n : c[k] \in Nat \ {0}
  BY <1>2
<1> QED
  BY <1>3

\* The rest of an id and the pairs so far.
Spreads(q) == (Nat \ {0}) \X Seq((Nat \ {0}) \X DOMAIN q.circuit)
SpreadStep(q, m, a, acc, e) ==
  LET d == Digit(acc[1], EdgeCount(q, m, e, a)) IN <<d[2], Append(acc[2], <<d[1], e.dst>>)>>

\* A digit is in its base, and the id can be read back.
LEMMA DigitFacts ==
  ASSUME NEW i \in Nat \ {0}, NEW n \in Nat \ {0}
  PROVE  /\ Digit(i, n)[1] \in 1 .. n /\ Digit(i, n)[2] \in Nat \ {0}
         /\ i - 1 = n * (Digit(i, n)[2] - 1) + (Digit(i, n)[1] - 1)
         /\ n * (Digit(i, n)[2] - 1) <= i - 1
<1> DEFINE j == i - 1
           r == j % n
           d == j \div n
<1>1. j \in Nat /\ n \in Nat /\ n > 0
  OBVIOUS
<1> HIDE DEF j
<1>2. r \in 0 .. n - 1 /\ d \in Nat /\ j = n * d + r
  BY <1>1
<1>3. Digit(i, n) = <<r + 1, d + 1>>
  BY DEF Digit, j
<1> HIDE DEF r, d
<1>4. r + 1 \in 1 .. n /\ d + 1 \in Nat \ {0} /\ d + 1 - 1 = d /\ r + 1 - 1 = r
  BY <1>1, <1>2
<1>5. Digit(i, n)[1] = r + 1 /\ Digit(i, n)[2] = d + 1
  BY <1>3
<1>6. n * d <= j
  <2> DEFINE y == n * d
  <2>1. y \in Nat /\ j = y + r
    BY <1>1, <1>2
  <2> HIDE DEF y
  <2> QED
    BY <1>2, <2>1 DEF y
<1> QED
  BY <1>2, <1>4, <1>5, <1>6 DEF j

\* A digit more keeps the types.
LEMMA SpreadType ==
  ASSUME NEW q, NEW m, NEW a, NEW acc \in Spreads(q), NEW e,
         e.dst \in DOMAIN q.circuit, EdgeCount(q, m, e, a) \in Nat \ {0}
  PROVE  SpreadStep(q, m, a, acc, e) \in Spreads(q)
<1> DEFINE d == Digit(acc[1], EdgeCount(q, m, e, a))
           P == (Nat \ {0}) \X DOMAIN q.circuit
<1>1. acc[1] \in Nat \ {0} /\ acc[2] \in Seq(P)
  BY DEF Spreads
<1>2. d[1] \in Nat \ {0} /\ d[2] \in Nat \ {0}
  <2>1. d[1] \in 1 .. EdgeCount(q, m, e, a) /\ d[2] \in Nat \ {0}
    BY <1>1, DigitFacts
  <2> QED
    BY <2>1
<1>3. SpreadStep(q, m, a, acc, e) = <<d[2], Append(acc[2], <<d[1], e.dst>>)>>
  BY DEF SpreadStep
<1> HIDE DEF d
<1>4. <<d[1], e.dst>> \in P
  BY <1>2
<1>5. Append(acc[2], <<d[1], e.dst>>) \in Seq(P)
  <2> HIDE DEF P
  <2> QED
    BY <1>1, <1>4
<1> DEFINE S == Append(acc[2], <<d[1], e.dst>>)
<1>6. S \in Seq(P) /\ d[2] \in Nat \ {0} /\ SpreadStep(q, m, a, acc, e) = <<d[2], S>>
  BY <1>2, <1>3, <1>5
<1> HIDE DEF P, S
<1>7. <<d[2], S>> \in (Nat \ {0}) \X Seq(P)
  BY <1>6
<1> QED
  BY <1>6, <1>7 DEF Spreads, P


SpreadRun(g, q, m, a, n, c, i) ==
  /\ g \in [0 .. n -> Spreads(q)]
  /\ g[0] = <<i, <<>>>> /\ g[n] = FoldLeft(LAMBDA acc, e :
       LET d == Digit(acc[1], EdgeCount(q, m, e, a)) IN <<d[2], Append(acc[2], <<d[1], e.dst>>)>>, <<i, <<>>>>, c) /\ \A k \in 1 .. n : g[k] = SpreadStep(q, m, a, g[k - 1], c[k])

\* The pairs after every child of the And.
LEMMA SpreadFold ==
  ASSUME NEW q, NEW m, NEW a, NEW n \in Nat, NEW c, DOMAIN c = 1 .. n, NEW i \in Nat \ {0},
         \A k \in 1 .. n : c[k].dst \in DOMAIN q.circuit /\ EdgeCount(q, m, c[k], a) \in Nat \ {0}
  PROVE  \E g : SpreadRun(g, q, m, a, n, c, i)
<1> DEFINE f == CHOOSE it : it = [t \in SUBSET DOMAIN c |->
                  IF t = {} THEN <<i, <<>>>> ELSE SpreadStep(q, m, a, it[t \ {Max(t)}], c[Max(t)])]
           step == [x \in Spreads(q) \X (1 .. n) |-> SpreadStep(q, m, a, x[1], c[x[2]])]
<1>1. FoldLeft(LAMBDA acc, e : LET d == Digit(acc[1], EdgeCount(q, m, e, a)) IN <<d[2], Append(acc[2], <<d[1], e.dst>>)>>, <<i, <<>>>>, c) = f[DOMAIN c]
  BY DEF FoldLeft, MapThenFoldSet, SpreadStep
<1>2. <<i, <<>>>> \in Spreads(q) /\ \A x \in Spreads(q), k \in 1 .. n :
        SpreadStep(q, m, a, x, c[k]) \in Spreads(q)
  <2>1. <<>> \in Seq((Nat \ {0}) \X DOMAIN q.circuit)
    OBVIOUS
  <2>2. <<i, <<>>>> \in Spreads(q)
    BY <2>1 DEF Spreads
  <2>3. ASSUME NEW x \in Spreads(q), NEW k \in 1 .. n PROVE SpreadStep(q, m, a, x, c[k]) \in Spreads(q)
    <3> DEFINE e == c[k]
    <3>1. e.dst \in DOMAIN q.circuit /\ EdgeCount(q, m, e, a) \in Nat \ {0}
      OBVIOUS
    <3> HIDE DEF e
    <3> QED
      BY <3>1, SpreadType DEF e
  <2> QED
    BY <2>2, <2>3
<1>3. step \in [Spreads(q) \X (1 .. n) -> Spreads(q)]
  BY <1>2
<1>4. \A x \in Spreads(q), k \in 1 .. n : step[<<x, k>>] = SpreadStep(q, m, a, x, c[k])
  OBVIOUS
<1>5. \A t \in SUBSET (1 .. n) : t # {} => Max(t) \in 1 .. n /\ t \ {Max(t)} \in SUBSET (1 .. n)
  BY MaxUpto
<1> HIDE DEF step, f
<1>6. PICK it \in [SUBSET (1 .. n) -> Spreads(q)] : Folds(it, n, <<i, <<>>>>, step)
  BY <1>2, <1>3, FoldExists
<1>7. ASSUME NEW t \in SUBSET (1 .. n)
      PROVE  it[t] = IF t = {} THEN <<i, <<>>>> ELSE SpreadStep(q, m, a, it[t \ {Max(t)}], c[Max(t)])
  BY <1>4, <1>5, <1>6 DEF Folds
<1>8. DOMAIN c = 1 .. n /\ {} \in SUBSET (1 .. n)
  OBVIOUS
<1>9. it = [t \in SUBSET DOMAIN c |-> IF t = {} THEN <<i, <<>>>>
        ELSE SpreadStep(q, m, a, it[t \ {Max(t)}], c[Max(t)])]
  BY <1>7, <1>8
<1>10. f = [t \in SUBSET DOMAIN c |-> IF t = {} THEN <<i, <<>>>>
         ELSE SpreadStep(q, m, a, f[t \ {Max(t)}], c[Max(t)])]
  BY <1>9 DEF f
<1>11. f[{}] = <<i, <<>>>>
  BY <1>8, <1>10
<1>12. ASSUME NEW t \in (SUBSET (1 .. n)) \ {{}}, f[t \ {Max(t)}] \in Spreads(q)
       PROVE  f[t] = step[<<f[t \ {Max(t)}], Max(t)>>]
  <2>1. f[t] = SpreadStep(q, m, a, f[t \ {Max(t)}], c[Max(t)])
    BY <1>8, <1>10
  <2> QED
    BY <1>4, <1>5, <1>12, <2>1
<1>13. IsFold(f, n, Spreads(q), <<i, <<>>>>, step)
  BY <1>11, <1>12 DEF IsFold
<1>14. PICK g : Runs(g, n, Spreads(q), <<i, <<>>>>, step, Result(f, n))
  BY <1>2, <1>3, <1>13, FoldChain
<1>15. ASSUME NEW k \in 1 .. n PROVE g[k] = SpreadStep(q, m, a, g[k - 1], c[k])
  <2>1. k - 1 \in 0 .. n
    OBVIOUS
  <2> QED
    BY <1>4, <1>14, <2>1 DEF Runs
<1>16. g \in [0 .. n -> Spreads(q)] /\ g[0] = <<i, <<>>>>
         /\ g[n] = FoldLeft(LAMBDA acc, e :
              LET d == Digit(acc[1], EdgeCount(q, m, e, a)) IN <<d[2], Append(acc[2], <<d[1], e.dst>>)>>, <<i, <<>>>>, c)
  BY <1>1, <1>8, <1>14 DEF Runs, Result
<1> QED
  BY <1>15, <1>16 DEF SpreadRun

\* The rests r and the digits g of an id in the base d.
Digits(r, g, n, d, i) ==
  /\ r \in [0 .. n -> Nat \ {0}] /\ g \in [1 .. n -> Nat \ {0}] /\ r[0] = i
  /\ \A k \in 1 .. n : /\ g[k] \in 1 .. d[k]
                       /\ r[k - 1] - 1 = d[k] * (r[k] - 1) + (g[k] - 1)
                       /\ d[k] * (r[k] - 1) <= r[k - 1] - 1

\* Multiplication is monotone.
LEMMA Monotone ==
  ASSUME NEW x \in Nat, NEW y \in Nat, NEW p \in Nat, x <= y
  PROVE  x * p <= y * p
<1> DEFINE z == y - x
           u == x * p
           v == z * p
<1>1. z \in Nat /\ y = x + z
  OBVIOUS
<1>2. u \in Nat /\ v \in Nat
  BY <1>1
<1>3. y * p = u + v
  <2> HIDE DEF z
  <2> QED
    BY <1>1
<1> QED
  BY <1>2, <1>3

\* Nothing is left of an id below the product of the base.
LEMMA LastRest ==
  ASSUME NEW n \in Nat, NEW d \in [1 .. n -> Nat \ {0}], NEW i \in 1 .. ProductOf(d),
         NEW r, NEW g, Digits(r, g, n, d, i)
  PROVE  r[n] = 1
<1>1. PICK p \in [0 .. n -> Nat] :
        p[0] = 1 /\ p[n] = ProductOf(d) /\ \A k \in 1 .. n : p[k] = p[k - 1] * d[k]
  BY ProductFold
<1>2. /\ r \in [0 .. n -> Nat \ {0}] /\ r[0] = i
      /\ \A k \in 1 .. n : d[k] * (r[k] - 1) <= r[k - 1] - 1
  BY DEF Digits
<1> DEFINE F == {k \in 0 .. n : (r[k] - 1) * p[k] <= i - 1}
<1>3. 0 \in F
  <2>1. r[0] - 1 = i - 1 /\ p[0] = 1
    BY <1>1, <1>2
  <2>2. (i - 1) * 1 = i - 1
    OBVIOUS
  <2> QED
    BY <2>1, <2>2
<1>4. ASSUME NEW k \in 1 .. n, k - 1 \in F PROVE k \in F
  <2> DEFINE x == r[k] - 1
             y == r[k - 1] - 1
             o == p[k - 1]
             b == d[k]
  <2>1. k \in 0 .. n /\ k - 1 \in 0 .. n
    OBVIOUS
  <2>2. x \in Nat /\ y \in Nat /\ o \in Nat /\ b \in Nat
    <3>1. r[k] \in Nat \ {0} /\ r[k - 1] \in Nat \ {0}
      BY <1>2, <2>1
    <3>2. o \in Nat
      BY <1>1, <2>1
    <3>3. b \in Nat
      OBVIOUS
    <3>4. \A z \in Nat \ {0} : z - 1 \in Nat
      OBVIOUS
    <3>5. x \in Nat /\ y \in Nat
      BY ONLY <3>1, <3>4 DEF x, y
    <3> QED
      BY <3>2, <3>3, <3>5
  <2>3. b * x <= y /\ y * o <= i - 1 /\ p[k] = o * b
    BY <1>1, <1>2, <1>4
  <2> HIDE DEF x, y, o, b, F
  <2> DEFINE z == b * x
  <2>4. z \in Nat
    BY <2>2
  <2>5. z * o <= y * o
    <3>1. z <= y
      BY <2>3
    <3> HIDE DEF z
    <3> QED
      BY <2>2, <2>4, <3>1, Monotone
  <2>6. x * (o * b) = z * o
    BY ONLY <2>2 DEF z
  <2>7. x * p[k] <= i - 1
    <3> DEFINE A == z * o
               B == y * o
    <3>1. A <= B /\ B <= i - 1 /\ x * p[k] = A
      BY <2>3, <2>5, <2>6
    <3>2. A \in Nat /\ B \in Nat
      BY <2>2, <2>4
    <3> HIDE DEF A, B
    <3> QED
      BY <3>1, <3>2
  <2> QED
    BY <2>1, <2>7 DEF F, x
<1>5. n \in F
  <2>1. \A k \in 1 .. n : k - 1 \in F => k \in F
    BY <1>4
  <2>2. n \in 0 .. n
    OBVIOUS
  <2> HIDE DEF F
  <2>3. \A k \in 0 .. n : k \in F
    BY <1>3, <2>1, CountUp
  <2> QED
    BY <2>2, <2>3
<1> DEFINE x == r[n] - 1
           o == p[n]
<1>6. x \in Nat /\ o \in Nat /\ x * o <= i - 1 /\ i <= o /\ i \in Nat /\ i > 0
  <2>1. r[n] \in Nat \ {0}
    BY <1>2
  <2>2. o \in Nat /\ o = ProductOf(d)
    BY <1>1
  <2>3. i \in 1 .. o
    BY <2>2
  <2>4. x * o <= i - 1
    BY <1>5
  <2>5. x \in Nat
    BY <2>1
  <2> HIDE DEF x, o
  <2> QED
    BY <2>2, <2>3, <2>4, <2>5
<1>7. x = 0
  <2> HIDE DEF x, o
  <2> SUFFICES ASSUME x # 0 PROVE FALSE
    OBVIOUS
  <2>1. 1 <= x
    BY <1>6
  <2>2. 1 * o <= x * o
    BY <1>6, <2>1, Monotone
  <2> DEFINE y == x * o
  <2>3. y \in Nat /\ o <= y /\ y <= i - 1
    BY <1>6, <2>2
  <2> HIDE DEF y
  <2> QED
    BY <1>6, <2>3
<1>8. r[n] \in Nat
  BY <1>2
<1> QED
  BY <1>7, <1>8

\* An id is known from its digits.
LEMMA SameDigits ==
  ASSUME NEW n \in Nat, NEW d \in [1 .. n -> Nat \ {0}], NEW i, NEW j,
         NEW r, NEW g, Digits(r, g, n, d, i), NEW t, Digits(t, g, n, d, j), r[n] = t[n]
  PROVE  i = j
<1>1. /\ r \in [0 .. n -> Nat \ {0}] /\ r[0] = i /\ t \in [0 .. n -> Nat \ {0}] /\ t[0] = j
      /\ \A k \in 1 .. n : /\ r[k - 1] - 1 = d[k] * (r[k] - 1) + (g[k] - 1)
                           /\ t[k - 1] - 1 = d[k] * (t[k] - 1) + (g[k] - 1)
  BY DEF Digits
<1> DEFINE F == {x \in 0 .. n : r[n - x] = t[n - x]}
<1>2. 0 \in F
  OBVIOUS
<1>3. ASSUME NEW x \in 1 .. n, x - 1 \in F PROVE x \in F
  <2>0. n - (x - 1) \in 1 .. n
    OBVIOUS
  <2>1. PICK m \in 1 .. n : m = n - (x - 1)
    BY <2>0
  <2>2. m - 1 \in 0 .. n /\ m - 1 = n - x /\ x \in 0 .. n
    BY <2>1
  <2>3. r[m] = t[m]
    BY <1>3, <2>1
  <2>4. r[m - 1] - 1 = t[m - 1] - 1
    BY <1>1, <2>3
  <2>5. r[m - 1] \in Nat /\ t[m - 1] \in Nat
    BY <1>1, <2>2
  <2>6. r[m - 1] = t[m - 1]
    BY <2>4, <2>5
  <2> QED
    BY <2>2, <2>6
<1>4. n \in F
  <2>1. \A x \in 1 .. n : x - 1 \in F => x \in F
    BY <1>3
  <2>2. n \in 0 .. n
    OBVIOUS
  <2> HIDE DEF F
  <2>3. \A x \in 0 .. n : x \in F
    BY <1>2, <2>1, CountUp
  <2> QED
    BY <2>2, <2>3
<1>5. r[0] = t[0]
  BY <1>4
<1> QED
  BY <1>1, <1>5


\* The pairs that an And makes of the id i: the digits g, with the rests r.
SpreadIs(q, w, n, a, i, r, g) ==
  LET kids == q.circuit[n].children
      S == Spread(q, w, kids, a, i)
  IN  /\ Digits(r, g, Len(kids), [k \in 1 .. Len(kids) |-> w[kids[k].dst]], i)
      /\ r[Len(kids)] = 1
      /\ S \in Seq((Nat \ {0}) \X DOMAIN q.circuit) /\ Len(S) = Len(kids)
      /\ \A k \in 1 .. Len(kids) : S[k] = <<g[k], kids[k].dst>>

\* The base of an And: the counts of its children, none of which is 0.
LEMMA AndBase ==
  ASSUME NEW q, IsQuery(q), NEW n \in DOMAIN q.circuit, q.circuit[n].type = "a",
         NEW a, NEW w, \A x \in Dsts(q, n) : w[x] \in Nat,
         NEW i \in 1 .. NodeCount(q, w, n, a)
  PROVE  LET kids == q.circuit[n].children
             d == [k \in 1 .. Len(kids) |-> w[kids[k].dst]]
         IN  /\ Len(kids) \in Nat /\ DOMAIN kids = 1 .. Len(kids)
             /\ d \in [1 .. Len(kids) -> Nat \ {0}] /\ NodeCount(q, w, n, a) = ProductOf(d)
             /\ \A k \in 1 .. Len(kids) : /\ EdgeCount(q, w, kids[k], a) = d[k]
                                          /\ kids[k].dst \in DOMAIN q.circuit
<1> DEFINE kids == q.circuit[n].children
           K == Len(kids)
           d == [k \in 1 .. K |-> w[kids[k].dst]]
<1>1. K \in Nat /\ DOMAIN kids = 1 .. K
  BY CircuitFacts
<1>2. ASSUME NEW k \in 1 .. K
      PROVE  /\ kids[k].dst \in DOMAIN q.circuit /\ w[kids[k].dst] \in Nat
             /\ EdgeCount(q, w, kids[k], a) = w[kids[k].dst]
  <2>1. k \in DOMAIN kids
    BY <1>1
  <2>2. kids[k].dst \in DOMAIN q.circuit /\ kids[k].dst \in Dsts(q, n)
    BY <2>1, EdgeFacts
  <2>3. w[kids[k].dst] \in Nat
    BY <2>2
  <2>4. EdgeCount(q, w, kids[k], a) = w[kids[k].dst]
    <3> DEFINE c == w[kids[k].dst]
    <3>1. c \in Nat /\ k \in DOMAIN kids
      BY <2>1, <2>3
    <3> HIDE DEF K, d
    <3> QED
      BY <3>1, AndEdgeCount
  <2> QED
    BY <2>2, <2>3, <2>4
<1>3. \A k \in 1 .. K : EdgeCount(q, w, kids[k], a) = d[k]
  BY <1>2
<1>4. [k \in DOMAIN kids |-> EdgeCount(q, w, kids[k], a)] = d
  BY <1>1, <1>2
<1>5. NodeCount(q, w, n, a) = ProductOf(d)
  BY <1>4 DEF NodeCount
<1>6. d \in [1 .. K -> Nat]
  BY <1>2
<1>7. ProductOf(d) # 0
  BY <1>5
<1>8. d \in [1 .. K -> Nat \ {0}]
  <2> HIDE DEF d, K
  <2> QED
    BY <1>1, <1>6, <1>7, ProductPositive
<1> QED
  BY Zenon, <1>1, <1>2, <1>3, <1>5, <1>8

\* An And writes every one of its ids in its base.
LEMMA SpreadFacts ==
  ASSUME NEW q, IsQuery(q), NEW n \in DOMAIN q.circuit, q.circuit[n].type = "a",
         NEW a, NEW w, \A x \in Dsts(q, n) : w[x] \in Nat,
         NEW i \in 1 .. NodeCount(q, w, n, a)
  PROVE  \E r, g : SpreadIs(q, w, n, a, i, r, g)
<1> DEFINE kids == q.circuit[n].children
           K == Len(kids)
           d == [k \in 1 .. K |-> w[kids[k].dst]]
<1>1. /\ K \in Nat /\ DOMAIN kids = 1 .. K
      /\ d \in [1 .. K -> Nat \ {0}] /\ NodeCount(q, w, n, a) = ProductOf(d)
      /\ \A k \in 1 .. K : EdgeCount(q, w, kids[k], a) = d[k] /\ kids[k].dst \in DOMAIN q.circuit
  BY AndBase
<1>2. i \in 1 .. ProductOf(d) /\ i \in Nat \ {0}
  <2>1. i \in 1 .. ProductOf(d)
    BY Zenon, <1>1
  <2> QED
    BY <2>1
<1> HIDE DEF kids, K, d
<1>3. \A k \in 1 .. K : d[k] \in Nat \ {0}
  BY <1>1
<1>4. \A k \in 1 .. K : EdgeCount(q, w, kids[k], a) \in Nat \ {0} /\ kids[k].dst \in DOMAIN q.circuit
  BY <1>1, <1>3
<1>5. PICK f : SpreadRun(f, q, w, a, K, kids, i)
  BY <1>1, <1>2, <1>4, SpreadFold
<1>6. /\ f \in [0 .. K -> Spreads(q)] /\ f[0] = <<i, <<>>>> /\ f[K][2] = Spread(q, w, kids, a, i)
      /\ \A k \in 1 .. K : f[k] = SpreadStep(q, w, a, f[k - 1], kids[k])
  BY <1>5 DEF SpreadRun, Spread
<1> DEFINE r == [k \in 0 .. K |-> f[k][1]]
           g == [k \in 1 .. K |-> Digit(f[k - 1][1], d[k])[1]]
           P == (Nat \ {0}) \X DOMAIN q.circuit
<1>7. \A k \in 0 .. K : f[k][1] \in Nat \ {0} /\ f[k][2] \in Seq(P)
  <2>1. \A k \in 0 .. K : f[k] \in Spreads(q)
    BY <1>6
  <2> QED
    BY <2>1 DEF Spreads
<1>8. ASSUME NEW k \in 1 .. K
      PROVE  /\ k - 1 \in 0 .. K /\ k \in 0 .. K /\ f[k - 1][1] \in Nat \ {0}
             /\ f[k][1] = Digit(f[k - 1][1], d[k])[2]
             /\ f[k][2] = Append(f[k - 1][2], <<Digit(f[k - 1][1], d[k])[1], kids[k].dst>>)
  <2>1. k - 1 \in 0 .. K /\ k \in 0 .. K
    BY <1>1
  <2>2. f[k] = SpreadStep(q, w, a, f[k - 1], kids[k]) /\ EdgeCount(q, w, kids[k], a) = d[k]
    BY <1>1, <1>6
  <2> QED
    BY <1>7, <2>1, <2>2 DEF SpreadStep
<1>9. ASSUME NEW k \in 1 .. K
      PROVE  /\ g[k] = Digit(r[k - 1], d[k])[1] /\ r[k] = Digit(r[k - 1], d[k])[2]
             /\ r[k - 1] \in Nat \ {0}
  BY <1>8
<1>10. r[0] = i
  BY <1>1, <1>6
<1> HIDE DEF r
<1>11. ASSUME NEW k \in 1 .. K
       PROVE  /\ g[k] \in 1 .. d[k] /\ r[k] \in Nat \ {0}
              /\ r[k - 1] - 1 = d[k] * (r[k] - 1) + (g[k] - 1)
              /\ d[k] * (r[k] - 1) <= r[k - 1] - 1
  <2> DEFINE x == r[k - 1]
             y == d[k]
  <2>1. x \in Nat \ {0} /\ y \in Nat \ {0}
    BY <1>3, <1>9
  <2> HIDE DEF g, x, y
  <2>2. /\ Digit(x, y)[1] \in 1 .. y /\ Digit(x, y)[2] \in Nat \ {0}
        /\ x - 1 = y * (Digit(x, y)[2] - 1) + (Digit(x, y)[1] - 1)
        /\ y * (Digit(x, y)[2] - 1) <= x - 1
    BY <2>1, DigitFacts
  <2>3. g[k] = Digit(x, y)[1] /\ r[k] = Digit(x, y)[2]
    BY <1>9 DEF x, y
  <2> QED
    BY <2>2, <2>3 DEF x, y
<1>12. Digits(r, g, K, d, i)
  <2>1. \A k \in 1 .. K : g[k] \in Nat \ {0}
    BY <1>3, <1>11
  <2>2. r = [k \in 0 .. K |-> r[k]] /\ \A k \in 0 .. K : r[k] \in Nat \ {0}
    BY <1>7 DEF r
  <2>3. r \in [0 .. K -> Nat \ {0}]
    BY <2>2
  <2>4. g \in [1 .. K -> Nat \ {0}]
    BY <2>1
  <2> HIDE DEF g
  <2> QED
    BY <1>10, <1>11, <2>3, <2>4 DEF Digits
<1> HIDE DEF g
<1>13. r[K] = 1
  BY <1>1, <1>2, <1>12, LastRest
<1> DEFINE F == {m \in 0 .. K : Len(f[m][2]) = m /\ \A k \in 1 .. m : f[m][2][k] = <<g[k], kids[k].dst>>}
<1>14. 0 \in F
  BY <1>1, <1>6
<1>15. ASSUME NEW m \in 1 .. K, m - 1 \in F PROVE m \in F
  <2> DEFINE T == f[m - 1][2]
             p == <<g[m], kids[m].dst>>
  <2>1. m \in 0 .. K /\ T \in Seq(P) /\ f[m][2] = Append(T, p)
    BY <1>7, <1>8 DEF g
  <2>2. Len(T) = m - 1 /\ \A k \in 1 .. m - 1 : T[k] = <<g[k], kids[k].dst>>
    BY <1>15
  <2> HIDE DEF T, P
  <2>3. Len(f[m][2]) = m
    BY <2>1, <2>2
  <2>4. f[m][2][m] = p
    BY <2>1, <2>2
  <2>5. \A k \in 1 .. m - 1 : f[m][2][k] = T[k]
    BY <2>1, <2>2
  <2>6. \A k \in 1 .. m : k \in 1 .. m - 1 \/ k = m
    OBVIOUS
  <2> QED
    BY <2>1, <2>2, <2>3, <2>4, <2>5, <2>6
<1>16. K \in F
  <2>1. \A m \in 1 .. K : m - 1 \in F => m \in F
    BY <1>15
  <2>2. K \in 0 .. K
    BY <1>1
  <2> HIDE DEF F
  <2>3. \A m \in 0 .. K : m \in F
    BY Zenon, <1>1, <1>14, <2>1, CountUp
  <2> QED
    BY <2>2, <2>3
<1>17. SpreadIs(q, w, n, a, i, r, g)
  <2>1. f[K][2] \in Seq(P)
    BY <1>1, <1>7
  <2> QED
    BY Zenon, <1>6, <1>12, <1>13, <1>16, <2>1 DEF SpreadIs, kids, K, d
<1> QED
  BY SMTT(30), <1>17

\* Different ids are written differently.
LEMMA SpreadInjective ==
  ASSUME NEW q, IsQuery(q), NEW n \in DOMAIN q.circuit, q.circuit[n].type = "a",
         NEW a, NEW w, \A x \in Dsts(q, n) : w[x] \in Nat,
         NEW i \in 1 .. NodeCount(q, w, n, a), NEW j \in 1 .. NodeCount(q, w, n, a),
         Spread(q, w, q.circuit[n].children, a, i) = Spread(q, w, q.circuit[n].children, a, j)
  PROVE  i = j
<1> DEFINE kids == q.circuit[n].children
           K == Len(kids)
           d == [k \in 1 .. K |-> w[kids[k].dst]]
<1>1. /\ K \in Nat /\ DOMAIN kids = 1 .. K
      /\ d \in [1 .. K -> Nat \ {0}] /\ NodeCount(q, w, n, a) = ProductOf(d)
      /\ \A k \in 1 .. K : EdgeCount(q, w, kids[k], a) = d[k] /\ kids[k].dst \in DOMAIN q.circuit
  BY Zenon, AndBase
<1>2. PICK r, g : SpreadIs(q, w, n, a, i, r, g)
  BY SpreadFacts
<1>3. PICK t, h : SpreadIs(q, w, n, a, j, t, h)
  BY SpreadFacts
<1>4. /\ Digits(r, g, K, d, i) /\ r[K] = 1 /\ Digits(t, h, K, d, j) /\ t[K] = 1
      /\ \A k \in 1 .. K : <<g[k], kids[k].dst>> = <<h[k], kids[k].dst>>
  BY Zenon, <1>2, <1>3 DEF SpreadIs
<1> HIDE DEF d, K
<1>5. g = h
  <2>1. g \in [1 .. K -> Nat \ {0}] /\ h \in [1 .. K -> Nat \ {0}]
    BY <1>4 DEF Digits
  <2>2. \A k \in 1 .. K : g[k] = h[k]
    BY <1>4
  <2> DEFINE D == 1 .. K
             X == Nat \ {0}
  <2>3. g \in [D -> X] /\ h \in [D -> X] /\ \A k \in D : g[k] = h[k]
    BY <2>1, <2>2
  <2> HIDE DEF D, X
  <2> QED
    BY <2>3, SameFunction
<1>6. /\ K \in Nat /\ d \in [1 .. K -> Nat \ {0}]
      /\ Digits(r, g, K, d, i) /\ Digits(t, g, K, d, j) /\ r[K] = t[K]
  BY <1>1, <1>4, <1>5
<1> QED
  BY ONLY <1>6, SameDigits

-----------------------------------------------------------------------------
(* Prefix sums: the slot of an id *)

Partials(g, n, c) ==
  /\ g \in [0 .. n -> Nat] /\ g[0] = 0 /\ g[n] = SumOf(c)
  /\ \A k \in 1 .. n : g[k] = g[k - 1] + c[k]
  /\ \A k \in 0 .. n : g[k] = SumOf([j \in 1 .. k |-> c[j]])

\* The sums of the prefixes.
LEMMA PrefixSums ==
  ASSUME NEW n \in Nat, NEW c \in [1 .. n -> Nat]
  PROVE  \E g : Partials(g, n, c)
<1>1. PICK g \in [0 .. n -> Nat] :
        g[0] = 0 /\ g[n] = SumOf(c) /\ \A k \in 1 .. n : g[k] = g[k - 1] + c[k]
  BY SumFold
<1>2. ASSUME NEW m \in 0 .. n PROVE g[m] = SumOf([j \in 1 .. m |-> c[j]])
  <2> DEFINE d == [j \in 1 .. m |-> c[j]]
  <2>1. m \in Nat /\ \A k \in 1 .. m : k \in 1 .. n
    OBVIOUS
  <2>2. d \in [1 .. m -> Nat] /\ \A k \in 1 .. m : d[k] = c[k]
    BY <2>1
  <2> HIDE DEF d
  <2>3. PICK h \in [0 .. m -> Nat] :
          h[0] = 0 /\ h[m] = SumOf(d) /\ \A k \in 1 .. m : h[k] = h[k - 1] + d[k]
    BY <2>1, <2>2, SumFold
  <2> DEFINE F == {k \in 0 .. m : h[k] = g[k]}
  <2>4. 0 \in F
    BY <1>1, <2>1, <2>3
  <2>5. ASSUME NEW k \in 1 .. m, k - 1 \in F PROVE k \in F
    <3>1. h[k - 1] = g[k - 1] /\ k \in 0 .. m /\ k \in 1 .. n
      BY <2>1, <2>5
    <3>2. h[k] = h[k - 1] + d[k] /\ g[k] = g[k - 1] + c[k] /\ d[k] = c[k]
      BY <1>1, <2>2, <2>3, <3>1
    <3> QED
      BY <3>1, <3>2
  <2>6. m \in F
    <3>1. \A k \in 1 .. m : k - 1 \in F => k \in F
      BY <2>5
    <3>2. m \in 0 .. m
      BY <2>1
    <3> HIDE DEF F
    <3>3. \A k \in 0 .. m : k \in F
      BY <2>1, <2>4, <3>1, CountUp
    <3> QED
      BY <3>2, <3>3
  <2> QED
    BY <2>3, <2>6 DEF d
<1> QED
  BY <1>1, <1>2 DEF Partials

\* Prefix sums grow.
LEMMA PrefixGrows ==
  ASSUME NEW n \in Nat, NEW c \in [1 .. n -> Nat], NEW g, Partials(g, n, c),
         NEW j \in 0 .. n, NEW k \in 0 .. n, j <= k
  PROVE  g[j] <= g[k]
<1>1. g \in [0 .. n -> Nat] /\ \A m \in 1 .. n : g[m] = g[m - 1] + c[m]
  BY DEF Partials
<1> DEFINE F == {m \in 0 .. n : j <= m => g[j] <= g[m]}
<1>2. 0 \in F
  BY <1>1
<1>3. ASSUME NEW m \in 1 .. n, m - 1 \in F PROVE m \in F
  <2>1. m \in 0 .. n /\ m - 1 \in 0 .. n
    OBVIOUS
  <2>2. g[m] = g[m - 1] + c[m] /\ g[m - 1] \in Nat /\ c[m] \in Nat /\ g[m] \in Nat /\ g[j] \in Nat
    BY <1>1, <2>1
  <2>3. j <= m - 1 => g[j] <= g[m - 1]
    BY <1>3
  <2>4. g[m - 1] <= g[m]
    BY <2>2
  <2>5. j <= m => j = m \/ j <= m - 1
    OBVIOUS
  <2> QED
    BY <2>1, <2>2, <2>3, <2>4, <2>5
<1>4. k \in F
  <2>1. \A m \in 1 .. n : m - 1 \in F => m \in F
    BY <1>3
  <2> HIDE DEF F
  <2> QED
    BY <1>2, <2>1, CountUp
<1> QED
  BY <1>4

\* A number up to the sum falls in a slot.
LEMMA SlotExists ==
  ASSUME NEW n \in Nat, NEW c \in [1 .. n -> Nat], NEW g, Partials(g, n, c), NEW x \in 1 .. g[n]
  PROVE  \E k \in 1 .. n : g[k - 1] < x /\ x <= g[k]
<1>1. g \in [0 .. n -> Nat] /\ g[0] = 0
  BY DEF Partials
<1>2. g[n] \in Nat /\ x \in Nat /\ x > 0 /\ x <= g[n]
  BY <1>1
<1> DEFINE F == {m \in 0 .. n : x <= g[m] => \E k \in 1 .. n : g[k - 1] < x /\ x <= g[k]}
<1>3. 0 \in F
  BY <1>1, <1>2
<1>4. ASSUME NEW m \in 1 .. n, m - 1 \in F PROVE m \in F
  <2>1. m \in 0 .. n /\ m - 1 \in 0 .. n
    OBVIOUS
  <2>2. g[m - 1] \in Nat /\ g[m] \in Nat
    BY <1>1, <2>1
  <2>3. CASE x <= g[m - 1]
    BY <1>4, <2>1, <2>3
  <2>4. CASE g[m - 1] < x
    BY <2>1, <2>4
  <2> QED
    BY <1>2, <2>2, <2>3, <2>4
<1>5. n \in F
  <2>1. \A m \in 1 .. n : m - 1 \in F => m \in F
    BY <1>4
  <2>2. n \in 0 .. n
    OBVIOUS
  <2> HIDE DEF F
  <2>3. \A m \in 0 .. n : m \in F
    BY <1>3, <2>1, CountUp
  <2> QED
    BY <2>2, <2>3
<1> QED
  BY <1>2, <1>5

\* A number falls in one slot only.
LEMMA SlotUnique ==
  ASSUME NEW n \in Nat, NEW c \in [1 .. n -> Nat], NEW g, Partials(g, n, c),
         NEW x \in Nat, NEW j \in 1 .. n, NEW k \in 1 .. n,
         g[j - 1] < x, x <= g[j], g[k - 1] < x, x <= g[k]
  PROVE  j = k
<1>1. g \in [0 .. n -> Nat]
  BY DEF Partials
<1>2. ASSUME NEW l \in 1 .. n, NEW m \in 1 .. n, l < m, x <= g[l], g[m - 1] < x PROVE FALSE
  <2>1. l \in 0 .. n /\ m - 1 \in 0 .. n /\ l <= m - 1
    BY <1>2
  <2>2. g[l] \in Nat /\ g[m - 1] \in Nat
    BY <1>1, <2>1
  <2>3. g[l] <= g[m - 1]
    BY <2>1, PrefixGrows
  <2> QED
    BY <1>2, <2>2, <2>3
<1>3. j < k \/ k < j \/ j = k
  OBVIOUS
<1> QED
  BY <1>2, <1>3

-----------------------------------------------------------------------------
(* The id-to-model map of a node *)

\* One set of literals for every id of n, different ones for different ids.
Good(q, w, n, a, f) ==
  /\ f \in [1 .. w[n] -> UnderOf(q, n, a)]
  /\ \A i, j \in 1 .. w[n] : f[i] = f[j] => i = j

\* What the pairs <<id, node>> of S stand for, if D[n] is the map of n.
Members(D, S) == UNION {D[S[k][2]][S[k][1]] : k \in DOMAIN S}

\* The i-th of the ids of the edge e.
Down(q, w, a, D, e, i) ==
  LET h == Halved(q, e, a, i, EdgeCount(q, w, e, a)) IN e.units \cup h.lits \cup D[e.dst][h.id]

Before(q, w, n, a, k) == SumOf([j \in 1 .. k |-> EdgeCount(q, w, q.circuit[n].children[j], a)])

\* The map f of n obeys get_solution, if D has those of its children.
Decodes(q, w, n, a, D, f) ==
  LET kids == q.circuit[n].children
  IN  \A i \in 1 .. w[n] :
        /\ q.circuit[n].type \in {"t", "f"} => f[i] = {}
        /\ q.circuit[n].type = "a" => f[i] = Members(D, Spread(q, w, kids, a, i))
        /\ q.circuit[n].type \in {"o", "u"} =>
             \A k \in DOMAIN kids :
               Before(q, w, n, a, k - 1) < i /\ i <= Before(q, w, n, a, k) =>
                 f[i] = Down(q, w, a, D, kids[k], i - Before(q, w, n, a, k - 1))

\* An edge that has ids does not contradict the cube, and hands them down.
LEMMA EdgeDown ==
  ASSUME NEW q, IsQuery(q), NEW n \in DOMAIN q.circuit, NEW k \in DOMAIN q.circuit[n].children,
         NEW a, Cube(a), NEW w, w[q.circuit[n].children[k].dst] \in Nat,
         NEW i \in 1 .. EdgeCount(q, w, q.circuit[n].children[k], a)
  PROVE  LET e == q.circuit[n].children[k]
             h == Halved(q, e, a, i, EdgeCount(q, w, e, a))
         IN  /\ ~Conflicts(e.units, a) /\ EdgeCount(q, w, e, a) = Handed(q, e, a, w[e.dst])
             /\ h.id \in 1 .. w[e.dst] /\ h.lits \in ChoicesUnder(q, e, a)
<1> DEFINE e == q.circuit[n].children[k]
           c == w[e.dst]
<1>1. EdgeCount(q, w, e, a) # 0
  OBVIOUS
<1>2. ~Conflicts(e.units, a)
  BY <1>1 DEF EdgeCount
<1>3. EdgeCount(q, w, e, a) = Handed(q, e, a, c)
  BY <1>2 DEF EdgeCount, Handed
<1>4. c \in Nat /\ i \in 1 .. Handed(q, e, a, c)
  BY <1>3
<1> DEFINE h == Halved(q, e, a, i, Handed(q, e, a, c))
<1>5. h.id \in 1 .. c /\ h.lits \in ChoicesUnder(q, e, a)
  <2> HIDE DEF c
  <2> QED
    BY SMTT(30), <1>4, HalvedFacts
<1> QED
  BY <1>2, <1>3, <1>5

\* The members of the children that an And joins for the id i.
Picked(q, w, n, a, D, i) ==
  LET kids == q.circuit[n].children
  IN  [k \in 1 .. Len(kids) |-> D[kids[k].dst][Spread(q, w, kids, a, i)[k][1]]]

PickedIs(q, w, n, a, D, i) ==
  LET kids == q.circuit[n].children
      S == Spread(q, w, kids, a, i)
  IN  /\ Picked(q, w, n, a, D, i) \in AndPicks(q, n, a)
      /\ Members(D, S) = UNION Range(Picked(q, w, n, a, D, i))
      /\ S \in Seq((Nat \ {0}) \X DOMAIN q.circuit) /\ Len(S) = Len(kids)
      /\ \A k \in 1 .. Len(kids) : /\ S[k][1] \in 1 .. w[kids[k].dst] /\ S[k][2] = kids[k].dst
                                   /\ S[k] = <<S[k][1], S[k][2]>>

\* The digits of an And pick a member of every child.
LEMMA AndPicked ==
  ASSUME NEW q, IsQuery(q), NEW n \in DOMAIN q.circuit, q.circuit[n].type = "a",
         NEW a, NEW w, \A x \in Dsts(q, n) : w[x] \in Nat,
         NEW D, \A x \in Dsts(q, n) : Good(q, w, x, a, D[x]),
         NEW i \in 1 .. NodeCount(q, w, n, a)
  PROVE  PickedIs(q, w, n, a, D, i)
<1> DEFINE kids == q.circuit[n].children
           K == Len(kids)
           d == [k \in 1 .. K |-> w[kids[k].dst]]
           S == Spread(q, w, kids, a, i)
           p == Picked(q, w, n, a, D, i)
           X == UNION {Meanings(q)[kids[k].dst] : k \in DOMAIN kids}
<1>1. PICK r, g : SpreadIs(q, w, n, a, i, r, g)
  BY SpreadFacts
<1>2. /\ Digits(r, g, K, d, i)
      /\ S \in Seq((Nat \ {0}) \X DOMAIN q.circuit) /\ Len(S) = K
      /\ \A k \in 1 .. K : S[k] = <<g[k], kids[k].dst>>
  BY <1>1 DEF SpreadIs
<1>3. K \in Nat /\ DOMAIN kids = 1 .. K
  BY CircuitFacts
<1>4. ASSUME NEW k \in 1 .. K
      PROVE  /\ kids[k].dst \in Dsts(q, n)
             /\ S[k][1] \in 1 .. w[kids[k].dst] /\ S[k][2] = kids[k].dst /\ S[k] = <<S[k][1], S[k][2]>>
  <2>1. g[k] \in 1 .. d[k] /\ d[k] = w[kids[k].dst]
    BY ZenonT(40), <1>2 DEF Digits
  <2>2. S[k] = <<g[k], kids[k].dst>>
    BY <1>2
  <2>3. kids[k].dst \in Dsts(q, n)
    BY <1>3 DEF Dsts
  <2> HIDE DEF S, kids
  <2> QED
    BY SMTT(30), <2>1, <2>2, <2>3
<1>5. p = [k \in 1 .. K |-> D[kids[k].dst][S[k][1]]]
  BY DEF Picked
<1> HIDE DEF p, S, d, K
<1>6. ASSUME NEW k \in 1 .. K
      PROVE  p[k] \in UnderOf(q, kids[k].dst, a) /\ p[k] \in X /\ p[k] = D[S[k][2]][S[k][1]]
  <2>1. p[k] = D[kids[k].dst][S[k][1]] /\ p[k] = D[S[k][2]][S[k][1]]
    BY <1>4, <1>5
  <2>2. D[kids[k].dst] \in [1 .. w[kids[k].dst] -> UnderOf(q, kids[k].dst, a)]
    BY SMTT(30), <1>4 DEF Good
  <2>3. p[k] \in UnderOf(q, kids[k].dst, a)
    BY <1>4, <2>1, <2>2
  <2>4. p[k] \in Meanings(q)[kids[k].dst]
    BY <2>3 DEF UnderOf
  <2>5. k \in DOMAIN kids
    BY <1>3
  <2> QED
    BY Zenon, <2>1, <2>3, <2>4, <2>5
<1>7. p \in AndPicks(q, n, a)
  <2> DEFINE U == [k \in 1 .. K |-> UnderOf(q, kids[k].dst, a)]
  <2>1. AndPicks(q, n, a) = {f \in [1 .. K -> X] : \A k \in 1 .. K : f[k] \in U[k]}
    BY DEF AndPicks, Picks, K
  <2>2. \A k \in 1 .. K : p[k] \in X /\ p[k] \in U[k]
    BY SMTT(30), <1>6
  <2>3. p \in [1 .. K -> X]
    <3> HIDE DEF X, U
    <3> QED
      BY <1>5, <2>2
  <2> HIDE DEF X, U
  <2> QED
    BY <2>1, <2>2, <2>3
<1>8. Members(D, S) = UNION Range(p)
  <2>1. DOMAIN p = 1 .. K
    BY <1>5
  <2>2. Range(p) = {p[k] : k \in 1 .. K}
    BY <2>1 DEF Range
  <2>3. DOMAIN S = 1 .. K
    BY <1>2, <1>3
  <2>4. {D[S[k][2]][S[k][1]] : k \in DOMAIN S} = {p[k] : k \in 1 .. K}
    BY <1>6, <2>3
  <2> QED
    BY <2>2, <2>4 DEF Members
<1> QED
  BY SMTT(30), <1>2, <1>4, <1>7, <1>8 DEF PickedIs, S, p, K

\* An And has an id-to-model map if its children have.
LEMMA AndDecode ==
  ASSUME NEW q, IsQuery(q), NEW n \in DOMAIN q.circuit, q.circuit[n].type = "a",
         NEW a, NEW w, \A x \in Dsts(q, n) : w[x] \in Nat,
         NEW D, \A x \in Dsts(q, n) : Good(q, w, x, a, D[x]), w[n] = NodeCount(q, w, n, a)
  PROVE  \E f : Good(q, w, n, a, f) /\ Decodes(q, w, n, a, D, f)
<1> DEFINE kids == q.circuit[n].children
           K == Len(kids)
           I == 1 .. w[n]
           S(i) == Spread(q, w, kids, a, i)
           p(i) == Picked(q, w, n, a, D, i)
           f == [i \in I |-> Members(D, S(i))]
<1>1. ASSUME NEW i \in I
      PROVE  /\ p(i) \in AndPicks(q, n, a) /\ Members(D, S(i)) = UNION Range(p(i))
             /\ S(i) \in Seq((Nat \ {0}) \X DOMAIN q.circuit) /\ Len(S(i)) = K
             /\ \A k \in 1 .. K : /\ S(i)[k][1] \in 1 .. w[kids[k].dst] /\ S(i)[k][2] = kids[k].dst
                                  /\ S(i)[k] = <<S(i)[k][1], S(i)[k][2]>>
  <2>1. i \in 1 .. NodeCount(q, w, n, a)
    OBVIOUS
  <2>2. PickedIs(q, w, n, a, D, i)
    BY <2>1, AndPicked
  <2> QED
    BY <2>2 DEF PickedIs
<1>2. ASSUME NEW i \in I PROVE f[i] = UNION Range(p(i)) /\ f[i] \in UnderOf(q, n, a)
               /\ f[i] = Members(D, S(i))
  <2>1. f[i] = Members(D, S(i))
    OBVIOUS
  <2>2. UNION Range(p(i)) \in UnderOf(q, n, a)
    BY <1>1, AndParts
  <2> QED
    BY <1>1, <2>1, <2>2
<1>3. f \in [I -> UnderOf(q, n, a)]
  BY <1>2
<1> HIDE DEF f, I
<1>4. K \in Nat /\ DOMAIN kids = 1 .. K
  BY CircuitFacts
<1>5. ASSUME NEW i \in I, NEW j \in I, f[i] = f[j] PROVE i = j
  <2>1. p(i) = p(j)
    <3>1. UNION Range(p(i)) = UNION Range(p(j))
      BY <1>2, <1>5
    <3> HIDE DEF p
    <3> QED
      BY <1>1, <3>1, AndParts
  <2>2. ASSUME NEW k \in 1 .. K PROVE S(i)[k] = S(j)[k]
    <3>1. p(i)[k] = D[kids[k].dst][S(i)[k][1]] /\ p(j)[k] = D[kids[k].dst][S(j)[k][1]]
      BY Zenon DEF Picked
    <3>2. kids[k].dst \in Dsts(q, n)
      BY <1>4 DEF Dsts
    <3>3. S(i)[k][1] \in 1 .. w[kids[k].dst] /\ S(j)[k][1] \in 1 .. w[kids[k].dst]
      BY SMTT(30), <1>1
    <3>4. D[kids[k].dst][S(i)[k][1]] = D[kids[k].dst][S(j)[k][1]]
      BY <2>1, <3>1
    <3>5. S(i)[k][1] = S(j)[k][1]
      <4> DEFINE x == kids[k].dst
                 y == S(i)[k][1]
                 z == S(j)[k][1]
      <4>1. Good(q, w, x, a, D[x])
        BY <3>2
      <4> HIDE DEF x, y, z
      <4>2. y = z
        BY Zenon, <3>3, <3>4, <4>1 DEF Good, x, y, z
      <4> QED
        BY <4>2 DEF y, z
    <3>6. /\ S(i)[k][2] = S(j)[k][2]
          /\ S(i)[k] = <<S(i)[k][1], S(i)[k][2]>> /\ S(j)[k] = <<S(j)[k][1], S(j)[k][2]>>
      BY <1>1
    <3> HIDE DEF S, p, kids, K
    <3> QED
      BY <3>5, <3>6
  <2>3. S(i) = S(j)
    <3> DEFINE P == (Nat \ {0}) \X DOMAIN q.circuit
    <3>1. S(i) \in Seq(P) /\ S(j) \in Seq(P) /\ Len(S(i)) = K /\ Len(S(j)) = K
      BY <1>1
    <3> HIDE DEF P, S, K
    <3> QED
      BY <2>2, <3>1
  <2>4. i \in 1 .. NodeCount(q, w, n, a) /\ j \in 1 .. NodeCount(q, w, n, a)
    BY DEF I
  <2> QED
    BY <2>3, <2>4, SpreadInjective
<1>6. Good(q, w, n, a, f)
  BY <1>3, <1>5 DEF Good, I
<1>7. Decodes(q, w, n, a, D, f)
  BY SMTT(30), <1>2 DEF Decodes, I
<1> QED
  BY SMTT(30), <1>6, <1>7


\* An edge takes the map of its target to different members that go through it.
LEMMA DownFacts ==
  ASSUME NEW q, IsQuery(q), NEW n \in DOMAIN q.circuit, NEW k \in DOMAIN q.circuit[n].children,
         NEW a, Cube(a), NEW w, w[q.circuit[n].children[k].dst] \in Nat,
         NEW D, Good(q, w, q.circuit[n].children[k].dst, a, D[q.circuit[n].children[k].dst]),
         NEW i \in 1 .. EdgeCount(q, w, q.circuit[n].children[k], a)
  PROVE  Down(q, w, a, D, q.circuit[n].children[k], i) \in ThroughUnder(q, q.circuit[n].children[k], a)
<1> DEFINE e == q.circuit[n].children[k]
           h == Halved(q, e, a, i, EdgeCount(q, w, e, a))
           m == D[e.dst][h.id]
<1>1. ~Conflicts(e.units, a) /\ h.id \in 1 .. w[e.dst] /\ h.lits \in ChoicesUnder(q, e, a)
  BY ZenonT(40), EdgeDown
<1>2. m \in UnderOf(q, e.dst, a)
  BY Zenon, <1>1 DEF Good
<1>3. h.lits \in FreeChoices(q, e) /\ ~Conflicts(h.lits, a)
  BY ZenonT(40), <1>1 DEF ChoicesUnder
<1>4. m \in Meanings(q)[e.dst] /\ ~Conflicts(m, a)
  BY Zenon, <1>2 DEF UnderOf
<1>5. Down(q, w, a, D, e, i) = e.units \cup h.lits \cup m
  BY DEF Down
<1> DEFINE u == e.units
           l == h.lits
<1> HIDE DEF h, m, e, u, l
<1>6. u \cup l \cup m \in Through(q, Meanings(q), e)
  BY <1>3, <1>4 DEF Through, u, l
<1>7. ~Conflicts(u \cup l \cup m, a)
  BY <1>1, <1>3, <1>4 DEF Conflicts, u, l
<1> QED
  BY <1>5, <1>6, <1>7 DEF ThroughUnder, e, u, l

\* Different ids of an edge stand for different members.
LEMMA DownInjective ==
  ASSUME NEW q, IsQuery(q), NEW n \in DOMAIN q.circuit, NEW k \in DOMAIN q.circuit[n].children,
         NEW a, Cube(a), NEW w, w[q.circuit[n].children[k].dst] \in Nat,
         NEW D, Good(q, w, q.circuit[n].children[k].dst, a, D[q.circuit[n].children[k].dst]),
         NEW i \in 1 .. EdgeCount(q, w, q.circuit[n].children[k], a),
         NEW j \in 1 .. EdgeCount(q, w, q.circuit[n].children[k], a),
         Down(q, w, a, D, q.circuit[n].children[k], i) = Down(q, w, a, D, q.circuit[n].children[k], j)
  PROVE  i = j
<1> DEFINE e == q.circuit[n].children[k]
           h == Halved(q, e, a, i, EdgeCount(q, w, e, a))
           l == Halved(q, e, a, j, EdgeCount(q, w, e, a))
           v == w[e.dst]
           d == D[e.dst]
<1>1. /\ EdgeCount(q, w, e, a) = Handed(q, e, a, v)
      /\ h.id \in 1 .. v /\ h.lits \in ChoicesUnder(q, e, a)
  BY ZenonT(40), EdgeDown
<1>2. l.id \in 1 .. v /\ l.lits \in ChoicesUnder(q, e, a)
  BY Zenon, EdgeDown
<1>3. /\ d \in [1 .. v -> UnderOf(q, e.dst, a)]
      /\ \A x, y \in 1 .. v : d[x] = d[y] => x = y
  BY ZenonT(40) DEF Good
<1>4. /\ h.lits \in FreeChoices(q, e) /\ l.lits \in FreeChoices(q, e)
      /\ d[h.id] \in Meanings(q)[e.dst] /\ d[l.id] \in Meanings(q)[e.dst]
  <2> HIDE DEF h, l, e, d, v
  <2> QED
    BY <1>1, <1>2, <1>3 DEF ChoicesUnder, UnderOf
<1>5. e.units \cup h.lits \cup d[h.id] = e.units \cup l.lits \cup d[l.id]
  BY Zenon DEF Down
<1>6. h.lits = l.lits /\ d[h.id] = d[l.id]
  <2> DEFINE x == h.lits
             y == l.lits
             z == d[h.id]
             t == d[l.id]
  <2>1. /\ x \in FreeChoices(q, e) /\ y \in FreeChoices(q, e)
        /\ z \in Meanings(q)[e.dst] /\ t \in Meanings(q)[e.dst]
        /\ e.units \cup x \cup z = e.units \cup y \cup t
    BY Zenon, <1>4, <1>5
  <2> HIDE DEF x, y, z, t, h, l, d, v
  <2>2. x = y /\ z = t
    BY Zenon, <2>1, ThroughApart
  <2> QED
    BY <2>2 DEF x, y, z, t
<1>7. h.id = l.id
  BY Zenon, <1>1, <1>2, <1>3, <1>6
<1>8. /\ v \in Nat /\ i \in 1 .. Handed(q, e, a, v) /\ j \in 1 .. Handed(q, e, a, v)
      /\ h = Halved(q, e, a, i, Handed(q, e, a, v)) /\ l = Halved(q, e, a, j, Handed(q, e, a, v))
  BY Zenon, <1>1
<1>9. Agree(Halved(q, e, a, i, Handed(q, e, a, v)), Halved(q, e, a, j, Handed(q, e, a, v)))
  <2> HIDE DEF h, l, e, v
  <2> QED
    BY <1>6, <1>7, <1>8 DEF Agree
<1> HIDE DEF v, h, l, d
<1> QED
  BY Zenon, <1>8, <1>9, HalvedInjective

\* The edges of an Or share no member.
LEMMA EdgesApart ==
  ASSUME NEW q, IsQuery(q), NEW n \in DOMAIN q.circuit, q.circuit[n].type \in {"o", "u"},
         NEW j \in DOMAIN q.circuit[n].children, NEW k \in DOMAIN q.circuit[n].children, j # k
  PROVE  Through(q, Meanings(q), q.circuit[n].children[j])
           \cap Through(q, Meanings(q), q.circuit[n].children[k]) = {}
BY DEF IsQuery, IsDDNNF

\* An Or has an id-to-model map if its children have.
LEMMA OrDecode ==
  ASSUME NEW q, IsQuery(q), NEW n \in DOMAIN q.circuit, q.circuit[n].type \in {"o", "u"},
         NEW a, Cube(a), NEW w, \A x \in Dsts(q, n) : w[x] \in Nat,
         NEW D, \A x \in Dsts(q, n) : Good(q, w, x, a, D[x]), w[n] = NodeCount(q, w, n, a)
  PROVE  \E f : Good(q, w, n, a, f) /\ Decodes(q, w, n, a, D, f)
<1> DEFINE kids == q.circuit[n].children
           K == Len(kids)
           I == 1 .. w[n]
           c == [k \in 1 .. K |-> EdgeCount(q, w, kids[k], a)]
<1>1. K \in Nat /\ DOMAIN kids = 1 .. K
  BY CircuitFacts
<1>2. ASSUME NEW k \in 1 .. K
      PROVE  /\ k \in DOMAIN kids /\ kids[k].dst \in Dsts(q, n) /\ w[kids[k].dst] \in Nat
             /\ Good(q, w, kids[k].dst, a, D[kids[k].dst]) /\ EdgeCount(q, w, kids[k], a) \in Nat
  <2>1. k \in DOMAIN kids /\ kids[k].dst \in Dsts(q, n)
    BY <1>1 DEF Dsts
  <2>2. w[kids[k].dst] \in Nat
    BY <2>1
  <2>3. EdgeCount(q, w, kids[k], a) \in Nat
    BY <2>1, <2>2, EdgeCountType
  <2>4. Good(q, w, kids[k].dst, a, D[kids[k].dst])
    BY <2>1
  <2> QED
    BY <2>1, <2>2, <2>3, <2>4
<1>3. c \in [1 .. K -> Nat] /\ \A k \in 1 .. K : c[k] = EdgeCount(q, w, kids[k], a)
  BY <1>2
<1>4. NodeCount(q, w, n, a) = SumOf(c)
  <2>1. [k \in DOMAIN kids |-> EdgeCount(q, w, kids[k], a)] = c
    BY <1>1
  <2> QED
    BY <2>1 DEF NodeCount
<1>5. ASSUME NEW k \in 0 .. K PROVE Before(q, w, n, a, k) = SumOf([j \in 1 .. k |-> c[j]])
  <2>1. \A j \in 1 .. k : j \in 1 .. K
    BY <1>1
  <2>2. [j \in 1 .. k |-> EdgeCount(q, w, kids[j], a)] = [j \in 1 .. k |-> c[j]]
    BY <1>3, <2>1
  <2> QED
    BY <2>2 DEF Before
<1> HIDE DEF c, K, kids
<1>6. PICK g : Partials(g, K, c)
  BY <1>1, <1>3, PrefixSums
<1>7. /\ g \in [0 .. K -> Nat] /\ I = 1 .. g[K]
      /\ \A k \in 0 .. K : Before(q, w, n, a, k) = g[k]
      /\ \A k \in 1 .. K : g[k] = g[k - 1] + c[k]
  BY <1>4, <1>5, <1>6 DEF Partials
<1> DEFINE Slot(i, k) == g[k - 1] < i /\ i <= g[k]
           slot(i) == CHOOSE k \in 1 .. K : Slot(i, k)
           x(i) == i - g[slot(i) - 1]
           f == [i \in I |-> Down(q, w, a, D, kids[slot(i)], x(i))]
<1>8. ASSUME NEW i \in I PROVE slot(i) \in 1 .. K /\ Slot(i, slot(i)) /\ i \in Nat
  <2>1. i \in 1 .. g[K] /\ K \in Nat
    BY <1>1, <1>7
  <2> HIDE DEF I
  <2>2. \E k \in 1 .. K : Slot(i, k)
    BY <1>3, <1>6, <2>1, SlotExists
  <2> HIDE DEF Slot
  <2>3. slot(i) \in 1 .. K /\ Slot(i, slot(i))
    BY <2>2
  <2> QED
    BY <2>1, <2>3
<1>9. ASSUME NEW i \in I, NEW k \in 1 .. K, Slot(i, k) PROVE k = slot(i)
  <2> DEFINE l == slot(i)
  <2>1. l \in 1 .. K /\ g[l - 1] < i /\ i <= g[l] /\ g[k - 1] < i /\ i <= g[k] /\ i \in Nat
    BY <1>8, <1>9
  <2> HIDE DEF l
  <2>2. k = l
    BY <1>1, <1>3, <1>6, <2>1, SlotUnique
  <2> QED
    BY <2>2 DEF l
<1>10. ASSUME NEW i \in I PROVE x(i) \in 1 .. EdgeCount(q, w, kids[slot(i)], a)
  <2> DEFINE k == slot(i)
  <2>1. k \in 1 .. K /\ g[k - 1] < i /\ i <= g[k] /\ i \in Nat
    BY <1>8
  <2> HIDE DEF slot
  <2>2. k - 1 \in 0 .. K /\ k \in 0 .. K
    BY <1>1, <2>1
  <2>3. g[k - 1] \in Nat /\ g[k] = g[k - 1] + c[k] /\ c[k] \in Nat /\ c[k] = EdgeCount(q, w, kids[k], a)
    BY <1>3, <1>7, <2>1, <2>2
  <2>4. i - g[k - 1] \in 1 .. c[k]
    BY <2>1, <2>3
  <2> QED
    BY <2>3, <2>4
<1>11. ASSUME NEW i \in I
       PROVE  f[i] = Down(q, w, a, D, kids[slot(i)], x(i)) /\ f[i] \in ThroughUnder(q, kids[slot(i)], a)
  <2>1. f[i] = Down(q, w, a, D, kids[slot(i)], x(i))
    OBVIOUS
  <2> DEFINE k == slot(i)
             y == x(i)
  <2>2. k \in DOMAIN kids /\ w[kids[k].dst] \in Nat /\ Good(q, w, kids[k].dst, a, D[kids[k].dst])
        /\ y \in 1 .. EdgeCount(q, w, kids[k], a)
    BY <1>2, <1>8, <1>10
  <2> HIDE DEF k, y, f
  <2>3. Down(q, w, a, D, kids[k], y) \in ThroughUnder(q, kids[k], a)
    BY Zenon, <2>2, DownFacts DEF kids
  <2> QED
    BY <2>1, <2>3 DEF k, y
<1>12. \A k \in 1 .. K : ThroughUnder(q, kids[k], a) \subseteq UnderOf(q, n, a)
  <2>1. Meanings(q)[n] = UNION {Through(q, Meanings(q), kids[k]) : k \in DOMAIN kids}
    BY MeaningFacts DEF MeaningOf, kids
  <2>2. DOMAIN kids = 1 .. K
    BY <1>1
  <2> QED
    BY <2>1, <2>2 DEF ThroughUnder, UnderOf
<1> HIDE DEF f
<1>13. \A i \in I : f[i] \in UnderOf(q, n, a)
  BY <1>8, <1>11, <1>12
<1>14. f \in [I -> UnderOf(q, n, a)]
  BY <1>13 DEF f
<1>15. ASSUME NEW i \in I, NEW j \in I, f[i] = f[j] PROVE i = j
  <2> DEFINE k == slot(i)
             l == slot(j)
  <2>1. k \in 1 .. K /\ l \in 1 .. K /\ k \in DOMAIN kids /\ l \in DOMAIN kids
    BY <1>2, <1>8
  <2>2. k = l
    <3>1. f[i] \in Through(q, Meanings(q), kids[k]) /\ f[i] \in Through(q, Meanings(q), kids[l])
      BY <1>11, <1>15 DEF ThroughUnder
    <3>2. k # l => Through(q, Meanings(q), kids[k]) \cap Through(q, Meanings(q), kids[l]) = {}
      <4> HIDE DEF k, l
      <4> QED
        BY <2>1, EdgesApart DEF kids
    <3> QED
      BY <3>1, <3>2
  <2> DEFINE y == x(i)
             z == x(j)
  <2>3. /\ y \in 1 .. EdgeCount(q, w, kids[k], a) /\ z \in 1 .. EdgeCount(q, w, kids[k], a)
        /\ Down(q, w, a, D, kids[k], y) = Down(q, w, a, D, kids[k], z)
        /\ w[kids[k].dst] \in Nat /\ Good(q, w, kids[k].dst, a, D[kids[k].dst])
    BY <1>2, <1>10, <1>11, <1>15, <2>1, <2>2
  <2>4. y = i - g[k - 1] /\ z = j - g[k - 1]
    BY <2>2
  <2>5. i \in Nat /\ j \in Nat /\ g[k - 1] \in Nat
    <3>1. k - 1 \in 0 .. K
      BY <1>1, <2>1
    <3> QED
      BY <1>7, <1>8, <3>1
  <2> HIDE DEF k, l, y, z
  <2>6. y = z
    BY Zenon, <2>1, <2>3, DownInjective DEF kids
  <2> QED
    BY <2>4, <2>5, <2>6
<1>16. Good(q, w, n, a, f)
  BY <1>14, <1>15 DEF Good
<1>17. Decodes(q, w, n, a, D, f)
  <2>1. ASSUME NEW i \in I, NEW k \in DOMAIN kids,
               Before(q, w, n, a, k - 1) < i, i <= Before(q, w, n, a, k)
        PROVE  f[i] = Down(q, w, a, D, kids[k], i - Before(q, w, n, a, k - 1))
    <3>1. k \in 1 .. K /\ k - 1 \in 0 .. K /\ k \in 0 .. K
      BY <1>1
    <3>2. Before(q, w, n, a, k - 1) = g[k - 1] /\ Before(q, w, n, a, k) = g[k]
      BY <1>7, <3>1
    <3>3. Slot(i, k)
      BY <2>1, <3>2
    <3>4. k = slot(i)
      BY <1>9, <3>1, <3>3
    <3> QED
      BY <1>11, <3>2, <3>4
  <2> QED
    BY <2>1 DEF Decodes, kids
<1> QED
  BY <1>16, <1>17


\* Every node has such a map, if its children do.
LEMMA NodeDecode ==
  ASSUME NEW q, IsQuery(q), NEW n \in DOMAIN q.circuit,
         NEW a, Cube(a), NEW w, Exact(q, w, Dsts(q, n), a), Exact(q, w, {n}, a),
         NEW D, \A x \in Dsts(q, n) : Good(q, w, x, a, D[x])
  PROVE  \E f : Good(q, w, n, a, f) /\ Decodes(q, w, n, a, D, f)
<1>1. \A x \in Dsts(q, n) : w[x] \in Nat
  BY FS_CardinalityType DEF Exact
<1>2. w[n] = NodeCount(q, w, n, a) /\ w[n] = Cardinality(UnderOf(q, n, a))
  BY NodeCountExact DEF Exact
<1>3. q.circuit[n].type \in {"t", "f", "a", "o", "u"} /\ Meanings(q)[n] = MeaningOf(q, Meanings(q), n)
  BY CircuitFacts, MeaningFacts
<1>4. CASE q.circuit[n].type = "t"
  <2> DEFINE f == [i \in 1 .. 1 |-> {}]
  <2>1. UnderOf(q, n, a) = {{}}
    BY <1>3, <1>4 DEF MeaningOf, UnderOf, Conflicts
  <2>2. w[n] = 1
    BY <1>2, <2>1, FS_Singleton
  <2>3. Good(q, w, n, a, f)
    BY <2>1, <2>2 DEF Good
  <2>4. \A i \in 1 .. w[n] : f[i] = {}
    BY <2>2
  <2> HIDE DEF f
  <2>5. Decodes(q, w, n, a, D, f)
    BY <1>4, <2>4 DEF Decodes
  <2> QED
    BY <2>3, <2>5
<1>5. CASE q.circuit[n].type = "f"
  <2> DEFINE f == [i \in 1 .. 0 |-> {}]
  <2>1. UnderOf(q, n, a) = {}
    BY <1>3, <1>5 DEF MeaningOf, UnderOf
  <2>2. w[n] = 0
    BY <1>2, <2>1, FS_EmptySet
  <2>3. Good(q, w, n, a, f)
    BY <2>2 DEF Good
  <2>4. \A i \in 1 .. w[n] : f[i] = {}
    BY <2>2
  <2> HIDE DEF f
  <2>5. Decodes(q, w, n, a, D, f)
    BY <1>5, <2>4 DEF Decodes
  <2> QED
    BY <2>3, <2>5
<1>6. CASE q.circuit[n].type = "a"
  BY <1>1, <1>2, <1>6, AndDecode
<1>7. CASE q.circuit[n].type \in {"o", "u"}
  BY <1>1, <1>2, <1>7, OrDecode
<1> QED
  BY <1>3, <1>4, <1>5, <1>6, <1>7

\* A map of n depends on those of its children only.
LEMMA DecodesLocal ==
  ASSUME NEW q, IsQuery(q), NEW n \in DOMAIN q.circuit,
         NEW a, Cube(a), NEW w, \A x \in Dsts(q, n) : w[x] \in Nat, w[n] = NodeCount(q, w, n, a),
         NEW D, \A x \in Dsts(q, n) : Good(q, w, x, a, D[x]),
         NEW E, \A x \in Dsts(q, n) : E[x] = D[x],
         NEW f, Decodes(q, w, n, a, D, f)
  PROVE  Decodes(q, w, n, a, E, f)
<1> DEFINE kids == q.circuit[n].children
<1>1. Len(kids) \in Nat /\ DOMAIN kids = 1 .. Len(kids)
  BY CircuitFacts
<1>2. ASSUME NEW i \in 1 .. w[n], q.circuit[n].type = "a"
      PROVE  Members(D, Spread(q, w, kids, a, i)) = Members(E, Spread(q, w, kids, a, i))
  <2> DEFINE S == Spread(q, w, kids, a, i)
  <2>1. i \in 1 .. NodeCount(q, w, n, a)
    OBVIOUS
  <2>2. PickedIs(q, w, n, a, D, i)
    BY <1>2, <2>1, AndPicked
  <2>3. /\ S \in Seq((Nat \ {0}) \X DOMAIN q.circuit) /\ Len(S) = Len(kids)
        /\ \A k \in 1 .. Len(kids) : S[k][2] = kids[k].dst
    BY <2>2 DEF PickedIs
  <2>4. DOMAIN S = 1 .. Len(kids)
    BY <2>3
  <2>5. \A k \in 1 .. Len(kids) : S[k][2] \in Dsts(q, n)
    BY <1>1, <2>3 DEF Dsts
  <2> HIDE DEF S, kids
  <2>6. \A k \in DOMAIN S : D[S[k][2]][S[k][1]] = E[S[k][2]][S[k][1]]
    BY <2>4, <2>5
  <2>7. {D[S[k][2]][S[k][1]] : k \in DOMAIN S} = {E[S[k][2]][S[k][1]] : k \in DOMAIN S}
    BY <2>6
  <2> QED
    BY <2>7 DEF Members, S
<1>3. ASSUME NEW k \in DOMAIN kids, NEW i
      PROVE  Down(q, w, a, D, kids[k], i) = Down(q, w, a, E, kids[k], i)
  <2>1. kids[k].dst \in Dsts(q, n)
    BY DEF Dsts
  <2>2. D[kids[k].dst] = E[kids[k].dst]
    BY <2>1
  <2> QED
    BY <2>2 DEF Down
<1> HIDE DEF kids
<1> QED
  BY <1>2, <1>3 DEF Decodes, kids

\* D maps the ids of every node of V.
IsMap(q, w, V, a, D) == \A n \in V : Good(q, w, n, a, D[n]) /\ Decodes(q, w, n, a, D, D[n])

MapOf(q, w, V, a) == CHOOSE D : IsMap(q, w, V, a, D)

\* The id-to-model map of a set of nodes is defined from the leaves up.
LEMMA MapExists ==
  ASSUME NEW q, IsQuery(q), NEW a, Cube(a), NEW V \in SUBSET DOMAIN q.circuit,
         \A n \in V : Dsts(q, n) \subseteq V, NEW w, Exact(q, w, V, a)
  PROVE  IsMap(q, w, V, a, MapOf(q, w, V, a))
<1> DEFINE Ns == DOMAIN q.circuit
           F == {S \in SUBSET Ns : /\ \A n \in S : Dsts(q, n) \subseteq S
                                  /\ \E D : IsMap(q, w, S \cap V, a, D)}
<1>1. {} \in F
  <2>1. IsMap(q, w, {} \cap V, a, [n \in {} |-> {}])
    BY DEF IsMap
  <2> QED
    BY <2>1
<1>2. ASSUME NEW n \in V
      PROVE  /\ Dsts(q, n) \subseteq V /\ Exact(q, w, Dsts(q, n), a) /\ Exact(q, w, {n}, a)
             /\ \A x \in Dsts(q, n) : w[x] \in Nat
             /\ w[n] = NodeCount(q, w, n, a)
  <2>1. Dsts(q, n) \subseteq V
    OBVIOUS
  <2>2. Exact(q, w, Dsts(q, n), a) /\ Exact(q, w, {n}, a)
    BY <2>1 DEF Exact
  <2>3. \A x \in Dsts(q, n) : w[x] \in Nat
    BY <2>2, FS_CardinalityType DEF Exact
  <2>4. w[n] = NodeCount(q, w, n, a)
    BY <2>2, NodeCountExact DEF Exact
  <2> QED
    BY <2>1, <2>2, <2>3, <2>4
<1>3. ASSUME NEW S \in F, NEW n \in Ns \ S, Dsts(q, n) \subseteq S
      PROVE  S \cup {n} \in F
  <2> DEFINE T == S \cup {n}
  <2>1. PICK D : IsMap(q, w, S \cap V, a, D)
    OBVIOUS
  <2>2. T \in SUBSET Ns /\ \A x \in T : Dsts(q, x) \subseteq S /\ Dsts(q, x) \subseteq T
    BY <1>3
  <2>3. \A x \in S \cap V : Good(q, w, x, a, D[x]) /\ Decodes(q, w, x, a, D, D[x])
    BY <2>1 DEF IsMap
  <2>4. CASE n \notin V
    <3>1. T \cap V = S \cap V
      BY <2>4
    <3> QED
      BY <2>1, <2>2, <3>1
  <2>5. CASE n \in V
    <3>1. \A x \in Dsts(q, n) : Good(q, w, x, a, D[x])
      BY <1>2, <1>3, <2>3, <2>5
    <3>2. PICK f : Good(q, w, n, a, f) /\ Decodes(q, w, n, a, D, f)
      BY <1>2, <2>5, <3>1, NodeDecode
    <3> DEFINE E == [x \in T |-> IF x = n THEN f ELSE D[x]]
    <3>3. E[n] = f /\ \A x \in S : E[x] = D[x]
      OBVIOUS
    <3> HIDE DEF E, F, T
    <3>4. ASSUME NEW x \in T \cap V PROVE Good(q, w, x, a, E[x]) /\ Decodes(q, w, x, a, D, E[x])
      <4>1. x = n \/ x \in S \cap V
        BY <3>4 DEF T
      <4> QED
        BY <2>3, <3>2, <3>3, <4>1 DEF T
    <3>5. ASSUME NEW x \in T \cap V PROVE Decodes(q, w, x, a, E, E[x])
      <4> DEFINE g == E[x]
      <4>1. x \in V /\ Dsts(q, x) \subseteq S \cap V
        BY <1>2, <2>2, <3>5
      <4>2. /\ \A y \in Dsts(q, x) : w[y] \in Nat
            /\ \A y \in Dsts(q, x) : Good(q, w, y, a, D[y])
            /\ \A y \in Dsts(q, x) : E[y] = D[y]
            /\ w[x] = NodeCount(q, w, x, a) /\ Decodes(q, w, x, a, D, g)
        BY <1>2, <2>3, <3>3, <3>4, <4>1
      <4> HIDE DEF g
      <4>3. Decodes(q, w, x, a, E, g)
        BY <4>1, <4>2, DecodesLocal
      <4> QED
        BY <4>3 DEF g
    <3>6. IsMap(q, w, T \cap V, a, E)
      BY <3>4, <3>5 DEF IsMap
    <3> QED
      BY <2>2, <3>6 DEF F, T
  <2> QED
    BY <2>4, <2>5
<1> HIDE DEF F
<1>4. Ns \in F
  BY <1>1, <1>3, CircuitFacts, Upwards
<1>5. \E D : IsMap(q, w, V, a, D)
  <2>1. Ns \cap V = V
    OBVIOUS
  <2> QED
    BY <1>4, <2>1 DEF F
<1> QED
  BY <1>5 DEF MapOf

-----------------------------------------------------------------------------
(* The inductive invariant *)

CubeMap(c) == MapOf(query, mcv[c], visited, query.cubes[c])

\* Nothing happens before a circuit is read.
ReadInv ==
  IF mode = "read"
  THEN /\ query = [circuit |-> <<>>, cubes |-> <<>>, count |-> "mc"] /\ mcv = <<>>
       /\ ordering = <<>> /\ visited = {} /\ annotated = {}
  ELSE IsQuery(query)

\* In the end the root is ordered: until then it is at the bottom of the stack.
OrderInv ==
  /\ ordering \in Seq(Nodes) /\ BottomUp
  /\ mode = "order" => /\ annotated = {}
                       /\ ROOT \in visited \/ (stack # <<>> /\ stack[1] = ROOT)

PhaseInv ==
  /\ mode \in {"read", "annotate", "draw"} => stack = <<>>
  /\ mode \in {"read", "order", "annotate"} => out = <<>>
  /\ mode \in {"draw", "descend"} => annotated = Cubes

CountInv == \A c \in annotated : Exact(query, mcv[c], visited, query.cubes[c])

\* The id that is drawn lies in the slot of its cube, and what s holds and what the stack
\* stands for make up its model.
DescentInv ==
  mode = "descend" =>
    /\ id = Len(out) + 1 /\ id <= mc
    /\ cid \in Cubes /\ SumTo(cid - 1) < id /\ id <= SumTo(cid)
    /\ \A k \in DOMAIN stack : stack[k][2] \in visited /\ stack[k][1] \in 1 .. mcv[cid][stack[k][2]]
    /\ s \cup Members(CubeMap(cid), stack) = CubeMap(cid)[ROOT][id - SumTo(cid - 1)]

OutInv ==
  /\ mode # "read" => out \in Seq(Meaning[ROOT])
  /\ mode = "draw" => Len(out) <= mc
  /\ \A k \in DOMAIN out, c \in Cubes :
       SumTo(c - 1) < k /\ k <= SumTo(c) => out[k] = CubeMap(c)[ROOT][k - SumTo(c - 1)]

AnnfInv == AnnfTypeOK /\ ReadInv /\ OrderInv /\ PhaseInv /\ CountInv /\ DescentInv /\ OutInv

\* Cubes are consistent sets of literals, and there is one.
LEMMA CubesAre ==
  ASSUME NEW q, IsQuery(q)
  PROVE  /\ \A c \in DOMAIN q.cubes : Cube(q.cubes[c])
         /\ Len(q.cubes) \in Nat /\ DOMAIN q.cubes = 1 .. Len(q.cubes) /\ Len(q.cubes) > 0
         /\ DOMAIN q.cubes # {}
<1>1. AreCubes(q)
  BY CircuitFacts
<1>2. q.cubes \in Seq(SUBSET (Int \ {0})) /\ q.cubes # <<>>
  BY <1>1 DEF AreCubes
<1> DEFINE L == q.cubes
<1>3. L \in Seq(SUBSET (Int \ {0})) /\ L # <<>>
  BY <1>2
<1> HIDE DEF L
<1>4. Len(L) \in Nat /\ DOMAIN L = 1 .. Len(L) /\ Len(L) > 0 /\ DOMAIN L # {}
  BY <1>3
<1>5. \A c \in DOMAIN L : L[c] \in SUBSET (Int \ {0})
  BY <1>3
<1>6. \A c \in DOMAIN L : Cube(L[c])
  BY <1>1, <1>5 DEF AreCubes, Cube, L
<1> QED
  BY <1>4, <1>6 DEF L

\* What the ordering is once a circuit is read.
LEMMA Visits ==
  ASSUME AnnfTypeOK, ReadInv, OrderInv, mode # "read"
  PROVE  /\ IsQuery(query) /\ ROOT \in Nodes
         /\ visited \in SUBSET Nodes /\ visited = Range(ordering)
         /\ \A n \in visited : Dsts(query, n) \subseteq visited
         /\ \A k \in DOMAIN ordering : Dsts(query, ordering[k]) \subseteq {ordering[j] : j \in 1 .. k - 1}
         /\ IsInjective(ordering)
<1>1. IsQuery(query)
  BY DEF ReadInv
<1>2. ROOT \in Nodes
  BY <1>1, CircuitFacts DEF Nodes, nodes
<1>3. visited = Range(ordering) /\ ordering \in Seq(Nodes) /\ BottomUp
  BY DEF AnnfTypeOK, OrderInv
<1>4. DOMAIN ordering = 1 .. Len(ordering) /\ Len(ordering) \in Nat
        /\ \A k \in DOMAIN ordering : ordering[k] \in Nodes
  BY <1>3
<1>5. visited = {ordering[k] : k \in DOMAIN ordering}
  BY <1>3 DEF Range
<1>6. \A k \in DOMAIN ordering : Dsts(query, ordering[k]) \subseteq {ordering[j] : j \in 1 .. k - 1}
  BY <1>3 DEF BottomUp, Destinations, Dsts, nodes
<1>7. ASSUME NEW k \in DOMAIN ordering PROVE Dsts(query, ordering[k]) \subseteq visited
  <2>1. \A j \in 1 .. k - 1 : j \in DOMAIN ordering
    BY <1>4
  <2> QED
    BY <1>5, <1>6, <2>1
<1>8. visited \in SUBSET Nodes
  BY <1>4, <1>5
<1>9. \A n \in visited : Dsts(query, n) \subseteq visited
  BY <1>5, <1>7
<1>10. IsInjective(ordering)
  BY <1>3 DEF BottomUp
<1> QED
  BY <1>1, <1>2, <1>3, <1>6, <1>8, <1>9, <1>10

\* What a cube has once it is annotated: exact counts and an id-to-model map.
LEMMA MapFacts ==
  ASSUME AnnfInv, mode \in {"draw", "descend"}, NEW c \in Cubes
  PROVE  /\ IsMap(query, mcv[c], visited, query.cubes[c], CubeMap(c))
         /\ Exact(query, mcv[c], visited, query.cubes[c]) /\ Cube(query.cubes[c])
         /\ ROOT \in visited /\ mcv[c] \in [Nodes -> Nat]
         /\ \A n \in visited : mcv[c][n] = NodeCount(query, mcv[c], n, query.cubes[c])
<1>1. /\ IsQuery(query) /\ visited \in SUBSET Nodes /\ visited = Range(ordering)
      /\ \A n \in visited : Dsts(query, n) \subseteq visited
  BY Visits DEF AnnfInv
<1>2. Exact(query, mcv[c], visited, query.cubes[c])
  BY DEF AnnfInv, PhaseInv, CountInv
<1>3. Cube(query.cubes[c])
  BY <1>1, CubesAre DEF Cubes
<1>4. ROOT \in visited
  BY <1>1 DEF AnnfInv, OrderInv, BottomUp
<1>5. mcv[c] \in [Nodes -> Nat]
  BY DEF AnnfInv, AnnfTypeOK
<1>6. IsMap(query, mcv[c], visited, query.cubes[c], CubeMap(c))
  BY <1>1, <1>2, <1>3, MapExists DEF CubeMap, Nodes, nodes
<1>7. ASSUME NEW n \in visited PROVE mcv[c][n] = NodeCount(query, mcv[c], n, query.cubes[c])
  <2> DEFINE w == mcv[c]
             a == query.cubes[c]
  <2>1. n \in DOMAIN query.circuit /\ Exact(query, w, Dsts(query, n), a)
          /\ w[n] = Cardinality(UnderOf(query, n, a))
    BY <1>1, <1>2 DEF Exact, Nodes, nodes
  <2> HIDE DEF w, a
  <2>2. NodeCount(query, w, n, a) = Cardinality(UnderOf(query, n, a))
    BY <1>1, <1>3, <2>1, NodeCountExact DEF a
  <2> QED
    BY <2>1, <2>2 DEF w, a
<1> QED
  BY <1>2, <1>3, <1>4, <1>5, <1>6, <1>7

\* The slots of the cubes.
LEMMA Slots ==
  ASSUME AnnfTypeOK, IsQuery(query)
  PROVE  \E g : /\ Partials(g, Len(query.cubes), [k \in 1 .. Len(query.cubes) |-> mcv[k][ROOT]])
                /\ [k \in 1 .. Len(query.cubes) |-> mcv[k][ROOT]] \in [1 .. Len(query.cubes) -> Nat]
                /\ \A k \in 0 .. Len(query.cubes) : SumTo(k) = g[k] /\ g[k] \in Nat
                /\ mc = g[Len(query.cubes)]
<1> DEFINE L == Len(query.cubes)
           c == [k \in 1 .. L |-> mcv[k][ROOT]]
<1>1. L \in Nat /\ Cubes = 1 .. L /\ ROOT \in Nodes
  BY CubesAre, CircuitFacts DEF Cubes, Nodes, nodes
<1>2. \A k \in 1 .. L : mcv[k] \in [Nodes -> Nat]
  BY <1>1 DEF AnnfTypeOK
<1>3. c \in [1 .. L -> Nat] /\ \A k \in 1 .. L : c[k] = mcv[k][ROOT]
  BY <1>1, <1>2
<1> HIDE DEF c, L
<1>4. PICK g : Partials(g, L, c)
  BY <1>1, <1>3, PrefixSums
<1>5. ASSUME NEW k \in 0 .. L PROVE SumTo(k) = g[k] /\ g[k] \in Nat
  <2>1. \A j \in 1 .. k : j \in 1 .. L
    BY <1>1
  <2>2. [j \in 1 .. k |-> mcv[j][ROOT]] = [j \in 1 .. k |-> c[j]]
    BY <1>3, <2>1
  <2>3. g[k] = SumOf([j \in 1 .. k |-> c[j]]) /\ g[k] \in Nat
    BY <1>4 DEF Partials
  <2> QED
    BY <2>2, <2>3 DEF SumTo
<1>6. mc = g[L]
  <2>1. L \in 0 .. L
    BY <1>1
  <2> QED
    BY <1>5, <2>1 DEF mc, L
<1> QED
  BY <1>3, <1>4, <1>5, <1>6 DEF c, L

-----------------------------------------------------------------------------
(* What a list of pairs stands for *)

\* An empty stack stands for nothing.
LEMMA MembersOfNone ==
  ASSUME NEW D
  PROVE  Members(D, <<>>) = {}
BY DEF Members

\* A pair stands for the model of its id.
LEMMA MembersOfOne ==
  ASSUME NEW D, NEW i, NEW n
  PROVE  Members(D, <<<<i, n>>>>) = D[n][i]
<1> DEFINE S == <<<<i, n>>>>
<1>1. DOMAIN S = {1} /\ S[1][1] = i /\ S[1][2] = n
  OBVIOUS
<1> HIDE DEF S
<1>2. {D[S[k][2]][S[k][1]] : k \in DOMAIN S} = {D[n][i]}
  BY <1>1
<1> QED
  BY <1>2 DEF Members, S

\* What two lists of pairs stand for adds up.
LEMMA MembersConcat ==
  ASSUME NEW D, NEW P, NEW S \in Seq(P), NEW T \in Seq(P)
  PROVE  Members(D, S \o T) = Members(D, S) \cup Members(D, T)
<1> DEFINE U == S \o T
           m == Len(S)
           l == Len(T)
           h(X, k) == D[X[k][2]][X[k][1]]
<1>1. m \in Nat /\ l \in Nat /\ DOMAIN S = 1 .. m /\ DOMAIN T = 1 .. l /\ DOMAIN U = 1 .. m + l
  OBVIOUS
<1>2. \A k \in 1 .. m : k \in 1 .. m + l /\ U[k] = S[k]
  BY <1>1
<1>3. \A k \in 1 .. l : k + m \in 1 .. m + l /\ U[k + m] = T[k]
  BY <1>1
<1>4. \A k \in 1 .. m + l : k \in 1 .. m \/ (k - m \in 1 .. l /\ k = (k - m) + m)
  BY <1>1
<1> HIDE DEF U, m, l
<1>5. {h(U, k) : k \in DOMAIN U} = {h(S, k) : k \in DOMAIN S} \cup {h(T, k) : k \in DOMAIN T}
  <2>1. ASSUME NEW x \in {h(U, k) : k \in DOMAIN U}
        PROVE  x \in {h(S, k) : k \in DOMAIN S} \cup {h(T, k) : k \in DOMAIN T}
    <3>1. PICK k \in 1 .. m + l : x = h(U, k)
      BY <1>1, <2>1
    <3>2. CASE k \in 1 .. m
      BY SMTT(30), <1>1, <1>2, <3>1, <3>2
    <3>3. CASE k - m \in 1 .. l /\ k = (k - m) + m
      <4>1. U[k] = T[k - m]
        BY <1>3, <3>3
      <4> QED
        BY <1>1, <3>1, <3>3, <4>1
    <3> QED
      BY <1>4, <3>2, <3>3
  <2>2. \A k \in DOMAIN S : h(S, k) \in {h(U, j) : j \in DOMAIN U}
    BY <1>1, <1>2
  <2>3. \A k \in DOMAIN T : h(T, k) \in {h(U, j) : j \in DOMAIN U}
    BY <1>1, <1>3
  <2> QED
    BY ZenonT(40), <2>1, <2>2, <2>3
<1> QED
  BY <1>5 DEF Members, U

\* Without its last pair.
LEMMA MembersTop ==
  ASSUME NEW D, NEW P, NEW S \in Seq(P), S # <<>>
  PROVE  LET B == SubSeq(S, 1, Len(S) - 1)
             t == S[Len(S)]
         IN  /\ B \in Seq(P) /\ \A k \in DOMAIN B : k \in DOMAIN S /\ B[k] = S[k]
             /\ t \in P /\ Len(S) \in DOMAIN S
             /\ Members(D, S) = Members(D, B) \cup D[t[2]][t[1]]
<1> DEFINE B == SubSeq(S, 1, Len(S) - 1)
           m == Len(S)
           t == S[m]
           h(X, k) == D[X[k][2]][X[k][1]]
<1>1. m \in Nat /\ m > 0 /\ DOMAIN S = 1 .. m /\ t \in P
  OBVIOUS
<1>2. B \in Seq(P) /\ Len(B) = m - 1 /\ \A k \in 1 .. m - 1 : B[k] = S[k]
  BY <1>1
<1>3. DOMAIN B = 1 .. m - 1
  BY <1>2
<1>4. m \in DOMAIN S /\ \A k \in 1 .. m - 1 : k \in DOMAIN S
  BY <1>1
<1>5. \A k \in DOMAIN S : k \in 1 .. m - 1 \/ k = m
  BY <1>1
<1> HIDE DEF B, m
<1>6. {h(S, k) : k \in DOMAIN S} = {h(B, k) : k \in DOMAIN B} \cup {D[t[2]][t[1]]}
  BY <1>2, <1>3, <1>4, <1>5
<1> QED
  BY <1>1, <1>2, <1>3, <1>4, <1>6 DEF Members, B, m

-----------------------------------------------------------------------------
(* Every step preserves the invariant *)

\* Nothing is read at first.
LEMMA InvInit ==
  ASSUME AnnfInit
  PROVE  AnnfInv
<1>1. /\ query = [circuit |-> <<>>, cubes |-> <<>>, count |-> "mc"] /\ mode = "read"
      /\ stack = <<>> /\ visited = {} /\ ordering = <<>> /\ annotated = {} /\ mcv = <<>>
      /\ id = 0 /\ cid = 0 /\ out = <<>>
  BY DEF AnnfInit
<1>2. Nodes = {} /\ Cubes = {}
  <2>1. query.circuit = <<>> /\ query.cubes = <<>> /\ DOMAIN <<>> = {}
    BY <1>1
  <2> QED
    BY <2>1 DEF Nodes, nodes, Cubes
<1>3. DOMAIN ordering = {} /\ DOMAIN out = {} /\ Range(ordering) = {}
  BY <1>1 DEF Range
<1>4. AnnfTypeOK
  <2>1. mcv \in [Cubes -> [Nodes -> Nat]]
    BY <1>1, <1>2
  <2>2. query.count = "mc" /\ stack \in Seq((Nat \ {0}) \X Nodes)
    BY <1>1
  <2> QED
    BY <1>1, <1>3, <2>1, <2>2 DEF AnnfTypeOK
<1>5. BottomUp
  BY <1>1, <1>3 DEF BottomUp, IsInjective
<1>6. OrderInv
  BY <1>1, <1>5 DEF OrderInv
<1>7. ReadInv /\ PhaseInv /\ CountInv /\ DescentInv
  BY <1>1 DEF ReadInv, PhaseInv, CountInv, DescentInv
<1>8. OutInv
  BY <1>1, <1>3 DEF OutInv
<1> QED
  BY <1>4, <1>6, <1>7, <1>8 DEF AnnfInv

\* Reading a circuit starts the ordering at its root.
LEMMA InvRead ==
  ASSUME AnnfInv, NEW p, IsQuery(p), Read(p)
  PROVE  AnnfInv'
<1>1. /\ mode = "read" /\ query' = p /\ mode' = "order" /\ stack' = <<ROOT>>
      /\ mcv' = [c \in DOMAIN p.cubes |-> [n \in DOMAIN p.circuit |-> 0]]
      /\ visited' = visited /\ ordering' = ordering /\ annotated' = annotated
      /\ id' = id /\ cid' = cid /\ out' = out
  BY DEF Read
<1>2. /\ visited = {} /\ ordering = <<>> /\ annotated = {} /\ out = <<>> /\ id \in Nat
           /\ cid \in Cubes \cup {0}
      /\ Cubes = {}
  <2>1. query.cubes = <<>> /\ DOMAIN <<>> = {}
    BY <1>1 DEF AnnfInv, ReadInv
  <2> QED
    BY <1>1, <2>1 DEF AnnfInv, ReadInv, PhaseInv, AnnfTypeOK, Cubes
<1>3. p.count \in {"mc", "pc"} /\ ROOT \in DOMAIN p.circuit /\ p.circuit \in Seq(Shape)
  BY CircuitFacts
<1>4. Nodes' = DOMAIN p.circuit /\ Cubes' = DOMAIN p.cubes /\ IsQuery(query)'
  BY <1>1 DEF Nodes, nodes, Cubes
<1>5. DOMAIN ordering = {} /\ DOMAIN out = {} /\ Range(ordering) = {}
  BY <1>2 DEF Range
<1>6. AnnfTypeOK'
  <2>1. mcv' \in [Cubes' -> [Nodes' -> Nat]]
    BY <1>1, <1>4
  <2>2. stack' \in Seq(Nodes')
    <3> DEFINE Ns == Nodes'
    <3>1. ROOT \in Ns
      BY <1>3, <1>4
    <3> HIDE DEF Ns
    <3>2. <<ROOT>> \in Seq(Ns)
      BY <3>1
    <3> QED
      BY <1>1, <3>2 DEF Ns
  <2>3. visited' = Range(ordering)'
    BY <1>1, <1>2, <1>5
  <2> QED
    BY <1>1, <1>2, <1>3, <1>4, <2>1, <2>2, <2>3 DEF AnnfTypeOK
<1>7. BottomUp'
  <2>1. DOMAIN ordering' = {}
    BY <1>1, <1>5
  <2> QED
    BY <1>1, <2>1 DEF BottomUp, IsInjective
<1>8. OrderInv'
  <2>1. ordering' \in Seq(Nodes')
    BY <1>1, <1>2
  <2>2. stack' # <<>> /\ stack'[1] = ROOT
    BY <1>1
  <2> QED
    BY <1>1, <1>2, <1>7, <2>1, <2>2 DEF OrderInv
<1>9. (ReadInv /\ PhaseInv /\ CountInv /\ DescentInv)'
  BY <1>1, <1>2 DEF ReadInv, PhaseInv, CountInv, DescentInv
<1>10. OutInv'
  <2>1. out' = <<>> /\ DOMAIN out' = {} /\ out' \in Seq(Meaning[ROOT]')
    BY <1>1, <1>2, <1>5
  <2> QED
    BY <1>1, <2>1 DEF OutInv
<1> QED
  BY <1>6, <1>8, <1>9, <1>10 DEF AnnfInv

\* When the stack of compute_ordering is empty, the root is ordered.
LEMMA InvOrdered ==
  ASSUME AnnfInv, Ordered
  PROVE  AnnfInv'
<1>1. /\ mode = "order" /\ stack = <<>> /\ mode' = "annotate"
      /\ UNCHANGED <<query, stack, visited, ordering, annotated, mcv, id, cid, s, out>>
  BY DEF Ordered
<1>2. ROOT \in visited /\ annotated = {} /\ out = <<>> /\ IsQuery(query)
  BY <1>1 DEF AnnfInv, OrderInv, PhaseInv, ReadInv
<1>3. Nodes' = Nodes /\ Cubes' = Cubes
  BY <1>1 DEF Nodes, nodes, Cubes
<1>4. AnnfTypeOK'
  <2>1. stack' \in Seq((Nat \ {0}) \X Nodes') /\ Range(ordering)' = Range(ordering)
    BY <1>1
  <2> QED
    BY <1>1, <1>3, <2>1 DEF AnnfInv, AnnfTypeOK
<1>5. BottomUp'
  <2>1. BottomUp /\ ROOT \in Range(ordering)
    BY <1>2 DEF AnnfInv, OrderInv, AnnfTypeOK
  <2>2. \A n : Destinations(n)' = Destinations(n)
    BY <1>1 DEF Destinations, nodes
  <2>3. IsInjective(ordering)' /\ Range(ordering)' = Range(ordering)
    BY <1>1, <2>1 DEF BottomUp
  <2> QED
    BY <1>1, <2>1, <2>2, <2>3 DEF BottomUp
<1>6. (OrderInv /\ ReadInv /\ PhaseInv /\ CountInv /\ DescentInv)'
  BY <1>1, <1>2, <1>3, <1>5 DEF AnnfInv, OrderInv, ReadInv, PhaseInv, CountInv, DescentInv
<1>7. OutInv'
  <2>1. out' = <<>> /\ DOMAIN out' = {} /\ out' \in Seq(Meaning[ROOT]')
    BY <1>1, <1>2
  <2> QED
    BY <1>1, <2>1 DEF OutInv
<1> QED
  BY <1>4, <1>6, <1>7 DEF AnnfInv

\* The nodes pushed lie above those on the stack.
PushedAbove(T, Ns, S) == T \in Seq(Ns) /\ T # <<>> /\ T[1] = S[1]

\* What compute_ordering pushes leaves the bottom of the stack alone.
LEMMA PushedFacts ==
  ASSUME NEW Ns, NEW S \in Seq(Ns), S # <<>>, NEW V, NEW n \in Nat, NEW c,
         \A k \in 1 .. n : c[k].dst \in Ns, NEW g, PushRun(g, Ns, S, n, c, V)
  PROVE  PushedAbove(g[n], Ns, S)
<1>1. /\ g \in [0 .. n -> Seq(Ns)] /\ g[0] = S
      /\ \A k \in 1 .. n : g[k] = (IF c[k].dst \in V THEN g[k - 1] ELSE Append(g[k - 1], c[k].dst))
  BY DEF PushRun
<1> DEFINE F == {k \in 0 .. n : g[k] # <<>> /\ g[k][1] = S[1]}
<1>2. 0 \in F
  BY <1>1
<1>3. ASSUME NEW k \in 1 .. n, k - 1 \in F PROVE k \in F
  <2> DEFINE p == g[k - 1]
  <2>1. k \in 0 .. n /\ k - 1 \in 0 .. n
    OBVIOUS
  <2>2. p # <<>> /\ p[1] = S[1] /\ p \in Seq(Ns)
    BY <1>1, <1>3, <2>1
  <2>3. g[k] = p \/ g[k] = Append(p, c[k].dst)
    BY <1>1
  <2>4. c[k].dst \in Ns
    OBVIOUS
  <2> HIDE DEF p, F
  <2>5. Append(p, c[k].dst) # <<>> /\ Append(p, c[k].dst)[1] = p[1]
    BY <2>2, <2>4
  <2> QED
    BY <2>1, <2>2, <2>3, <2>5 DEF F
<1> HIDE DEF F
<1>4. n \in F
  <2>1. \A k \in 0 .. n : k \in F
    BY <1>2, <1>3, CountUp
  <2> QED
    BY <2>1
<1>5. g[n] \in Seq(Ns) /\ g[n] # <<>> /\ g[n][1] = S[1]
  BY <1>1, <1>4 DEF F
<1> QED
  BY <1>5 DEF PushedAbove

\* What is left below a node that is not the root has the root at its bottom.
LEMMA RootBelow ==
  ASSUME NEW Ns, NEW S \in Seq(Ns), S # <<>>, NEW r, S[1] = r, S[Len(S)] # r
  PROVE  LET B == SubSeq(S, 1, Len(S) - 1) IN B # <<>> /\ B[1] = r
<1> DEFINE m == Len(S)
           B == SubSeq(S, 1, m - 1)
<1>1. m \in Nat /\ m > 1
  OBVIOUS
<1>2. Len(B) = m - 1 /\ \A k \in 1 .. m - 1 : B[k] = S[k]
  BY <1>1
<1>3. 1 \in 1 .. m - 1 /\ m - 1 # 0
  BY <1>1
<1> HIDE DEF B, m
<1>4. B # <<>> /\ B[1] = S[1]
  BY <1>2, <1>3
<1> QED
  BY <1>4 DEF B, m

\* A turn of compute_ordering: a node is ordered once, after its children.
LEMMA InvOrder ==
  ASSUME AnnfInv, Order
  PROVE  AnnfInv'
<1>1. /\ mode = "order" /\ mode' = "order" /\ stack # <<>>
      /\ query' = query /\ annotated' = annotated /\ mcv' = mcv /\ id' = id /\ cid' = cid /\ out' = out
  BY DEF Order
<1>2. /\ annotated = {} /\ out = <<>> /\ IsQuery(query) /\ stack \in Seq(Nodes)
      /\ ordering \in Seq(Nodes) /\ visited = Range(ordering) /\ BottomUp
      /\ ROOT \in visited \/ stack[1] = ROOT
      /\ query.count \in {"mc", "pc"} /\ mcv \in [Cubes -> [Nodes -> Nat]] /\ id \in Nat
           /\ cid \in Cubes \cup {0}
  BY <1>1 DEF AnnfInv, AnnfTypeOK, OrderInv, PhaseInv, ReadInv
<1>3. Nodes' = Nodes /\ Cubes' = Cubes /\ \A n : Destinations(n)' = Destinations(n)
  BY <1>1 DEF Nodes, nodes, Cubes, Destinations
<1>4. Top \in Nodes /\ Below \in Seq(Nodes) /\ (Top # ROOT /\ stack[1] = ROOT => Below # <<>>
        /\ Below[1] = ROOT)
  <2>1. Top \in Nodes /\ Below \in Seq(Nodes)
    BY <1>1, <1>2 DEF Top, Below
  <2> QED
    BY <1>1, <1>2, <2>1, RootBelow DEF Top, Below
<1>5. SUFFICES /\ stack' \in Seq(Nodes) /\ ordering' \in Seq(Nodes) /\ visited' = Range(ordering')
               /\ BottomUp'
               /\ ROOT \in visited' \/ (stack' # <<>> /\ stack'[1] = ROOT)
  <2>1. AnnfTypeOK'
    <3>1. Range(ordering)' = Range(ordering')
      OBVIOUS
    <3> QED
      BY <1>1, <1>2, <1>3, <1>5, <3>1 DEF AnnfTypeOK
  <2>2. (OrderInv /\ ReadInv /\ PhaseInv /\ CountInv /\ DescentInv)'
    BY <1>1, <1>2, <1>3, <1>5 DEF OrderInv, ReadInv, PhaseInv, CountInv, DescentInv
  <2>3. OutInv'
    <3>1. out' = <<>> /\ DOMAIN out' = {} /\ out' \in Seq(Meaning[ROOT]')
      BY <1>1, <1>2
    <3> QED
      BY <1>1, <3>1 DEF OutInv
  <2> QED
    BY <2>1, <2>2, <2>3 DEF AnnfInv
<1>6. ASSUME ordering' = ordering, visited' = visited
      PROVE  BottomUp' /\ ordering' \in Seq(Nodes) /\ visited' = Range(ordering')
  <2>1. BottomUp /\ ordering' = ordering /\ mode' = mode /\ \A n : Destinations(n)' = Destinations(n)
    BY <1>1, <1>2, <1>3, <1>6
  <2>2. IsInjective(ordering)' = IsInjective(ordering) /\ Range(ordering)' = Range(ordering)
    BY <2>1
  <2>3. BottomUp'
    BY <2>1, <2>2 DEF BottomUp
  <2> QED
    BY <1>2, <1>6, <2>3
<1>7. CASE Top \in visited
  <2>1. stack' = Below /\ visited' = visited /\ ordering' = ordering
    BY <1>7 DEF Order
  <2>2. ROOT \in visited \/ (Below # <<>> /\ Below[1] = ROOT)
    BY <1>2, <1>4, <1>7
  <2> QED
    BY <1>4, <1>6, <2>1, <2>2
<1>8. CASE Top \notin visited /\ AllDone(Top)
  <2>1. stack' = Below /\ visited' = visited \cup {Top} /\ ordering' = Append(ordering, Top)
    BY <1>8 DEF Order
  <2> DEFINE t == Top
             n == Len(ordering)
             o == Append(ordering, t)
  <2>2. /\ n \in Nat /\ DOMAIN ordering = 1 .. n /\ o \in Seq(Nodes) /\ DOMAIN o = 1 .. n + 1
        /\ o[n + 1] = t /\ \A k \in 1 .. n : o[k] = ordering[k]
    BY <1>2, <1>4
  <2>3. t \notin visited /\ visited = {ordering[k] : k \in 1 .. n} /\ Destinations(t) \subseteq visited
    BY <1>2, <1>8, <2>2 DEF Range, AllDone
  <2>4. /\ \A k \in 1 .. n : Destinations(ordering[k]) \subseteq {ordering[j] : j \in 1 .. k - 1}
        /\ \A j, k \in 1 .. n : ordering[j] = ordering[k] => j = k
    BY <1>2, <2>2 DEF BottomUp, IsInjective
  <2>5. ordering' = o
    BY <2>1
  <2> HIDE DEF t, n, o
  <2>6. \A k \in 1 .. n + 1 : k \in 1 .. n \/ k = n + 1
    BY <2>2
  <2>7. Range(o) = visited \cup {t}
    <3>1. Range(o) = {o[k] : k \in 1 .. n + 1}
      BY <2>2 DEF Range
    <3>2. n + 1 \in 1 .. n + 1 /\ \A k \in 1 .. n : k \in 1 .. n + 1
      BY <2>2
    <3> QED
      BY <2>2, <2>3, <2>6, <3>1, <3>2
  <2>8. IsInjective(o)
    <3>1. \A k \in 1 .. n : o[k] # t
      BY <2>2, <2>3
    <3>2. \A j, k \in 1 .. n + 1 : o[j] = o[k] => j = k
      BY <2>2, <2>4, <2>6, <3>1
    <3> QED
      BY <2>2, <3>2 DEF IsInjective
  <2>9. ASSUME NEW k \in DOMAIN o
        PROVE  Destinations(o[k]) \subseteq {o[j] : j \in 1 .. k - 1}
    <3>1. CASE k \in 1 .. n
      <4>1. \A j \in 1 .. k - 1 : j \in 1 .. n
        BY <2>2, <3>1
      <4>2. {o[j] : j \in 1 .. k - 1} = {ordering[j] : j \in 1 .. k - 1}
        BY <2>2, <4>1
      <4> QED
        BY <2>2, <2>4, <3>1, <4>2
    <3>2. CASE k = n + 1
      <4>1. k - 1 = n
        BY <2>2, <3>2
      <4>2. {o[j] : j \in 1 .. n} = {ordering[j] : j \in 1 .. n}
        BY <2>2
      <4> QED
        BY <2>2, <2>3, <3>2, <4>1, <4>2
    <3> QED
      BY <2>2, <2>6, <3>1, <3>2
  <2>10. BottomUp'
    BY <1>1, <1>3, <2>5, <2>8, <2>9 DEF BottomUp
  <2>11. ROOT \in visited' \/ (stack' # <<>> /\ stack'[1] = ROOT)
    BY <1>2, <1>4, <2>1 DEF t
  <2>12. visited' = Range(ordering')
    BY <2>1, <2>5, <2>7 DEF t
  <2> QED
    BY <1>4, <2>1, <2>2, <2>5, <2>10, <2>11, <2>12
<1>9. CASE Top \notin visited /\ ~AllDone(Top)
  <2>1. stack' = Pushed(Top) /\ visited' = visited /\ ordering' = ordering
    BY <1>9 DEF Order
  <2> DEFINE c == nodes[Top].children
  <2>2. c \in Seq(Edges) /\ Destinations(Top) \subseteq Nodes
    BY <1>2, <1>4, CircuitFacts DEF Nodes, nodes, Dsts, Destinations
  <2>3. \A k \in DOMAIN c : c[k].dst \in Nodes
    BY <2>2 DEF Destinations
  <2> DEFINE n == Len(c)
  <2>5. n \in Nat /\ c \in [1 .. n -> Edges] /\ \A k \in 1 .. n : c[k].dst \in Nodes
    BY <2>2, <2>3
  <2>6. Pushed(Top) = FoldLeft(LAMBDA st, e : IF e.dst \in visited THEN st ELSE Append(st, e.dst), stack, c)
    BY DEF Pushed
  <2> HIDE DEF c, n
  <2>7. PICK g : PushRun(g, Nodes, stack, n, c, visited)
    BY <1>2, <2>5, PushFold
  <2>8. Pushed(Top) = g[n]
    BY <2>6, <2>7 DEF PushRun
  <2>9. PushedAbove(g[n], Nodes, stack)
    BY <1>1, <1>2, <2>5, <2>7, PushedFacts
  <2>4. Pushed(Top) \in Seq(Nodes) /\ Pushed(Top) # <<>> /\ Pushed(Top)[1] = stack[1]
    BY <2>8, <2>9 DEF PushedAbove
  <2> QED
    BY <1>2, <1>6, <2>1, <2>4
<1> QED
  BY <1>7, <1>8, <1>9

\* A sum is a number.
LEMMA SumType ==
  ASSUME NEW n \in Nat, NEW c \in [1 .. n -> Nat]
  PROVE  SumOf(c) \in Nat
<1>1. PICK g : Partials(g, n, c)
  BY PrefixSums
<1> QED
  BY <1>1 DEF Partials

\* Annotating a cube makes its counts exact.
LEMMA InvAnnotate ==
  ASSUME AnnfInv, NEW c \in Cubes, Annotate(c)
  PROVE  AnnfInv'
<1> DEFINE w == Annotated(query, query.cubes[c], ordering)
<1>1. /\ mode = "annotate" /\ c \in Cubes \ annotated /\ mcv' = [mcv EXCEPT ![c] = w]
      /\ annotated' = annotated \cup {c} /\ mode' = IF annotated' = Cubes THEN "draw" ELSE "annotate"
      /\ UNCHANGED <<query, stack, visited, ordering, id, cid, s, out>>
  BY DEF Annotate
<1>2. /\ IsQuery(query) /\ ROOT \in Nodes /\ visited \in SUBSET Nodes /\ visited = Range(ordering)
      /\ \A k \in DOMAIN ordering : Dsts(query, ordering[k]) \subseteq {ordering[j] : j \in 1 .. k - 1}
      /\ IsInjective(ordering)
  BY <1>1, Visits DEF AnnfInv
<1>3. /\ ordering \in Seq(Nodes) /\ BottomUp /\ ROOT \in Range(ordering) /\ stack = <<>> /\ out = <<>>
      /\ annotated \subseteq Cubes /\ mcv \in [Cubes -> [Nodes -> Nat]] /\ id \in Nat
           /\ cid \in Cubes \cup {0}
      /\ query.count \in {"mc", "pc"} /\ CountInv
  BY <1>1 DEF AnnfInv, OrderInv, PhaseInv, AnnfTypeOK, BottomUp
<1>4. w \in [Nodes -> Nat] /\ Exact(query, w, visited, query.cubes[c])
  <2>1. Cube(query.cubes[c])
    BY <1>2, CubesAre DEF Cubes
  <2>2. ordering \in Seq(DOMAIN query.circuit)
    BY <1>3 DEF Nodes, nodes
  <2> QED
    BY <1>2, <2>1, <2>2, AnnotatedExact DEF Nodes, nodes
<1> HIDE DEF w
<1>5. Nodes' = Nodes /\ Cubes' = Cubes /\ \A n : Destinations(n)' = Destinations(n)
  BY <1>1 DEF Nodes, nodes, Cubes, Destinations
<1>6. mcv' \in [Cubes -> [Nodes -> Nat]] /\ mcv'[c] = w /\ \A d \in Cubes : d # c => mcv'[d] = mcv[d]
  BY <1>1, <1>3, <1>4
<1>7. mode' \in {"annotate", "draw"} /\ (mode' = "draw" => annotated' = Cubes)
  BY <1>1
<1>8. AnnfTypeOK'
  <2>1. stack' \in Seq((Nat \ {0}) \X Nodes') /\ Range(ordering)' = Range(ordering)
    BY <1>1, <1>3
  <2> QED
    BY <1>1, <1>2, <1>3, <1>5, <1>6, <1>7, <2>1 DEF AnnfTypeOK
<1>9. BottomUp'
  <2>1. IsInjective(ordering)' /\ Range(ordering)' = Range(ordering)
    BY <1>1, <1>2
  <2> QED
    BY <1>1, <1>3, <1>5, <2>1 DEF BottomUp
<1>10. (OrderInv /\ ReadInv /\ PhaseInv /\ DescentInv)'
  BY <1>1, <1>2, <1>3, <1>5, <1>7, <1>9 DEF OrderInv, ReadInv, PhaseInv, DescentInv
<1>11. CountInv'
  <2>1. ASSUME NEW d \in annotated' PROVE Exact(query, mcv'[d], visited, query.cubes[d])
    <3>1. CASE d = c
      BY <1>4, <1>6, <3>1
    <3>2. CASE d # c
      <4>1. d \in annotated /\ d \in Cubes
        BY <1>1, <1>3, <2>1, <3>2
      <4> QED
        BY <1>3, <1>6, <3>2, <4>1 DEF CountInv
    <3> QED
      BY <3>1, <3>2
  <2> QED
    BY <1>1, <2>1 DEF CountInv
<1>12. OutInv'
  <2>1. out' = <<>> /\ DOMAIN out' = {} /\ out' \in Seq(Meaning[ROOT]') /\ Len(out') = 0
    BY <1>1, <1>3
  <2>2. mc' \in Nat
    <3> DEFINE L == Len(query.cubes)
               v == [k \in 1 .. L |-> mcv'[k][ROOT]]
    <3>1. L \in Nat /\ Cubes = 1 .. L
      BY <1>2, CubesAre DEF Cubes
    <3>2. v \in [1 .. L -> Nat]
      BY <1>2, <1>6, <3>1
    <3>3. mc' = SumOf(v)
      BY <1>1 DEF mc, SumTo
    <3> HIDE DEF L, v
    <3> QED
      BY <3>1, <3>2, <3>3, SumType
  <2>3. 0 <= mc'
    BY <2>2
  <2> QED
    BY <2>1, <2>3 DEF OutInv
<1> QED
  BY <1>8, <1>10, <1>11, <1>12 DEF AnnfInv

\* The steps after the circuit is annotated.
Going == mode \in {"draw", "descend"}
Keeps ==
  /\ UNCHANGED <<query, visited, ordering, annotated, mcv>>
  /\ stack' \in Seq((Nat \ {0}) \X Nodes) /\ id' \in Nat /\ cid' \in Cubes \cup {0}
Kept ==
  /\ AnnfTypeOK' /\ ReadInv' /\ OrderInv' /\ CountInv'
  /\ Nodes' = Nodes /\ Cubes' = Cubes /\ mc' = mc /\ Meaning' = Meaning
  /\ \A c : CubeMap(c)' = CubeMap(c) /\ SumTo(c)' = SumTo(c)

\* The steps of a drawing leave the ordering, the counts and the maps alone.
LEMMA KeepsAll ==
  ASSUME AnnfInv, Going, Going', Keeps
  PROVE  Kept
<1>1. /\ mode \in {"draw", "descend"} /\ mode' \in {"draw", "descend"}
      /\ query' = query /\ visited' = visited /\ ordering' = ordering /\ annotated' = annotated
           /\ mcv' = mcv
      /\ stack' \in Seq((Nat \ {0}) \X Nodes) /\ id' \in Nat /\ cid' \in Cubes \cup {0}
  BY DEF Going, Keeps
<1>2. Nodes' = Nodes /\ Cubes' = Cubes /\ \A n : Destinations(n)' = Destinations(n)
  BY <1>1 DEF Nodes, nodes, Cubes, Destinations
<1>3. ASSUME NEW c PROVE CubeMap(c)' = CubeMap(c)
  BY <1>1 DEF CubeMap
<1>4. ASSUME NEW c PROVE SumTo(c)' = SumTo(c)
  BY <1>1 DEF SumTo
<1>5. mc' = mc
  BY <1>1 DEF mc, SumTo
<1>6. Meaning' = Meaning
  BY <1>1 DEF Meaning
<1>7. AnnfTypeOK'
  <2>1. Range(ordering)' = Range(ordering)
    BY <1>1
  <2> QED
    BY <1>1, <1>2, <2>1 DEF AnnfInv, AnnfTypeOK
<1>8. BottomUp'
  <2>1. IsInjective(ordering)' = IsInjective(ordering) /\ Range(ordering)' = Range(ordering)
    BY <1>1
  <2> QED
    BY <1>1, <1>2, <2>1 DEF AnnfInv, OrderInv, BottomUp
<1>9. ReadInv' /\ OrderInv' /\ CountInv'
  BY <1>1, <1>2, <1>8 DEF AnnfInv, ReadInv, OrderInv, CountInv
<1> QED
  BY <1>2, <1>3, <1>4, <1>5, <1>6, <1>7, <1>9 DEF Kept

\* The slot of a cube.
LEMMA SlotFacts ==
  ASSUME AnnfTypeOK, IsQuery(query)
  PROVE  /\ mc \in Nat /\ \A c \in Cubes : c \in Nat /\ SumTo(c - 1) \in Nat
              /\ SumTo(c) = SumTo(c - 1) + mcv[c][ROOT]
         /\ \A c \in Cubes : mcv[c][ROOT] \in Nat /\ SumTo(c) <= mc
         /\ \A x \in 1 .. mc : \E c \in Cubes : SumTo(c - 1) < x /\ x <= SumTo(c)
         /\ \A x \in Nat : \A c, d \in Cubes :
              SumTo(c - 1) < x /\ x <= SumTo(c) /\ SumTo(d - 1) < x /\ x <= SumTo(d) => c = d
<1> DEFINE L == Len(query.cubes)
           v == [k \in 1 .. L |-> mcv[k][ROOT]]
<1>1. PICK g : /\ Partials(g, L, v) /\ v \in [1 .. L -> Nat]
               /\ \A k \in 0 .. L : SumTo(k) = g[k] /\ g[k] \in Nat
               /\ mc = g[L]
  BY Slots
<1>2. L \in Nat /\ Cubes = 1 .. L
  BY CubesAre DEF Cubes
<1>3. \A k \in 1 .. L : v[k] = mcv[k][ROOT]
  OBVIOUS
<1> HIDE DEF L, v
<1>4. L \in 0 .. L /\ \A k \in 1 .. L : k \in Nat /\ k \in 0 .. L /\ k - 1 \in 0 .. L /\ k <= L
  BY <1>2
<1>5. \A k \in 1 .. L : g[k] = g[k - 1] + v[k] /\ v[k] \in Nat
  BY <1>1 DEF Partials
<1>6. mc \in Nat
  BY <1>1, <1>4
<1>7. \A c \in Cubes : c \in Nat /\ SumTo(c - 1) \in Nat /\ SumTo(c) = SumTo(c - 1) + mcv[c][ROOT]
  BY <1>1, <1>2, <1>3, <1>4, <1>5
<1>8. \A c \in Cubes : mcv[c][ROOT] \in Nat
  BY <1>2, <1>3, <1>5
<1>9. \A c \in Cubes : SumTo(c) <= mc
  <2> TAKE c \in Cubes
  <2>1. c \in 0 .. L /\ c <= L
    BY <1>2, <1>4
  <2>2. g[c] <= g[L]
    BY <1>1, <1>2, <1>4, <2>1, PrefixGrows
  <2> QED
    BY <1>1, <2>1, <2>2
<1>10. ASSUME NEW x \in 1 .. mc PROVE \E c \in Cubes : SumTo(c - 1) < x /\ x <= SumTo(c)
  <2>1. x \in 1 .. g[L]
    BY <1>1
  <2>2. PICK k \in 1 .. L : g[k - 1] < x /\ x <= g[k]
    BY <1>1, <1>2, <2>1, SlotExists
  <2>3. SumTo(k - 1) < x /\ x <= SumTo(k)
    BY <1>1, <1>4, <2>2
  <2> QED
    BY <1>2, <2>3
<1>11. ASSUME NEW x \in Nat, NEW c \in Cubes, NEW d \in Cubes,
              SumTo(c - 1) < x, x <= SumTo(c), SumTo(d - 1) < x, x <= SumTo(d)
       PROVE  c = d
  <2>1. c \in 1 .. L /\ d \in 1 .. L
    BY <1>2
  <2>2. g[c - 1] < x /\ x <= g[c] /\ g[d - 1] < x /\ x <= g[d]
    BY <1>1, <1>4, <1>11, <2>1
  <2> QED
    BY <1>1, <1>2, <2>1, <2>2, SlotUnique
<1> QED
  BY <1>6, <1>7, <1>8, <1>9, <1>10, <1>11

\* The id that is drawn falls in the slot of a cube, and in the range of its root.
LEMMA InvDrawId ==
  ASSUME AnnfInv, DrawId
  PROVE  AnnfInv'
<1>1. /\ mode = "draw" /\ Len(out) < mc /\ id' = Len(out) + 1
      /\ cid' = CHOOSE c \in Cubes : SumTo(c - 1) < id' /\ id' <= SumTo(c)
      /\ stack' = <<<<id' - SumTo(cid' - 1), ROOT>>>> /\ s' = {} /\ mode' = "descend"
      /\ UNCHANGED <<query, visited, ordering, annotated, mcv, out>>
  BY DEF DrawId
<1>2. IsQuery(query) /\ AnnfTypeOK /\ annotated = Cubes /\ OutInv /\ ROOT \in Nodes
  BY <1>1, CircuitFacts DEF AnnfInv, ReadInv, PhaseInv, Nodes, nodes
<1>3. Len(out) \in Nat
  BY <1>1, <1>2 DEF OutInv
<1>4. /\ mc \in Nat /\ \A c \in Cubes : c \in Nat /\ SumTo(c - 1) \in Nat
           /\ SumTo(c) = SumTo(c - 1) + mcv[c][ROOT]
      /\ \A c \in Cubes : mcv[c][ROOT] \in Nat
      /\ \A x \in 1 .. mc : \E c \in Cubes : SumTo(c - 1) < x /\ x <= SumTo(c)
  BY <1>2, SlotFacts
<1>5. id' \in 1 .. mc
  BY <1>1, <1>3, <1>4
<1>6. cid' \in Cubes /\ SumTo(cid' - 1) < id' /\ id' <= SumTo(cid')
  <2> DEFINE x == id'
             Q(c) == SumTo(c - 1) < x /\ x <= SumTo(c)
  <2>1. \E c \in Cubes : Q(c)
    BY <1>4, <1>5
  <2>2. cid' = CHOOSE c \in Cubes : Q(c)
    BY <1>1
  <2> HIDE DEF Q
  <2>3. cid' \in Cubes /\ Q(cid')
    BY <2>1, <2>2
  <2> QED
    BY <2>3 DEF Q
<1> DEFINE c == cid'
           i == id' - SumTo(c - 1)
<1>7. i \in 1 .. mcv[c][ROOT]
  BY <1>4, <1>5, <1>6
<1>8. stack' = <<<<i, ROOT>>>> /\ i \in Nat \ {0} /\ c \in Cubes
  BY <1>1, <1>6, <1>7
<1> HIDE DEF c, i
<1>9. stack' \in Seq((Nat \ {0}) \X Nodes)
  <2>1. <<i, ROOT>> \in (Nat \ {0}) \X Nodes
    BY <1>2, <1>8
  <2> QED
    BY <1>8, <2>1
<1>10. Kept
  <2>1. Keeps
    BY <1>1, <1>5, <1>6, <1>9 DEF Keeps
  <2>2. Going /\ Going'
    BY <1>1 DEF Going
  <2> QED
    BY <2>1, <2>2, KeepsAll
<1>11. ROOT \in visited
  BY <1>1, <1>8, MapFacts
<1>12. DescentInv'
  <2>1. \A k \in DOMAIN stack' : stack'[k][2] \in visited /\ stack'[k][1] \in 1 .. mcv[c][stack'[k][2]]
    BY <1>7, <1>8, <1>11
  <2>2. s' \cup Members(CubeMap(c), stack') = CubeMap(c)[ROOT][i]
    BY <1>1, <1>8, MembersOfOne
  <2>3. CubeMap(cid)' = CubeMap(c) /\ SumTo(cid)' = SumTo(c) /\ SumTo(cid - 1)' = SumTo(c - 1) /\ mc' = mc
    BY <1>1 DEF c, CubeMap, SumTo, mc
  <2>4. Cubes' = Cubes /\ mcv' = mcv /\ visited' = visited /\ out' = out
    BY <1>1, <1>10 DEF Kept
  <2> QED
    BY <1>1, <1>5, <1>6, <2>1, <2>2, <2>3, <2>4 DEF DescentInv, c, i
<1>13. PhaseInv' /\ OutInv'
  <2>1. PhaseInv'
    BY <1>1, <1>2, <1>10 DEF PhaseInv, Kept
  <2>2. ASSUME NEW k \in DOMAIN out, NEW d \in Cubes, SumTo(d - 1) < k, k <= SumTo(d)
        PROVE  out[k] = CubeMap(d)[ROOT][k - SumTo(d - 1)]
    BY <1>2, <2>2 DEF OutInv
  <2>3. out \in Seq(Meaning[ROOT])
    BY <1>1, <1>2 DEF OutInv
  <2> QED
    BY <1>1, <1>10, <2>1, <2>2, <2>3 DEF OutInv, Kept
<1> QED
  BY <1>10, <1>12, <1>13 DEF AnnfInv, Kept

Pairs == (Nat \ {0}) \X Nodes
InIds(T) == \A k \in DOMAIN T : T[k][2] \in visited /\ T[k][1] \in 1 .. mcv[cid][T[k][2]]

\* What the pair on the top of the stack stands for.
TopIs ==
  LET D == CubeMap(cid)
      w == mcv[cid]
      a == query.cubes[cid]
  IN  /\ cid \in Cubes /\ Cube(a) /\ IsQuery(query)
      /\ node \in visited /\ node \in DOMAIN query.circuit /\ lid \in 1 .. w[node]
      /\ w[node] = NodeCount(query, w, node, a)
      /\ stack \in Seq(Pairs) /\ Below \in Seq(Pairs) /\ InIds(Below)
      /\ Members(D, stack) = Members(D, Below) \cup D[node][lid]
      /\ Decodes(query, w, node, a, D, D[node])
      /\ Dsts(query, node) \subseteq visited
      /\ \A x \in Dsts(query, node) : w[x] \in Nat /\ Good(query, w, x, a, D[x])

\* The pair on the top of the stack is in range, and its node has its map.
LEMMA TopFacts ==
  ASSUME AnnfInv, mode = "descend", stack # <<>>
  PROVE  TopIs
<1> DEFINE D == CubeMap(cid)
           w == mcv[cid]
           a == query.cubes[cid]
<1>1. /\ cid \in Cubes
      /\ \A k \in DOMAIN stack : stack[k][2] \in visited /\ stack[k][1] \in 1 .. w[stack[k][2]]
  BY DEF AnnfInv, DescentInv
<1>2. /\ IsMap(query, w, visited, a, D) /\ Cube(a) /\ w \in [Nodes -> Nat]
      /\ \A n \in visited : w[n] = NodeCount(query, w, n, a)
  BY <1>1, MapFacts
<1>3. /\ IsQuery(query) /\ visited \in SUBSET Nodes
           /\ \A n \in visited : Dsts(query, n) \subseteq visited
  BY Visits DEF AnnfInv
<1>4. stack \in Seq(Pairs)
  BY DEF AnnfInv, AnnfTypeOK, Pairs
<1> HIDE DEF D, w, a
<1>5. /\ Below \in Seq(Pairs) /\ \A k \in DOMAIN Below : k \in DOMAIN stack /\ Below[k] = stack[k]
      /\ Top \in Pairs /\ Len(stack) \in DOMAIN stack
      /\ Members(D, stack) = Members(D, Below) \cup D[Top[2]][Top[1]]
  BY <1>4, MembersTop DEF Top, Below
<1>6. node \in visited /\ lid \in 1 .. w[node] /\ Members(D, stack) = Members(D, Below) \cup D[node][lid]
  BY <1>1, <1>5 DEF node, lid, Top
<1>7. InIds(Below)
  BY <1>1, <1>5 DEF InIds, w
<1>8. Decodes(query, w, node, a, D, D[node])
  BY <1>2, <1>6 DEF IsMap
<1>9. Dsts(query, node) \subseteq visited /\ node \in DOMAIN query.circuit
  BY <1>3, <1>6 DEF Nodes, nodes
<1>10. \A x \in Dsts(query, node) : w[x] \in Nat /\ Good(query, w, x, a, D[x])
  BY <1>2, <1>3, <1>9 DEF IsMap
<1>11. w[node] = NodeCount(query, w, node, a)
  BY <1>2, <1>6
<1> QED
  BY <1>1, <1>2, <1>3, <1>4, <1>5, <1>6, <1>7, <1>8, <1>9, <1>10, <1>11 DEF TopIs, D, w, a

\* The pair on the top is replaced by pairs that stand for what it does.
LEMMA Descends ==
  ASSUME AnnfInv, mode = "descend", mode' = "descend", stack # <<>>,
         UNCHANGED <<query, visited, ordering, annotated, mcv, id, cid, out>>,
         NEW T \in Seq(Pairs), stack' = Below \o T, InIds(T),
         s' \cup Members(CubeMap(cid), T) = s \cup CubeMap(cid)[node][lid]
  PROVE  AnnfInv'
<1> DEFINE D == CubeMap(cid)
<1>1. /\ cid \in Cubes /\ Below \in Seq(Pairs) /\ InIds(Below)
      /\ Members(D, stack) = Members(D, Below) \cup D[node][lid]
  BY TopFacts DEF TopIs
<1>2. /\ id = Len(out) + 1 /\ id <= mc /\ SumTo(cid - 1) < id /\ id <= SumTo(cid)
      /\ s \cup Members(D, stack) = D[ROOT][id - SumTo(cid - 1)]
  BY DEF AnnfInv, DescentInv
<1>3. /\ query' = query /\ visited' = visited /\ ordering' = ordering /\ annotated' = annotated
      /\ mcv' = mcv /\ id' = id /\ cid' = cid /\ out' = out
  OBVIOUS
<1>4. AnnfTypeOK /\ OutInv /\ annotated = Cubes
  BY DEF AnnfInv, PhaseInv
<1>5. Members(D, Below \o T) = Members(D, Below) \cup Members(D, T)
  BY <1>1, MembersConcat
<1>6. s' \cup Members(D, T) = s \cup D[node][lid]
  OBVIOUS
<1> HIDE DEF D
<1>7. s' \cup Members(D, stack') = D[ROOT][id - SumTo(cid - 1)]
  <2>1. s' \cup Members(D, Below \o T) = s \cup (Members(D, Below) \cup D[node][lid])
    BY <1>5, <1>6
  <2> QED
    BY <1>1, <1>2, <2>1
<1>8. stack' \in Seq(Pairs)
  BY <1>1
<1>9. Kept
  <2>1. Keeps
    <3>1. id \in Nat /\ cid \in Cubes \cup {0}
      BY <1>4 DEF AnnfTypeOK
    <3> QED
      BY <1>3, <1>8, <3>1 DEF Keeps, Pairs
  <2>2. Going /\ Going'
    BY DEF Going
  <2> QED
    BY <2>1, <2>2, KeepsAll
<1>10. InIds(stack')
  <2> DEFINE U == Below \o T
             m == Len(Below)
             l == Len(T)
  <2>1. /\ m \in Nat /\ l \in Nat /\ DOMAIN Below = 1 .. m /\ DOMAIN T = 1 .. l /\ DOMAIN U = 1 .. m + l
        /\ \A k \in 1 .. m + l : (k \in 1 .. m /\ U[k] = Below[k]) \/ (k - m \in 1 .. l /\ U[k] = T[k - m])
    BY <1>1
  <2> HIDE DEF U, m, l
  <2>2. InIds(U)
    BY <1>1, <2>1 DEF InIds
  <2> QED
    BY <2>2 DEF U
<1>11. DescentInv'
  <2>1. CubeMap(cid)' = D /\ SumTo(cid)' = SumTo(cid) /\ SumTo(cid - 1)' = SumTo(cid - 1) /\ mc' = mc
    BY <1>3 DEF D, CubeMap, SumTo, mc
  <2>2. Cubes' = Cubes
    BY <1>9 DEF Kept
  <2>3. \A k \in DOMAIN stack' : stack'[k][2] \in visited' /\ stack'[k][1] \in 1 .. mcv'[cid'][stack'[k][2]]
    BY <1>3, <1>10 DEF InIds
  <2> QED
    BY <1>1, <1>2, <1>3, <1>7, <2>1, <2>2, <2>3 DEF DescentInv
<1>12. PhaseInv' /\ OutInv'
  <2>1. PhaseInv'
    BY <1>3, <1>4, <1>9 DEF PhaseInv, Kept
  <2>2. ASSUME NEW k \in DOMAIN out, NEW d \in Cubes, SumTo(d - 1) < k, k <= SumTo(d)
        PROVE  out[k] = CubeMap(d)[ROOT][k - SumTo(d - 1)]
    BY <1>4, <2>2 DEF OutInv
  <2>3. out \in Seq(Meaning[ROOT])
    BY <1>4 DEF OutInv
  <2> QED
    BY <1>3, <1>9, <2>1, <2>2, <2>3 DEF OutInv, Kept
<1> QED
  BY <1>9, <1>11, <1>12 DEF AnnfInv, Kept

\* A leaf adds nothing.
LEMMA InvLeaf ==
  ASSUME AnnfInv, Leaf
  PROVE  AnnfInv'
<1>1. /\ mode = "descend" /\ mode' = "descend" /\ stack # <<>> /\ nodes[node].type \in {"t", "f"}
           /\ stack' = Below
      /\ s' = s /\ UNCHANGED <<query, visited, ordering, annotated, mcv, id, cid, out>>
  BY DEF Leaf
<1>2. /\ Decodes(query, mcv[cid], node, query.cubes[cid], CubeMap(cid), CubeMap(cid)[node])
      /\ lid \in 1 .. mcv[cid][node] /\ Below \in Seq(Pairs)
  BY <1>1, TopFacts DEF TopIs
<1>3. CubeMap(cid)[node][lid] = {}
  BY <1>1, <1>2 DEF Decodes, nodes
<1>4. /\ <<>> \in Seq(Pairs) /\ Members(CubeMap(cid), <<>>) = {} /\ InIds(<<>>)
      /\ stack' = Below \o <<>>
  BY <1>1, <1>2, MembersOfNone DEF InIds
<1>5. s' \cup Members(CubeMap(cid), <<>>) = s \cup CubeMap(cid)[node][lid]
  BY <1>1, <1>3, <1>4
<1> QED
  BY <1>1, <1>4, <1>5, Descends

\* An And hands a digit of its id to every child.
LEMMA InvSplitId ==
  ASSUME AnnfInv, SplitId
  PROVE  AnnfInv'
<1> DEFINE D == CubeMap(cid)
           w == mcv[cid]
           a == query.cubes[cid]
           S == Spread(query, w, children, a, lid)
<1>1. /\ mode = "descend" /\ mode' = "descend" /\ stack # <<>> /\ nodes[node].type = "a"
           /\ stack' = Below \o S
      /\ s' = s /\ UNCHANGED <<query, visited, ordering, annotated, mcv, id, cid, out>>
  BY DEF SplitId
<1>2. /\ IsQuery(query) /\ node \in DOMAIN query.circuit /\ lid \in 1 .. w[node]
      /\ w[node] = NodeCount(query, w, node, a) /\ Decodes(query, w, node, a, D, D[node])
      /\ Dsts(query, node) \subseteq visited
      /\ \A x \in Dsts(query, node) : w[x] \in Nat /\ Good(query, w, x, a, D[x])
  BY <1>1, TopFacts DEF TopIs
<1>3. query.circuit[node].type = "a" /\ S = Spread(query, w, query.circuit[node].children, a, lid)
  BY <1>1 DEF nodes, children
<1> HIDE DEF D, w, a, S
<1>4. PickedIs(query, w, node, a, D, lid)
  BY SMTT(30), <1>2, <1>3, AndPicked
<1> DEFINE kids == query.circuit[node].children
<1>5. /\ S \in Seq((Nat \ {0}) \X DOMAIN query.circuit) /\ Len(S) = Len(kids)
      /\ \A k \in 1 .. Len(kids) : S[k][1] \in 1 .. w[kids[k].dst] /\ S[k][2] = kids[k].dst
  BY <1>3, <1>4 DEF PickedIs
<1>6. \A k \in 1 .. Len(kids) : kids[k].dst \in Dsts(query, node)
  <2>1. kids \in Seq(Edges)
    BY <1>2, CircuitFacts
  <2>2. DOMAIN kids = 1 .. Len(kids)
    BY <2>1
  <2> QED
    BY <2>2 DEF Dsts
<1> HIDE DEF kids
<1>7. S \in Seq(Pairs) /\ DOMAIN S = 1 .. Len(kids)
  BY <1>5 DEF Pairs, Nodes, nodes
<1>8. InIds(S)
  BY <1>2, <1>5, <1>6, <1>7 DEF InIds, w
<1>9. D[node][lid] = Members(D, S)
  BY <1>2, <1>3 DEF Decodes
<1>10. s' \cup Members(D, S) = s \cup D[node][lid]
  BY <1>1, <1>9
<1> QED
  BY <1>1, <1>7, <1>8, <1>10, Descends DEF D

\* An Or or Unary node goes on along the edge in whose slot the id falls.
LEMMA InvChoose ==
  ASSUME AnnfInv, Choose
  PROVE  AnnfInv'
<1> DEFINE D == CubeMap(cid)
           w == mcv[cid]
           a == query.cubes[cid]
           n == node
           kids == query.circuit[n].children
           K == Len(kids)
           B(k) == Before(query, w, n, a, k)
<1>1. /\ mode = "descend" /\ mode' = "descend" /\ stack # <<>> /\ query.circuit[n].type \in {"o", "u"}
      /\ UNCHANGED <<query, visited, ordering, annotated, mcv, id, cid, out>>
  BY DEF Choose, nodes
<1>2. \A k : CountTo(k) = B(k)
  BY DEF CountTo, Before, cmc, children, nodes
<1>3. PICK k \in DOMAIN kids :
        /\ B(k - 1) < lid /\ lid <= B(k)
        /\ LET h == Halved(query, kids[k], a, lid - B(k - 1), EdgeCount(query, w, kids[k], a))
           IN  s' = s \cup kids[k].units \cup h.lits /\ stack' = Append(Below, <<h.id, kids[k].dst>>)
  <2>1. children = kids /\ \A e : cmc(e) = EdgeCount(query, w, e, a)
    BY DEF children, nodes, cmc
  <2>2. PICK k \in DOMAIN kids :
          /\ CountTo(k - 1) < lid /\ lid <= CountTo(k)
          /\ LET h == Halved(query, kids[k], a, lid - CountTo(k - 1), EdgeCount(query, w, kids[k], a))
             IN  s' = s \cup kids[k].units \cup h.lits /\ stack' = Append(Below, <<h.id, kids[k].dst>>)
    BY Zenon, <2>1 DEF Choose
  <2> HIDE DEF kids, w, a, n
  <2> QED
    BY <1>2, <2>2
<1>4. /\ IsQuery(query) /\ Cube(a) /\ n \in DOMAIN query.circuit /\ lid \in 1 .. w[n]
      /\ Decodes(query, w, n, a, D, D[n]) /\ Dsts(query, n) \subseteq visited /\ Below \in Seq(Pairs)
      /\ \A x \in Dsts(query, n) : w[x] \in Nat /\ Good(query, w, x, a, D[x])
  BY <1>1, TopFacts DEF TopIs
<1> HIDE DEF D, w, a, n
<1> DEFINE e == kids[k]
           i == lid - B(k - 1)
           h == Halved(query, e, a, i, EdgeCount(query, w, e, a))
<1>5. /\ kids \in Seq(Edges) /\ K \in Nat /\ DOMAIN kids = 1 .. K
      /\ \A j \in DOMAIN kids : kids[j].dst \in Dsts(query, n) /\ kids[j].dst \in DOMAIN query.circuit
  <2>1. kids \in Seq(Edges)
    BY <1>4, CircuitFacts
  <2> QED
    BY <1>4, <2>1, EdgeFacts
<1>6. \A j \in 1 .. K : w[kids[j].dst] \in Nat /\ EdgeCount(query, w, kids[j], a) \in Nat
  BY <1>4, <1>5, EdgeCountType
<1>7. B(k - 1) \in Nat /\ B(k) = B(k - 1) + EdgeCount(query, w, e, a)
  <2> DEFINE c == [j \in 1 .. K |-> EdgeCount(query, w, kids[j], a)]
  <2>1. c \in [1 .. K -> Nat] /\ \A j \in 1 .. K : c[j] = EdgeCount(query, w, kids[j], a)
    BY <1>6
  <2> HIDE DEF c
  <2>2. PICK g : Partials(g, K, c)
    BY <1>5, <2>1, PrefixSums
  <2>3. ASSUME NEW m \in 0 .. K PROVE g[m] = B(m) /\ g[m] \in Nat
    <3>1. \A j \in 1 .. m : j \in 1 .. K
      BY <1>5
    <3>2. [j \in 1 .. m |-> c[j]] = [j \in 1 .. m |-> EdgeCount(query, w, kids[j], a)]
      BY <2>1, <3>1
    <3>3. g[m] = SumOf([j \in 1 .. m |-> c[j]]) /\ g[m] \in Nat
      BY <2>2 DEF Partials
    <3> QED
      BY <3>2, <3>3 DEF Before
  <2>4. k \in 1 .. K /\ k \in 0 .. K /\ k - 1 \in 0 .. K
    BY <1>5
  <2>5. g[k] = g[k - 1] + c[k]
    BY SMTT(30), <2>2, <2>4 DEF Partials
  <2> HIDE DEF B, kids, K
  <2> QED
    BY <2>1, <2>3, <2>4, <2>5
<1>8. i \in 1 .. EdgeCount(query, w, e, a)
  <2> DEFINE b == B(k - 1)
             f == EdgeCount(query, w, e, a)
             l == lid
  <2>1. b \in Nat /\ f \in Nat /\ l \in Nat /\ b < l /\ l <= b + f
    BY SMTT(30), <1>3, <1>4, <1>5, <1>6, <1>7
  <2> HIDE DEF b, f, l
  <2>2. l - b \in 1 .. f
    BY <2>1
  <2> QED
    BY <2>2 DEF b, f, l
<1>9. D[n][lid] = e.units \cup h.lits \cup D[e.dst][h.id]
  <2>1. D[n][lid] = Down(query, w, a, D, e, i)
    BY SMTT(30), <1>1, <1>3, <1>4 DEF Decodes
  <2> QED
    BY <2>1 DEF Down
<1>10. h.id \in 1 .. w[e.dst] /\ e.dst \in visited /\ e.dst \in Nodes
  BY <1>4, <1>5, <1>6, <1>8, EdgeDown DEF Nodes, nodes
<1>11. s' = s \cup e.units \cup h.lits /\ stack' = Append(Below, <<h.id, e.dst>>)
  BY <1>3
<1>12. w[e.dst] \in Nat
  BY <1>5, <1>6
<1> HIDE DEF h, e, i, B
<1> DEFINE t == <<h.id, e.dst>>
           T == <<t>>
<1>13. t \in Pairs /\ t[1] = h.id /\ t[2] = e.dst
  <2>1. h.id \in Nat \ {0}
    BY <1>10, <1>12
  <2> QED
    BY <1>10, <2>1 DEF Pairs
<1>14. Members(D, T) = D[e.dst][h.id]
  BY MembersOfOne
<1>15. s' \cup Members(D, T) = s \cup D[n][lid]
  BY <1>9, <1>11, <1>14
<1> HIDE DEF t
<1>16. T \in Seq(Pairs) /\ DOMAIN T = {1} /\ T[1] = t
  BY <1>13
<1>17. stack' = Below \o T
  <2>1. Append(Below, t) = Below \o <<t>>
    BY <1>4, <1>13
  <2> QED
    BY <1>11, <2>1 DEF t
<1>18. InIds(T)
  BY <1>10, <1>13, <1>16 DEF InIds, w
<1> HIDE DEF T
<1> QED
  BY <1>1, <1>15, <1>16, <1>17, <1>18, Descends DEF D, n

\* What is returned is the model of the id.
LEMMA InvReturn ==
  ASSUME AnnfInv, Return
  PROVE  AnnfInv'
<1>1. /\ mode = "descend" /\ stack = <<>> /\ out' = Append(out, s) /\ mode' = "draw"
      /\ UNCHANGED <<query, stack, visited, ordering, annotated, mcv, id, cid, s>>
  BY DEF Return
<1>2. /\ id = Len(out) + 1 /\ id <= mc /\ cid \in Cubes /\ SumTo(cid - 1) < id /\ id <= SumTo(cid)
      /\ s \cup Members(CubeMap(cid), stack) = CubeMap(cid)[ROOT][id - SumTo(cid - 1)]
  BY <1>1 DEF AnnfInv, DescentInv
<1>3. AnnfTypeOK /\ OutInv /\ annotated = Cubes /\ IsQuery(query) /\ id \in Nat
  BY <1>1 DEF AnnfInv, PhaseInv, ReadInv, AnnfTypeOK
<1>4. s = CubeMap(cid)[ROOT][id - SumTo(cid - 1)]
  <2>1. Members(CubeMap(cid), stack) = {}
    BY <1>1, MembersOfNone
  <2> QED
    BY <1>2, <2>1
<1>5. /\ mc \in Nat /\ \A c \in Cubes : c \in Nat /\ SumTo(c - 1) \in Nat
           /\ SumTo(c) = SumTo(c - 1) + mcv[c][ROOT]
      /\ \A c \in Cubes : mcv[c][ROOT] \in Nat
      /\ \A x \in Nat : \A c, d \in Cubes :
           SumTo(c - 1) < x /\ x <= SumTo(c) /\ SumTo(d - 1) < x /\ x <= SumTo(d) => c = d
  BY <1>3, SlotFacts
<1>6. s \in Meaning[ROOT]
  <2>1. Good(query, mcv[cid], ROOT, query.cubes[cid], CubeMap(cid)[ROOT])
    BY <1>1, <1>2, MapFacts DEF IsMap
  <2>2. id - SumTo(cid - 1) \in 1 .. mcv[cid][ROOT]
    BY <1>2, <1>3, <1>5
  <2>3. s \in UnderOf(query, ROOT, query.cubes[cid])
    BY <1>4, <2>1, <2>2 DEF Good
  <2> QED
    BY <2>3 DEF UnderOf, Meaning
<1>7. Kept
  <2>1. Keeps
    <3>1. id \in Nat /\ cid \in Cubes \cup {0} /\ stack \in Seq((Nat \ {0}) \X Nodes)
      BY <1>1, <1>3 DEF AnnfTypeOK
    <3> QED
      BY <1>1, <3>1 DEF Keeps
  <2>2. Going /\ Going'
    BY <1>1 DEF Going
  <2> QED
    BY <2>1, <2>2, KeepsAll
<1>8. out \in Seq(Meaning[ROOT])
  BY <1>1, <1>3 DEF OutInv
<1> DEFINE o == Append(out, s)
           L == Len(out)
<1>9. /\ o \in Seq(Meaning[ROOT]) /\ L \in Nat /\ Len(o) = L + 1 /\ DOMAIN o = 1 .. L + 1
           /\ DOMAIN out = 1 .. L
      /\ o[L + 1] = s /\ \A k \in 1 .. L : o[k] = out[k]
  BY <1>6, <1>8
<1>10. ASSUME NEW k \in DOMAIN out, NEW d \in Cubes, SumTo(d - 1) < k, k <= SumTo(d)
       PROVE  out[k] = CubeMap(d)[ROOT][k - SumTo(d - 1)]
  BY <1>3, <1>10 DEF OutInv
<1>11. out' = o
  BY <1>1
<1> HIDE DEF o
<1>12. ASSUME NEW k \in DOMAIN o, NEW d \in Cubes, SumTo(d - 1) < k, k <= SumTo(d)
       PROVE  o[k] = CubeMap(d)[ROOT][k - SumTo(d - 1)]
  <2>1. CASE k \in 1 .. L
    BY <1>9, <1>10, <1>12, <2>1
  <2>2. CASE k = L + 1
    <3>1. k = id
      BY <1>2, <2>2
    <3>2. d = cid
      BY <1>2, <1>3, <1>5, <1>12, <3>1
    <3> QED
      BY <1>4, <1>9, <2>2, <3>1, <3>2
  <2>3. k \in 1 .. L \/ k = L + 1
    BY <1>9
  <2> QED
    BY <2>1, <2>2, <2>3
<1>13. OutInv'
  <2>1. Len(o) <= mc
    BY <1>2, <1>9
  <2> QED
    BY <1>1, <1>7, <1>9, <1>11, <1>12, <2>1 DEF OutInv, Kept
<1>14. PhaseInv' /\ DescentInv'
  BY <1>1, <1>3, <1>7 DEF PhaseInv, DescentInv, Kept
<1> QED
  BY <1>7, <1>13, <1>14 DEF AnnfInv, Kept

\* Every step of the annotation and of the sampling keeps the invariant, 
LEMMA InvStep ==
  ASSUME AnnfInv, AnnfStep
  PROVE  AnnfInv'
<1>1. CASE Order
  BY <1>1, InvOrder
<1>2. CASE Ordered
  BY <1>2, InvOrdered
<1>3. CASE \E c \in Cubes : Annotate(c)
  BY <1>3, InvAnnotate
<1>4. CASE DrawId
  BY <1>4, InvDrawId
<1>5. CASE SplitId
  BY <1>5, InvSplitId
<1>6. CASE Choose
  BY <1>6, InvChoose
<1>7. CASE Leaf
  BY <1>7, InvLeaf
<1>8. CASE Return
  BY <1>8, InvReturn
<1> QED
  BY <1>1, <1>2, <1>3, <1>4, <1>5, <1>6, <1>7, <1>8 DEF AnnfStep

\* and so does a step of something else.
LEMMA InvStutter ==
  ASSUME AnnfInv, UNCHANGED annfVars
  PROVE  AnnfInv'
<1>1. UNCHANGED <<query, mode, stack, visited, ordering, annotated, mcv, id, cid, s, out>>
  BY DEF annfVars
<1>2. /\ Nodes' = Nodes /\ Cubes' = Cubes /\ mc' = mc /\ Meaning' = Meaning
      /\ \A n : Destinations(n)' = Destinations(n)
  BY <1>1 DEF Nodes, nodes, Cubes, mc, SumTo, Meaning, Destinations
<1>3. \A c : CubeMap(c)' = CubeMap(c) /\ SumTo(c)' = SumTo(c)
  BY <1>1 DEF CubeMap, SumTo
<1>4. IsInjective(ordering)' = IsInjective(ordering) /\ Range(ordering)' = Range(ordering)
  BY <1>1
<1>5. AnnfTypeOK' /\ ReadInv'
  BY <1>1, <1>2, <1>4 DEF AnnfInv, AnnfTypeOK, ReadInv
<1>6. BottomUp'
  BY <1>1, <1>2, <1>4 DEF AnnfInv, OrderInv, BottomUp
<1>7. OrderInv' /\ PhaseInv' /\ CountInv'
  BY <1>1, <1>2, <1>6 DEF AnnfInv, OrderInv, PhaseInv, CountInv
<1>8. DescentInv'
  BY <1>1, <1>2, <1>3 DEF AnnfInv, DescentInv
<1>9. OutInv'
  BY <1>1, <1>2, <1>3 DEF AnnfInv, OutInv
<1> QED
  BY <1>5, <1>7, <1>8, <1>9 DEF AnnfInv

\* The inductive invariant of the annotated circuit holds throughout.
THEOREM AnnfInvariant == AnnfSpec => []AnnfInv
<1>1. AnnfInit => AnnfInv
  BY InvInit
<1>2. AnnfInv /\ [AnnfNext]_annfVars => AnnfInv'
  BY InvRead, InvStep, InvStutter, QueriesAssumption DEF AnnfNext
<1> QED
  BY <1>1, <1>2, PTL DEF AnnfSpec

-----------------------------------------------------------------------------
(* What the annotation and the map promise *)

\* The invariant holds the counts,
LEMMA InvCounts == AnnfInv => CountsExact
<1> SUFFICES ASSUME AnnfInv
             PROVE  CountsExact
  OBVIOUS
<1>1. AnnfTypeOK /\ BottomUp /\ CountInv
  BY DEF AnnfInv, OrderInv
<1>2. ASSUME NEW c \in annotated, NEW n \in visited
      PROVE  mcv[c][n] = Cardinality(Under(n, query.cubes[c]))
  BY <1>1 DEF CountInv, Exact, Under
<1> QED
  BY <1>1, <1>2 DEF CountsExact

\* The counts are exact: whatever is annotated was annotated in one pass of an ordering in
\* which every node comes after its children, so that every node's count under a cube is
\* the number of its models or paths that do not contradict it.
\* (compute_ordering, set_assumps, annotate_mc and annotate_pc, nnf.cpp:62-160,170-244)
THEOREM AnnfCountsExact == AnnfSpec => []CountsExact
BY AnnfInvariant, InvCounts, PTL

\* A model, or path, belongs to one cube.
LEMMA CubesApart ==
  ASSUME NEW q, IsQuery(q), NEW c \in DOMAIN q.cubes, NEW d \in DOMAIN q.cubes,
         NEW m \in UnderOf(q, ROOT, q.cubes[c]), m \in UnderOf(q, ROOT, q.cubes[d])
  PROVE  c = d /\ (q.count = "mc" => q.cubes[c] \subseteq m)
<1>1. q.count \in {"mc", "pc"} /\ AreCubes(q)
  BY CircuitFacts
<1>2. Len(q.cubes) \in Nat /\ DOMAIN q.cubes = 1 .. Len(q.cubes)
  BY CubesAre
<1>3. m \in Meanings(q)[ROOT] /\ ~Conflicts(m, q.cubes[c]) /\ ~Conflicts(m, q.cubes[d])
  BY DEF UnderOf
<1>4. CASE q.count = "pc"
  <2>1. Len(q.cubes) = 1
    BY <1>1, <1>4 DEF AreCubes
  <2> QED
    BY <1>2, <1>4, <2>1
<1>5. CASE q.count = "mc"
  <2>1. /\ c # d => Conflicts(q.cubes[c], q.cubes[d])
        /\ q.cubes[c] \subseteq m
    BY <1>1, <1>3, <1>5 DEF AreCubes
  <2>2. c = d
    BY <1>3, <2>1 DEF Conflicts
  <2> QED
    BY <2>1, <2>2
<1> QED
  BY <1>1, <1>4, <1>5

\* The k-th model is one of the cube its id falls in.
LEMMA OutFacts ==
  ASSUME AnnfInv, NEW k \in DOMAIN out
  PROVE  \E c \in Cubes : /\ SumTo(c - 1) < k /\ k <= SumTo(c) /\ k \in Nat /\ mode \in {"draw", "descend"}
                          /\ out[k] = CubeMap(c)[ROOT][k - SumTo(c - 1)]
                          /\ k - SumTo(c - 1) \in 1 .. mcv[c][ROOT] /\ SumTo(c - 1) \in Nat
                          /\ out[k] \in UnderOf(query, ROOT, query.cubes[c])
                          /\ Good(query, mcv[c], ROOT, query.cubes[c], CubeMap(c)[ROOT])
<1>1. mode \in {"draw", "descend"}
  <2>1. out # <<>>
    OBVIOUS
  <2> QED
    BY <2>1 DEF AnnfInv, PhaseInv, AnnfTypeOK
<1>2. IsQuery(query) /\ AnnfTypeOK /\ out \in Seq(Meaning[ROOT])
  BY <1>1 DEF AnnfInv, ReadInv, OutInv
<1>3. /\ mc \in Nat /\ \A c \in Cubes : c \in Nat /\ SumTo(c - 1) \in Nat
           /\ SumTo(c) = SumTo(c - 1) + mcv[c][ROOT]
      /\ \A c \in Cubes : mcv[c][ROOT] \in Nat
      /\ \A x \in 1 .. mc : \E c \in Cubes : SumTo(c - 1) < x /\ x <= SumTo(c)
  BY <1>2, SlotFacts
<1>4. Len(out) \in Nat /\ DOMAIN out = 1 .. Len(out)
  BY <1>2
<1>5. Len(out) <= mc
  <2>1. CASE mode = "draw"
    BY <2>1 DEF AnnfInv, OutInv
  <2>2. CASE mode = "descend"
    <3>1. id = Len(out) + 1 /\ id <= mc
      BY <2>2 DEF AnnfInv, DescentInv
    <3> QED
      BY <1>3, <1>4, <3>1
  <2> QED
    BY <1>1, <2>1, <2>2
<1>6. k \in 1 .. mc /\ k \in Nat
  BY SMTT(30), <1>3, <1>4, <1>5
<1>7. PICK c \in Cubes : SumTo(c - 1) < k /\ k <= SumTo(c)
  BY <1>3, <1>6
<1>8. out[k] = CubeMap(c)[ROOT][k - SumTo(c - 1)]
  BY <1>7 DEF AnnfInv, OutInv
<1>9. k - SumTo(c - 1) \in 1 .. mcv[c][ROOT] /\ SumTo(c - 1) \in Nat
  BY <1>3, <1>6, <1>7
<1>10. Good(query, mcv[c], ROOT, query.cubes[c], CubeMap(c)[ROOT])
  BY <1>1, MapFacts DEF IsMap
<1>11. out[k] \in UnderOf(query, ROOT, query.cubes[c])
  BY <1>8, <1>9, <1>10 DEF Good
<1> QED
  BY <1>1, <1>6, <1>7, <1>8, <1>9, <1>10, <1>11

\* Different ids give different models.
LEMMA OutInjective ==
  ASSUME AnnfInv
  PROVE  IsInjective(out)
<1> SUFFICES ASSUME NEW j \in DOMAIN out, NEW k \in DOMAIN out, out[j] = out[k]
             PROVE  j = k
  BY DEF IsInjective
<1>1. PICK c \in Cubes : /\ j \in Nat /\ mode \in {"draw", "descend"}
                         /\ out[j] = CubeMap(c)[ROOT][j - SumTo(c - 1)]
                         /\ j - SumTo(c - 1) \in 1 .. mcv[c][ROOT] /\ SumTo(c - 1) \in Nat
                         /\ out[j] \in UnderOf(query, ROOT, query.cubes[c])
                         /\ Good(query, mcv[c], ROOT, query.cubes[c], CubeMap(c)[ROOT])
  BY OutFacts
<1>2. PICK d \in Cubes : /\ k \in Nat
                         /\ out[k] = CubeMap(d)[ROOT][k - SumTo(d - 1)]
                         /\ k - SumTo(d - 1) \in 1 .. mcv[d][ROOT] /\ SumTo(d - 1) \in Nat
                         /\ out[k] \in UnderOf(query, ROOT, query.cubes[d])
  BY OutFacts
<1>3. IsQuery(query)
  BY <1>1 DEF AnnfInv, ReadInv
<1>4. c = d
  BY <1>1, <1>2, <1>3, CubesApart DEF Cubes
<1>5. CubeMap(c)[ROOT][j - SumTo(c - 1)] = CubeMap(c)[ROOT][k - SumTo(c - 1)]
  BY <1>1, <1>2, <1>4
<1>6. j - SumTo(c - 1) = k - SumTo(c - 1)
  BY <1>1, <1>2, <1>4, <1>5 DEF Good
<1> QED
  BY <1>1, <1>2, <1>6

\* There are as many ids as models.
LEMMA AllDrawn ==
  ASSUME AnnfInv, mode = "draw", Len(out) = mc
  PROVE  Range(out) = UNION {Under(ROOT, query.cubes[c]) : c \in Cubes}
<1> DEFINE L == Len(query.cubes)
           U == [k \in 1 .. L |-> UnderOf(query, ROOT, query.cubes[k])]
           A == UNION {U[k] : k \in 1 .. L}
           n == Len(out)
<1>1. IsQuery(query) /\ AnnfTypeOK /\ out \in Seq(Meaning[ROOT]) /\ IsInjective(out)
  BY OutInjective DEF AnnfInv, ReadInv, OutInv
<1>2. L \in Nat /\ Cubes = 1 .. L /\ DOMAIN query.cubes = 1 .. L
  BY <1>1, CubesAre DEF Cubes
<1>3. n \in Nat /\ DOMAIN out = 1 .. n /\ \A j, k \in 1 .. n : out[j] = out[k] => j = k
  BY <1>1 DEF IsInjective
<1>4. \A k \in 1 .. L : U[k] = UnderOf(query, ROOT, query.cubes[k])
  OBVIOUS
<1>5. \A k \in 1 .. L : IsFiniteSet(U[k]) /\ mcv[k][ROOT] = Cardinality(U[k])
  <2> TAKE k \in 1 .. L
  <2>1. Exact(query, mcv[k], visited, query.cubes[k]) /\ ROOT \in visited
    BY <1>2, MapFacts
  <2> QED
    BY <2>1 DEF Exact
<1>6. UNION {Under(ROOT, query.cubes[c]) : c \in Cubes} = A
  BY <1>2, <1>4 DEF Under
<1> HIDE DEF L, U, n
<1>7. \A j, k \in 1 .. L : j # k => U[j] \cap U[k] = {}
  <2> SUFFICES ASSUME NEW j \in 1 .. L, NEW k \in 1 .. L, NEW m \in U[j], m \in U[k]
               PROVE  j = k
    OBVIOUS
  <2>1. m \in UnderOf(query, ROOT, query.cubes[j]) /\ m \in UnderOf(query, ROOT, query.cubes[k])
    BY <1>4
  <2> QED
    BY <1>1, <1>2, <2>1, CubesApart
<1>8. IsFiniteSet(A) /\ Cardinality(A) = SumOf([k \in 1 .. L |-> Cardinality(U[k])])
  BY <1>2, <1>5, <1>7, CountUnion
<1>9. mc = Cardinality(A)
  <2>1. [k \in 1 .. L |-> Cardinality(U[k])] = [k \in 1 .. L |-> mcv[k][ROOT]]
    BY <1>5
  <2>2. mc = SumOf([k \in 1 .. L |-> mcv[k][ROOT]])
    BY DEF mc, SumTo, L
  <2> QED
    BY <1>8, <2>1, <2>2
<1>10. \A k \in 1 .. n : out[k] \in A
  <2> TAKE k \in 1 .. n
  <2>1. PICK c \in Cubes : out[k] \in UnderOf(query, ROOT, query.cubes[c])
    BY <1>3, OutFacts
  <2> QED
    BY <1>2, <1>4, <2>1
<1>11. Range(out) = {out[k] : k \in 1 .. n}
  BY <1>3 DEF Range
<1>12. IsFiniteSet(Range(out)) /\ Cardinality(Range(out)) = n
  <2> DEFINE h == [k \in 1 .. n |-> out[k]]
             R == Range(out)
  <2>1. IsFiniteSet(1 .. n) /\ Cardinality(1 .. n) = n
    BY <1>3, FS_Interval
  <2>2. h \in [1 .. n -> R] /\ \A j, k \in 1 .. n : h[j] = h[k] => j = k
    BY <1>3, <1>11
  <2>3. \A t \in R : \E k \in 1 .. n : h[k] = t
    BY <1>11
  <2> HIDE DEF h, R
  <2>4. IsFiniteSet(R) /\ Cardinality(R) = Cardinality(1 .. n)
    BY <2>1, <2>2, <2>3, SameCardinality
  <2> QED
    BY <2>1, <2>4 DEF R
<1>13. Range(out) \in SUBSET A /\ Cardinality(Range(out)) = Cardinality(A)
  <2>1. n = mc
    BY DEF n
  <2> QED
    BY <1>9, <1>10, <1>11, <1>12, <2>1
<1> HIDE DEF A
<1>14. Range(out) = A
  BY <1>8, <1>13, FS_Subset
<1> QED
  BY <1>6, <1>14

\* and the map from ids to models.
LEMMA InvIds == AnnfInv => IdsAreModels
<1> SUFFICES ASSUME AnnfInv
             PROVE  IdsAreModels
  OBVIOUS
<1>1. IdsInRange
  BY DEF AnnfInv, DescentInv, IdsInRange
<1>2. IsInjective(out)
  BY OutInjective
<1>3. ASSUME NEW k \in DOMAIN out
      PROVE  /\ out[k] \in Meaning[ROOT]
             /\ \E c \in Cubes : out[k] \in Under(ROOT, query.cubes[c])
             /\ query.count = "mc" => \E c \in Cubes : query.cubes[c] \subseteq out[k]
  <2>1. PICK c \in Cubes : mode \in {"draw", "descend"} /\ out[k] \in UnderOf(query, ROOT, query.cubes[c])
    BY OutFacts
  <2>2. IsQuery(query)
    BY <2>1 DEF AnnfInv, ReadInv
  <2>3. query.count = "mc" => query.cubes[c] \subseteq out[k]
    BY <2>1, <2>2, CubesApart DEF Cubes
  <2> QED
    BY <2>1, <2>3 DEF Under, UnderOf, Meaning
<1>4. mode = "draw" /\ Len(out) = mc =>
        Range(out) = UNION {Under(ROOT, query.cubes[c]) : c \in Cubes}
  BY AllDrawn
<1> QED
  BY <1>1, <1>2, <1>3, <1>4 DEF IdsAreModels

\* The map from ids to models is a bijection: no id leaves its range on the way down,
\* different ids give different models, every model satisfies the cube its id falls in, and
\* no model is left out.  (get_solution, get_path, nnf.cpp:278-347; the slots of the cubes,
\* assignment_generator.hpp:316-335)
THEOREM AnnfIdsAreModels == AnnfSpec => []IdsAreModels
BY AnnfInvariant, InvIds, PTL

-----------------------------------------------------------------------------
(* Sorted sequences *)

Sorted(S, key) == {q \in SetToSeqs(S) : \A i, j \in DOMAIN q : i < j => key[q[i]] < key[q[j]]}

\* A sequence of SetToSeqs lists its set, each element once.
LEMMA ListFacts ==
  ASSUME NEW S, IsFiniteSet(S), NEW q \in SetToSeqs(S)
  PROVE  /\ q \in Seq(S) /\ IsInjective(q) /\ Range(q) = S
         /\ Len(q) = Cardinality(S) /\ Cardinality(S) \in Nat /\ DOMAIN q = 1 .. Len(q)
<1> DEFINE n == Cardinality(S)
<1>1. n \in Nat
  BY FS_CardinalityType
<1>2. q \in [1 .. n -> S] /\ \A i, j \in 1 .. n : i # j => q[i] # q[j]
  BY DEF SetToSeqs
<1>3. q \in Seq(S) /\ Len(q) = n /\ DOMAIN q = 1 .. n
  BY <1>1, <1>2
<1>4. IsInjective(q)
  BY <1>2 DEF IsInjective
<1>5. q \in Surjection(1 .. n, S)
  <2>1. q \in Injection(1 .. n, S)
    BY <1>2, <1>4 DEF Injection
  <2>2. Cardinality(1 .. n) = n
    <3> HIDE DEF n
    <3>1. Cardinality(1 .. n) = IF 1 > n THEN 0 ELSE n - 1 + 1
      BY <1>1, FS_Interval
    <3> QED
      BY <1>1, <3>1
  <2> QED
    BY <2>1, <2>2, FS_Injection
<1>6. Range(q) = S
  BY <1>2, <1>5 DEF Surjection, Range
<1> QED
  BY <1>1, <1>3, <1>4, <1>6

\* A finite set with different keys has a sorted sequence.
LEMMA SortedExists ==
  ASSUME NEW S, IsFiniteSet(S), NEW n \in Nat, NEW key \in [S -> 1 .. n],
         \A x, y \in S : key[x] = key[y] => x = y
  PROVE  Sorted(S, key) # {}
<1> DEFINE Bad == {Cardinality(T) : T \in {U \in SUBSET S : Sorted(U, key) = {}}}
<1> SUFFICES ASSUME Bad # {} PROVE FALSE
  OBVIOUS
<1>1. \A T \in SUBSET S : IsFiniteSet(T) /\ Cardinality(T) \in Nat
  BY FS_Subset, FS_CardinalityType
<1>2. Bad \in SUBSET Nat
  BY <1>1
<1>3. PICK m \in Bad : \A k \in Bad : m <= k
  <2> HIDE DEF Bad
  <2> QED
    BY <1>2, LeastNat
<1>4. PICK T \in SUBSET S : Sorted(T, key) = {} /\ m = Cardinality(T)
  OBVIOUS
<1>5. ASSUME NEW U \in SUBSET S, Sorted(U, key) = {} PROVE m <= Cardinality(U)
  BY <1>3, <1>5
<1> HIDE DEF Bad
<1>6. m \in Nat /\ IsFiniteSet(T)
  BY <1>1, <1>4
<1>7. CASE T = {}
  <2> DEFINE q == <<>>
  <2>1. q \in [1 .. 0 -> {}] /\ Cardinality({}) = 0
    BY FS_EmptySet
  <2>2. q \in SetToSeqs({})
    BY <2>1 DEF SetToSeqs
  <2>3. q \in Sorted({}, key)
    BY <2>2 DEF Sorted
  <2> QED
    BY <1>4, <1>7, <2>3
<1>8. CASE T # {}
  <2> DEFINE K == {key[x] : x \in T}
  <2>1. K \in SUBSET (1 .. n) /\ K # {}
    BY <1>8
  <2>2. Max(K) \in K /\ \A y \in K : y <= Max(K)
    <3> HIDE DEF K
    <3> QED
      BY <2>1, MaxUpto
  <2>3. PICK x \in T : key[x] = Max(K)
    BY <2>2
  <2> DEFINE R == T \ {x}
             r == Cardinality(R)
  <2>4. r = m - 1 /\ R \in SUBSET S /\ m > 0 /\ r \in Nat
    BY <1>1, <1>4, <1>6, <2>3, FS_RemoveElement, FS_EmptySet
  <2>5. \A y \in R : key[y] < key[x]
    <3>1. \A y \in T : key[y] \in K /\ key[y] \in Nat
      OBVIOUS
    <3> HIDE DEF K
    <3> QED
      BY <2>2, <2>3, <3>1
  <2>6. PICK p : p \in Sorted(R, key)
    <3>1. Sorted(R, key) # {}
      <4> HIDE DEF R
      <4>1. Sorted(R, key) = {} => m <= r
        BY <1>5, <2>4
      <4> QED
        BY <1>6, <2>4, <4>1
    <3> QED
      BY <3>1
  <2> DEFINE q == [i \in 1 .. m |-> IF i = m THEN x ELSE p[i]]
  <2>7. /\ p \in [1 .. r -> R] /\ \A i, j \in 1 .. r : i # j => p[i] # p[j]
        /\ \A i, j \in DOMAIN p : i < j => key[p[i]] < key[p[j]]
    BY <2>6 DEF Sorted, SetToSeqs
  <2>8. ASSUME NEW i \in 1 .. m
        PROVE  (i = m /\ q[i] = x) \/ (i \in 1 .. r /\ i # m /\ q[i] = p[i] /\ q[i] \in R)
    <3>1. i = m \/ i \in 1 .. r
      <4> HIDE DEF r
      <4> QED
        BY <1>6, <2>4
    <3> QED
      BY <2>4, <2>7, <3>1
  <2>9. DOMAIN q = 1 .. m /\ q = [i \in 1 .. m |-> q[i]]
    OBVIOUS
  <2> HIDE DEF q
  <2>10. q \in [1 .. m -> T]
    BY <2>3, <2>8, <2>9
  <2>11. \A i, j \in 1 .. m : i # j => q[i] # q[j]
    BY <2>7, <2>8
  <2>12. \A i, j \in 1 .. m : i < j => key[q[i]] < key[q[j]]
    <3> SUFFICES ASSUME NEW i \in 1 .. m, NEW j \in 1 .. m, i < j
                 PROVE  key[q[i]] < key[q[j]]
      OBVIOUS
    <3>1. i \in 1 .. r /\ q[i] = p[i] /\ q[i] \in R
      BY <2>4, <2>8
    <3>2. CASE j = m
      BY <2>5, <2>8, <3>1, <3>2
    <3>3. CASE j \in 1 .. r /\ q[j] = p[j]
      BY <2>7, <3>1, <3>3
    <3> QED
      BY <2>8, <3>2, <3>3
  <2>13. q \in SetToSeqs(T)
    BY <1>4, <2>10, <2>11 DEF SetToSeqs
  <2>14. q \in Sorted(T, key)
    BY <2>9, <2>12, <2>13 DEF Sorted
  <2> QED
    BY <1>4, <2>14
<1> QED
  BY <1>7, <1>8

\* Increasing lists a set of variables.
LEMMA IncreasingFacts ==
  ASSUME NEW V \in SUBSET FormulaVars
  PROVE  Increasing(V) \in Seq(V) /\ IsInjective(Increasing(V)) /\ Range(Increasing(V)) = V
<1>1. IsFiniteSet(V) /\ NbVars \in Nat
  <2>1. NbVars \in Nat
    BY TasksAssumption
  <2>2. IsFiniteSet(FormulaVars)
    BY <2>1, FS_Interval DEF FormulaVars
  <2> QED
    BY <2>1, <2>2, FS_Subset
<1> DEFINE key == [v \in V |-> v]
<1>2. key \in [V -> 1 .. NbVars] /\ \A v \in V : key[v] = v
  BY DEF FormulaVars
<1> HIDE DEF key
<1>3. \E q \in SetToSeqs(V) : \A i, j \in DOMAIN q : i < j => q[i] < q[j]
  <2>1. PICK q : q \in Sorted(V, key)
    <3>1. Sorted(V, key) # {}
      BY <1>1, <1>2, SortedExists
    <3> QED
      BY <3>1
  <2>2. q \in SetToSeqs(V) /\ \A i, j \in DOMAIN q : i < j => key[q[i]] < key[q[j]]
    BY <2>1 DEF Sorted
  <2>3. \A i \in DOMAIN q : q[i] \in V
    BY <1>1, <2>2, ListFacts DEF Range
  <2> QED
    BY <1>2, <2>2, <2>3
<1>4. Increasing(V) \in SetToSeqs(V)
  BY <1>3 DEF Increasing
<1> QED
  BY <1>1, <1>4, ListFacts

\* LowestFirst lists a set of parts without a common variable.
LEMMA LowestFirstFacts ==
  ASSUME NEW P \in SUBSET SUBSET FormulaVars, {} \notin P,
         \A C, D \in P : C # D => C \cap D = {}
  PROVE  /\ LowestFirst(P) \in Seq(P) /\ IsInjective(LowestFirst(P)) /\ Range(LowestFirst(P)) = P
<1>1. IsFiniteSet(P) /\ NbVars \in Nat
  <2>1. IsFiniteSet(FormulaVars)
    BY TasksAssumption, FS_Interval DEF FormulaVars
  <2>2. IsFiniteSet(SUBSET FormulaVars)
    BY <2>1, FS_SUBSET
  <2> QED
    BY <2>2, TasksAssumption, FS_Subset
<1> DEFINE low(C) == CHOOSE v \in C : \A w \in C : v <= w
           key == [C \in P |-> low(C)]
<1>2. \A C \in P : key[C] \in C /\ \A w \in C : key[C] <= w
  <2> SUFFICES ASSUME NEW C \in P PROVE low(C) \in C /\ \A w \in C : low(C) <= w
    OBVIOUS
  <2>1. C \in SUBSET Nat /\ C # {}
    BY DEF FormulaVars
  <2>2. \E v \in C : \A w \in C : v <= w
    BY <2>1, LeastNat
  <2> QED
    BY <2>2
<1>3. DOMAIN key = P /\ key = [C \in P |-> key[C]]
  OBVIOUS
<1> HIDE DEF key
<1>4. key \in [P -> 1 .. NbVars]
  BY <1>2, <1>3 DEF FormulaVars
<1>5. \A C, D \in P : key[C] = key[D] => C = D
  BY <1>2
<1>6. \E q \in SetToSeqs(P) : \A i, j \in DOMAIN q : i < j => \E v \in q[i] : \A w \in q[j] : v < w
  <2>1. PICK q : q \in Sorted(P, key)
    <3>1. Sorted(P, key) # {}
      BY <1>1, <1>4, <1>5, SortedExists
    <3> QED
      BY <3>1
  <2>2. q \in SetToSeqs(P) /\ \A i, j \in DOMAIN q : i < j => key[q[i]] < key[q[j]]
    BY <2>1 DEF Sorted
  <2>3. \A i \in DOMAIN q : q[i] \in P
    BY <1>1, <2>2, ListFacts DEF Range
  <2>4. ASSUME NEW i \in DOMAIN q, NEW j \in DOMAIN q, i < j
        PROVE  \E v \in q[i] : \A w \in q[j] : v < w
    <3>1. key[q[i]] \in q[i] /\ key[q[i]] < key[q[j]] /\ \A w \in q[j] : key[q[j]] <= w
      BY <1>2, <2>2, <2>3, <2>4
    <3>2. key[q[i]] \in Nat /\ key[q[j]] \in Nat
      BY <1>4, <2>3
    <3>3. \A w \in q[j] : w \in Nat
      <4>1. q[j] \in SUBSET FormulaVars
        BY <2>3
      <4> QED
        BY <4>1, TasksAssumption DEF FormulaVars
    <3> QED
      BY <3>1, <3>2, <3>3
  <2> QED
    BY <2>2, <2>4
<1>7. LowestFirst(P) \in SetToSeqs(P)
  BY <1>6 DEF LowestFirst
<1> QED
  BY <1>1, <1>7, ListFacts

-----------------------------------------------------------------------------
(* Literals, assignments and residual formulas *)

AllLits == Lits(FormulaVars)
Var(l) == IF l > 0 THEN l ELSE -l

\* Literals come in pairs, one pair for every variable.
LEMMA LitFacts ==
  /\ \A l \in AllLits : /\ l \in Int \ {0} /\ -l \in AllLits /\ -(-l) = l /\ -l # l
                        /\ Var(l) \in FormulaVars /\ Var(-l) = Var(l)
  /\ \A l, k \in AllLits : Var(l) = Var(k) => k = l \/ k = -l
  /\ \A v \in FormulaVars : v \in AllLits /\ Var(v) = v /\ v \in Nat \ {0}
<1>1. \A v \in FormulaVars : v \in Int /\ v > 0
  BY TasksAssumption DEF FormulaVars
<1>2. ASSUME NEW l \in AllLits
      PROVE  /\ l \in Int /\ l # 0 /\ -l \in AllLits /\ -(-l) = l /\ -l # l
             /\ Var(l) \in FormulaVars /\ Var(-l) = Var(l) /\ (l = Var(l) \/ l = -Var(l))
  <2>1. l \in FormulaVars \/ \E v \in FormulaVars : l = -v
    BY DEF AllLits, Lits
  <2>2. CASE l \in FormulaVars
    BY <1>1, <2>2 DEF AllLits, Lits, Var
  <2>3. CASE \E v \in FormulaVars : l = -v
    <3>1. PICK v \in FormulaVars : l = -v
      BY <2>3
    <3>2. v \in Int /\ v > 0 /\ -l = v
      BY <1>1, <3>1
    <3> QED
      BY <3>1, <3>2 DEF AllLits, Lits, Var
  <2> QED
    BY <2>1, <2>2, <2>3
<1>3. \A l, k \in AllLits : Var(l) = Var(k) => k = l \/ k = -l
  BY <1>2
<1>4. \A v \in FormulaVars : v \in AllLits /\ Var(v) = v /\ v \in Nat \ {0}
  BY <1>1 DEF AllLits, Lits, Var
<1> QED
  BY <1>2, <1>3, <1>4

\* The literals of a set of variables, and the variables of a set of literals.
LEMMA LitsFacts ==
  /\ \A V \in SUBSET FormulaVars : \A l : l \in Lits(V) <=> l \in AllLits /\ Var(l) \in V
  /\ \A c \in SUBSET AllLits : \A v : v \in VarsOf(c) <=> \E l \in c : Var(l) = v
<1>1. ASSUME NEW V \in SUBSET FormulaVars, NEW l
      PROVE  l \in Lits(V) <=> l \in AllLits /\ Var(l) \in V
  <2>1. ASSUME l \in Lits(V) PROVE l \in AllLits /\ Var(l) \in V
    <3>1. CASE l \in V
      BY <3>1, LitFacts
    <3>2. CASE \E v \in V : l = -v
      <4>1. PICK v \in V : l = -v
        BY <3>2
      <4>2. v \in AllLits /\ Var(v) = v
        BY LitFacts
      <4>3. -v \in AllLits /\ Var(-v) = v
        BY <4>2, LitFacts
      <4> QED
        BY <4>1, <4>3
    <3> QED
      BY <2>1, <3>1, <3>2 DEF Lits
  <2>2. ASSUME l \in AllLits, Var(l) \in V PROVE l \in Lits(V)
    <3>1. l = Var(l) \/ l = -Var(l)
      BY <2>2, LitFacts DEF Var
    <3> QED
      BY <2>2, <3>1 DEF Lits
  <2> QED
    BY <2>1, <2>2
<1>2. ASSUME NEW c \in SUBSET AllLits, NEW v
      PROVE  v \in VarsOf(c) <=> \E l \in c : Var(l) = v
  <2>1. ASSUME v \in VarsOf(c) PROVE \E l \in c : Var(l) = v
    <3>1. v \in FormulaVars /\ (v \in c \/ -v \in c)
      BY <2>1 DEF VarsOf
    <3>2. v \in AllLits /\ Var(v) = v /\ Var(-v) = v
      BY <3>1, LitFacts
    <3> QED
      BY <3>1, <3>2
  <2>2. ASSUME NEW l \in c, Var(l) = v PROVE v \in VarsOf(c)
    <3>1. l \in AllLits
      OBVIOUS
    <3>2. v \in FormulaVars /\ (v = l \/ v = -l) /\ -(-l) = l
      BY <2>2, <3>1, LitFacts DEF Var
    <3> QED
      BY <3>2 DEF VarsOf
  <2> QED
    BY <2>1, <2>2
<1> QED
  BY <1>1, <1>2

\* An assignment of V holds one literal of every variable.
LEMMA OverFacts ==
  ASSUME NEW V \in SUBSET FormulaVars
  PROVE  \A m : m \in Over(V) <=> m \in SUBSET Lits(V) /\ \A l \in Lits(V) : l \in m <=> -l \notin m
<1>1. \A v \in V : v \in Int /\ v > 0 /\ v \in AllLits /\ -v \in AllLits /\ -(-v) = v /\ v # -v
  BY LitFacts
<1>2. ASSUME NEW m \in Over(V)
      PROVE  m \in SUBSET Lits(V) /\ \A l \in Lits(V) : l \in m <=> -l \notin m
  <2>1. PICK T \in SUBSET V : m = T \cup {-v : v \in V \ T}
    BY DEF Over
  <2>2. m \subseteq Lits(V)
    BY <2>1 DEF Lits
  <2>3. ASSUME NEW v \in V PROVE (v \in m <=> v \in T) /\ (-v \in m <=> v \notin T)
    <3>1. v \notin {-w : w \in V \ T}
      <4> SUFFICES ASSUME NEW w \in V, v = -w PROVE FALSE
        OBVIOUS
      <4> QED
        BY <1>1
    <3>2. -v \notin T
      BY <1>1
    <3>3. -v \in {-w : w \in V \ T} <=> v \notin T
      <4> SUFFICES ASSUME NEW w \in V \ T, -v = -w PROVE v \notin T
        OBVIOUS
      <4>1. v = w
        BY <1>1
      <4> QED
        BY <4>1
    <3> QED
      BY <2>1, <3>1, <3>2, <3>3
  <2>4. ASSUME NEW l \in Lits(V) PROVE l \in m <=> -l \notin m
    <3>1. CASE l \in V
      BY <2>3, <3>1
    <3>2. CASE \E v \in V : l = -v
      <4>1. PICK v \in V : l = -v
        BY <3>2
      <4>2. -l = v
        BY <1>1, <4>1
      <4> QED
        BY <2>3, <4>1, <4>2
    <3> QED
      BY <3>1, <3>2 DEF Lits
  <2> QED
    BY <2>2, <2>4
<1>3. ASSUME NEW m \in SUBSET Lits(V), \A l \in Lits(V) : l \in m <=> -l \notin m
      PROVE  m \in Over(V)
  <2> DEFINE T == m \cap V
  <2>1. \A v \in V : v \in Lits(V) /\ (v \in m <=> -v \notin m)
    BY <1>3 DEF Lits
  <2>2. ASSUME NEW l \in m PROVE l \in T \cup {-v : v \in V \ T}
    <3>1. l \in V \/ \E v \in V : l = -v
      BY DEF Lits
    <3> QED
      BY <2>1, <3>1
  <2>3. T \cup {-v : v \in V \ T} \subseteq m
    BY <2>1
  <2>4. m = T \cup {-v : v \in V \ T}
    BY <2>2, <2>3
  <2> QED
    BY <2>4 DEF Over
<1> QED
  BY <1>2, <1>3

\* A model holds one literal of every variable.
LEMMA ModelIs ==
  ASSUME NEW F, NEW A, NEW M \in ModelsOf(F, A)
  PROVE  /\ M \in SUBSET AllLits /\ \A l \in AllLits : l \in M <=> -l \notin M
         /\ A \subseteq M /\ \A c \in F : c \cap M # {}
<1>1. M \in Over(FormulaVars) /\ A \subseteq M /\ \A c \in F : c \cap M # {}
  BY DEF ModelsOf
<1>2. M \in SUBSET Lits(FormulaVars) /\ \A l \in Lits(FormulaVars) : l \in M <=> -l \notin M
  BY <1>1, OverFacts
<1> QED
  BY <1>1, <1>2 DEF AllLits

\* What is over V in a model is an assignment of V.
LEMMA ModelCut ==
  ASSUME NEW F, NEW A, NEW M \in ModelsOf(F, A), NEW V \in SUBSET FormulaVars
  PROVE  M \cap Lits(V) \in Over(V)
<1>1. \A l \in Lits(V) : l \in AllLits /\ -l \in Lits(V)
  BY LitsFacts, LitFacts
<1>2. \A l \in Lits(V) : l \in M <=> -l \notin M
  BY <1>1, ModelIs
<1>3. M \cap Lits(V) \in SUBSET Lits(V) /\ \A l \in Lits(V) : l \in M \cap Lits(V) <=> -l \notin M \cap Lits(V)
  BY <1>1, <1>2
<1> QED
  BY <1>3, OverFacts

\* What the literals A leave of a clause has none of their variables.
LEMMA ResidualFacts ==
  ASSUME NEW F \in SUBSET SUBSET AllLits, NEW A \in SUBSET AllLits, NEW c \in Residual(F, A)
  PROVE  /\ c \in SUBSET AllLits /\ VarsOf(c) \cap VarsOf(A) = {}
         /\ \E d \in F : d \cap A = {} /\ c = {l \in d : -l \notin A} /\ c \subseteq d
<1>1. PICK d \in F : d \cap A = {} /\ c = {l \in d : -l \notin A}
  BY DEF Residual
<1>2. c \in SUBSET AllLits /\ c \subseteq d
  BY <1>1
<1>3. ASSUME NEW v \in VarsOf(c), v \in VarsOf(A) PROVE FALSE
  <2>1. PICK l \in c : Var(l) = v
    BY <1>2, <1>3, LitsFacts
  <2>2. PICK a \in A : Var(a) = v
    BY <1>3, LitsFacts
  <2>3. a = l \/ a = -l
    BY <1>2, <2>1, <2>2, LitFacts
  <2> QED
    BY <1>1, <2>1, <2>2, <2>3
<1> QED
  BY <1>1, <1>2, <1>3

\* A model makes it true.
LEMMA ResidualHolds ==
  ASSUME NEW F \in SUBSET SUBSET AllLits, NEW A \in SUBSET AllLits, NEW c \in Residual(F, A),
         NEW M \in ModelsOf(F, A)
  PROVE  c \cap M # {}
<1>1. PICK d \in F : d \cap A = {} /\ c = {l \in d : -l \notin A}
  BY DEF Residual
<1>2. PICK l \in d : l \in M
  BY ModelIs
<1>3. -l \notin A
  BY <1>2, ModelIs, LitFacts
<1> QED
  BY <1>1, <1>2, <1>3

\* The assignment m of the variables X satisfies the clauses about them.
Fits(F, A, X, m) == \A c \in Residual(F, A) : VarsOf(c) \cap X = {} \/ c \cap m # {}

\* Within the variables X a model may be exchanged for any assignment that satisfies the
\* clauses about them.
LEMMA Mixed ==
  ASSUME NEW F \in SUBSET SUBSET AllLits, NEW A \in SUBSET AllLits, NEW X \in SUBSET FormulaVars,
         NEW N \in ModelsOf(F, A), NEW m \in Over(X), X \cap VarsOf(A) = {},
         Fits(F, A, X, m)
  PROVE  (N \ Lits(X)) \cup m \in ModelsOf(F, A)
<1> DEFINE M == (N \ Lits(X)) \cup m
<1>1. /\ N \in SUBSET AllLits /\ \A l \in AllLits : l \in N <=> -l \notin N
      /\ A \subseteq N /\ \A c \in F : c \cap N # {}
  BY ModelIs
<1>2. m \in SUBSET Lits(X) /\ \A l \in Lits(X) : l \in m <=> -l \notin m
  BY OverFacts
<1>3. \A l : l \in Lits(X) <=> l \in AllLits /\ Var(l) \in X
  BY LitsFacts
<1>4. \A l \in AllLits : -l \in AllLits /\ Var(-l) = Var(l)
  BY LitFacts
<1>5. M \in Over(FormulaVars)
  <2>1. M \in SUBSET AllLits
    BY <1>1, <1>2, <1>3
  <2>2. \A l \in AllLits : l \in M <=> -l \notin M
    BY <1>1, <1>2, <1>3, <1>4
  <2> HIDE DEF M
  <2> QED
    BY <2>1, <2>2, OverFacts DEF AllLits
<1>6. A \subseteq M
  <2> SUFFICES ASSUME NEW a \in A PROVE a \in M
    OBVIOUS
  <2>1. Var(a) \in VarsOf(A)
    BY LitsFacts
  <2> QED
    BY <1>1, <1>3, <2>1
<1>7. ASSUME NEW d \in F PROVE d \cap M # {}
  <2>1. CASE d \cap A # {}
    BY <1>6, <2>1
  <2>2. CASE d \cap A = {}
    <3> DEFINE c == {l \in d : -l \notin A}
    <3>1. c \in Residual(F, A) /\ c \subseteq d
      BY <2>2 DEF Residual
    <3> HIDE DEF c
    <3>2. CASE c \cap m # {}
      BY <3>1, <3>2
    <3>3. CASE VarsOf(c) \cap X = {}
      <4>1. c \in SUBSET AllLits /\ c \cap N # {}
        BY <3>1, ResidualFacts, ResidualHolds
      <4>2. PICK l \in c : l \in N
        BY <4>1
      <4>3. Var(l) \in VarsOf(c)
        BY <4>1, LitsFacts
      <4> QED
        BY <1>3, <3>1, <3>3, <4>2, <4>3
    <3> QED
      BY <3>1, <3>2, <3>3 DEF Fits
  <2> QED
    BY <2>1, <2>2
<1> QED
  BY <1>5, <1>6, <1>7 DEF ModelsOf

-----------------------------------------------------------------------------
(* Components, their models and their keys *)

\* The variables C share no clause with others once the literals A are set.
Separated(F, A, C) ==
  C \in SUBSET FormulaVars /\ C \cap VarsOf(A) = {} /\ Connected(Residual(F, A), C)

\* What the models of F and A say of the variables V.
Shadow(F, A, V) == {M \cap Lits(V) : M \in ModelsOf(F, A)}

\* Key, with the clauses as a parameter.
KeyIn(F, C, A) ==
  LET touched == {c \in F : \E l \in c : -l \in A}
  IN  <<C, {c \in Residual(touched, A) : VarsOf(c) \subseteq C}>>

\* The models of a component are the assignments that satisfy its clauses.
LEMMA ShadowIs ==
  ASSUME NEW F \in SUBSET SUBSET AllLits, NEW A \in SUBSET AllLits, NEW C, Separated(F, A, C),
         ModelsOf(F, A) # {}
  PROVE  \A m : m \in Shadow(F, A, C) <=>
           m \in Over(C) /\ \A c \in Residual(F, A) : VarsOf(c) \subseteq C => c \cap m # {}
<1>1. C \in SUBSET FormulaVars /\ C \cap VarsOf(A) = {}
  BY DEF Separated
<1>2. \A c \in Residual(F, A) : VarsOf(c) \cap C = {} \/ VarsOf(c) \subseteq C
  BY DEF Separated, Connected
<1>3. ASSUME NEW M \in ModelsOf(F, A)
      PROVE  /\ M \cap Lits(C) \in Over(C)
             /\ \A c \in Residual(F, A) : VarsOf(c) \subseteq C => c \cap (M \cap Lits(C)) # {}
  <2>1. M \cap Lits(C) \in Over(C)
    BY <1>1, ModelCut
  <2>2. ASSUME NEW c \in Residual(F, A), VarsOf(c) \subseteq C
        PROVE  c \cap (M \cap Lits(C)) # {}
    <3>1. c \in SUBSET AllLits
      BY ResidualFacts
    <3>2. PICK l \in c : l \in M
      <4>1. c \cap M # {}
        BY ResidualHolds
      <4> QED
        BY <4>1
    <3>3. Var(l) \in VarsOf(c)
      BY <3>1, LitsFacts
    <3>4. l \in Lits(C)
      BY <1>1, <2>2, <3>1, <3>3, LitsFacts
    <3> QED
      BY <3>2, <3>4
  <2> QED
    BY <2>1, <2>2
<1>4. ASSUME NEW m \in Over(C), \A c \in Residual(F, A) : VarsOf(c) \subseteq C => c \cap m # {}
      PROVE  m \in Shadow(F, A, C)
  <2>1. PICK N : N \in ModelsOf(F, A)
    OBVIOUS
  <2>2. Fits(F, A, C, m)
    BY <1>2, <1>4 DEF Fits
  <2>3. C \in SUBSET FormulaVars /\ C \cap VarsOf(A) = {}
    BY <1>1
  <2>4. \E M \in ModelsOf(F, A) : M \cap Lits(C) = m
    <3>1. (N \ Lits(C)) \cup m \in ModelsOf(F, A)
      BY <2>1, <2>2, <2>3, Mixed
    <3>2. m \subseteq Lits(C)
      BY <2>3, OverFacts
    <3>3. ((N \ Lits(C)) \cup m) \cap Lits(C) = m
      BY <3>2
    <3> QED
      BY <3>1, <3>3
  <2> QED
    BY <2>4 DEF Shadow
<1> QED
  BY <1>3, <1>4 DEF Shadow

\* A clause over the component is there under the literals of every call with that key.
LEMMA SameClauses ==
  ASSUME NEW F \in SUBSET SUBSET AllLits, NEW A \in SUBSET AllLits, NEW B \in SUBSET AllLits,
         NEW C, Separated(F, A, C), Separated(F, B, C), KeyIn(F, C, A) = KeyIn(F, C, B),
         NEW c \in Residual(F, A), VarsOf(c) \subseteq C
  PROVE  c \in Residual(F, B)
<1> DEFINE touched(X) == {d \in F : \E l \in d : -l \in X}
<1>1. \A d : d \in Residual(touched(A), A) /\ VarsOf(d) \subseteq C <=>
             d \in Residual(touched(B), B) /\ VarsOf(d) \subseteq C
  <2>1. {d \in Residual(touched(A), A) : VarsOf(d) \subseteq C} =
        {d \in Residual(touched(B), B) : VarsOf(d) \subseteq C}
    BY DEF KeyIn
  <2> QED
    BY <2>1
<1>2. PICK d \in F : d \cap A = {} /\ c = {l \in d : -l \notin A}
  BY DEF Residual
<1>3. CASE d \in touched(A)
  <2>1. c \in Residual(touched(A), A)
    BY <1>2, <1>3 DEF Residual
  <2>2. c \in Residual(touched(B), B)
    BY <1>1, <2>1
  <2>3. touched(B) \subseteq F
    OBVIOUS
  <2> QED
    BY <2>2, <2>3 DEF Residual
<1>4. CASE d \notin touched(A)
  <2>1. c = d
    BY <1>2, <1>4
  <2>2. ASSUME NEW l \in c, l \in B \/ -l \in B PROVE FALSE
    <3>1. c \in SUBSET AllLits /\ l \in AllLits /\ Var(-l) = Var(l)
      BY <2>1, LitFacts
    <3>2. Var(l) \in C
      BY <3>1, LitsFacts
    <3>3. Var(l) \in VarsOf(B)
      BY <2>2, <3>1, LitsFacts
    <3> QED
      BY <3>2, <3>3 DEF Separated
  <2>3. c \cap B = {} /\ c = {l \in c : -l \notin B}
    BY <2>2
  <2> QED
    BY <1>2, <2>1, <2>3 DEF Residual
<1> QED
  BY <1>3, <1>4

\* Calls with the same key have the same component and the same models of it.
LEMMA CacheSame ==
  ASSUME NEW F \in SUBSET SUBSET AllLits, NEW A \in SUBSET AllLits, NEW B \in SUBSET AllLits,
         NEW C, NEW E, Separated(F, A, C), Separated(F, B, E),
         ModelsOf(F, A) # {}, ModelsOf(F, B) # {}, KeyIn(F, C, A) = KeyIn(F, E, B)
  PROVE  C = E /\ Shadow(F, A, C) = Shadow(F, B, E)
<1>1. C = E
  BY DEF KeyIn
<1>2. \A c : VarsOf(c) \subseteq C => (c \in Residual(F, A) <=> c \in Residual(F, B))
  BY <1>1, SameClauses
<1>3. \A m : m \in Shadow(F, A, C) <=>
           m \in Over(C) /\ \A c \in Residual(F, A) : VarsOf(c) \subseteq C => c \cap m # {}
  BY ShadowIs
<1>4. \A m : m \in Shadow(F, B, C) <=>
           m \in Over(C) /\ \A c \in Residual(F, B) : VarsOf(c) \subseteq C => c \cap m # {}
  BY <1>1, ShadowIs
<1>5. \A m : m \in Shadow(F, A, C) <=> m \in Shadow(F, B, C)
  BY <1>2, <1>3, <1>4
<1> QED
  BY <1>1, <1>5

\* Literals of all models change nothing; they contradict none of the others.
LEMMA UnitsFacts ==
  ASSUME NEW F, NEW A \in SUBSET AllLits, NEW V \in SUBSET FormulaVars, NEW U \in UnitSets(F, A, V)
  PROVE  /\ U \in SUBSET Lits(V) /\ U \in SUBSET AllLits /\ A \cap Lits(V) \subseteq U
         /\ ModelsOf(F, A \cup U) = ModelsOf(F, A) /\ Propagated(F, A \cup U)
<1>1. U \subseteq Lits(V) /\ (\A l \in U : \A m \in ModelsOf(F, A) : l \in m)
      /\ A \cap Lits(V) \subseteq U /\ Propagated(F, A \cup U)
  BY DEF UnitSets
<1>2. U \in SUBSET AllLits
  BY <1>1, LitsFacts
<1>3. \A m : m \in ModelsOf(F, A \cup U) <=> m \in ModelsOf(F, A)
  BY <1>1 DEF ModelsOf
<1> QED
  BY <1>1, <1>2, <1>3

\* Components have no common variable and no clause between them.
LEMMA ComponentsApart ==
  ASSUME NEW R, NEW V
  PROVE  /\ \A C \in Components(R, V) : C \subseteq V /\ C # {} /\ Connected(R, C)
                                        /\ C \subseteq UNION {VarsOf(c) : c \in R}
         /\ \A C, D \in Components(R, V) : C # D => C \cap D = {}
<1> DEFINE present == V \cap UNION {VarsOf(c) : c \in R}
<1>1. \A C \in Components(R, V) : /\ C \subseteq present /\ C # {} /\ Connected(R, C)
                                  /\ \A D \in (SUBSET C) \ {{}, C} : ~Connected(R, D)
  BY DEF Components
<1> HIDE DEF present
<1>2. ASSUME NEW C \in Components(R, V), NEW D \in Components(R, V), C \cap D # {} PROVE C = D
  <2>1. Connected(R, C \cap D)
    BY <1>1 DEF Connected
  <2>2. C \cap D = C
    BY <1>1, <1>2, <2>1
  <2>3. C \cap D = D
    BY <1>1, <1>2, <2>1
  <2> QED
    BY <2>2, <2>3
<1> QED
  BY <1>1, <1>2 DEF present

\* If no clause leaves V, every clause with a variable of V lies in a component.
LEMMA ComponentsCover ==
  ASSUME NEW R, NEW V, Connected(R, V), NEW c \in R, VarsOf(c) \cap V # {}
  PROVE  \E C \in Components(R, V) : VarsOf(c) \subseteq C
<1> DEFINE present == V \cap UNION {VarsOf(d) : d \in R}
<1>1. \A d \in R : VarsOf(d) \cap present = {} \/ VarsOf(d) \subseteq present
  BY DEF Connected
<1>2. PICK v \in VarsOf(c) : v \in present
  OBVIOUS
<1>3. \A C : C \in Components(R, V) <=>
        /\ C \in SUBSET present /\ C # {} /\ Connected(R, C)
        /\ \A D \in (SUBSET C) \ {{}, C} : ~Connected(R, D)
  BY DEF Components
<1> HIDE DEF present
<1> DEFINE X == {w \in present : \A S \in SUBSET present : Connected(R, S) /\ v \in S => w \in S}
<1>4. v \in X
  BY <1>2
<1>5. ASSUME NEW d \in R, NEW w \in VarsOf(d), w \in X, NEW y \in VarsOf(d) PROVE y \in X
  <2>1. y \in present
    BY <1>1, <1>5
  <2>2. ASSUME NEW S \in SUBSET present, Connected(R, S), v \in S PROVE y \in S
    <3>1. w \in S
      BY <1>5, <2>2
    <3>2. VarsOf(d) \cap S \in {{}, VarsOf(d)}
      BY <2>2 DEF Connected
    <3> QED
      BY <3>1, <3>2
  <2> QED
    BY <2>1, <2>2
<1>6. X \subseteq present /\ \A S \in SUBSET present : Connected(R, S) /\ v \in S => X \subseteq S
  OBVIOUS
<1> HIDE DEF X
<1>7. \A d \in R : VarsOf(d) \cap X = {} \/ VarsOf(d) \subseteq X
  BY <1>5
<1>8. Connected(R, X)
  BY <1>7 DEF Connected
<1>9. ASSUME NEW D \in (SUBSET X) \ {{}, X}, Connected(R, D) PROVE FALSE
  <2>1. \A d \in R : VarsOf(d) \cap D \in {{}, VarsOf(d)}
    BY <1>9 DEF Connected
  <2>2. Connected(R, X \ D)
    BY <1>7, <2>1 DEF Connected
  <2>3. CASE v \in D
    BY <1>6, <1>9, <2>3
  <2>4. CASE v \notin D
    <3>1. X \subseteq X \ D
      BY <1>4, <1>6, <2>2, <2>4
    <3> QED
      BY <3>1, <1>9
  <2> QED
    BY <2>3, <2>4
<1>10. X \in Components(R, V)
  BY <1>3, <1>4, <1>6, <1>8, <1>9
<1>11. VarsOf(c) \subseteq X
  BY <1>2, <1>4, <1>7
<1> QED
  BY <1>10, <1>11

\* Setting more literals connects nothing.
LEMMA ConnectedKept ==
  ASSUME NEW F, NEW A, NEW B, A \subseteq B, NEW C, Connected(Residual(F, A), C)
  PROVE  Connected(Residual(F, B), C)
<1>1. ASSUME NEW c \in Residual(F, B) PROVE \E d \in Residual(F, A) : c \subseteq d
  <2>1. PICK e \in F : e \cap B = {} /\ c = {l \in e : -l \notin B}
    BY DEF Residual
  <2> DEFINE d == {l \in e : -l \notin A}
  <2>2. d \in Residual(F, A)
    BY <2>1 DEF Residual
  <2>3. c \subseteq d
    BY <2>1
  <2> QED
    BY <2>2, <2>3
<1>2. ASSUME NEW c \in Residual(F, B) PROVE VarsOf(c) \cap C \in {{}, VarsOf(c)}
  <2>1. PICK d \in Residual(F, A) : c \subseteq d
    BY <1>1
  <2>2. VarsOf(c) \subseteq VarsOf(d)
    BY <2>1 DEF VarsOf
  <2>3. VarsOf(d) \cap C \in {{}, VarsOf(d)}
    BY DEF Connected
  <2> QED
    BY <2>2, <2>3
<1> QED
  BY <1>2 DEF Connected

-----------------------------------------------------------------------------
(* The circuit that is being built *)

Plain(D) == [circuit |-> D, cubes |-> <<{}>>, count |-> "mc"]
Mean(D) == Meanings(Plain(D))
Via(D, e) == Through(Plain(D), Mean(D), e)

\* The edge e may leave a node of D, and nothing below it has its variables.
Linked(D, e) ==
  e \in Edges /\ e.dst \in 2 .. Len(D) /\ IsInjective(e.free) /\ Apart(e.units, Range(e.free))
Clear(D, e) ==
  \A m \in Mean(D)[e.dst] : m \subseteq Int \ {0} /\ Apart(m, e.units \cup Range(e.free))

\* The children of the node share no model, or no variable.
Split(D, nd) ==
  \A j, k \in DOMAIN nd.children :
    LET d == nd.children[j]
        e == nd.children[k]
    IN  j # k => IF nd.type = "a" THEN \A x \in Mean(D)[d.dst], y \in Mean(D)[e.dst] : Apart(x, y)
                 ELSE Via(D, d) \cap Via(D, e) = {}
NodeShape(D, nd) ==
  /\ nd \in Shape
  /\ \A k \in DOMAIN nd.children :
       /\ Linked(D, nd.children[k])
       /\ nd.type = "a" => nd.children[k].units = {} /\ nd.children[k].free = <<>>
NodeSound(D, nd) == (\A k \in DOMAIN nd.children : Clear(D, nd.children[k])) /\ Split(D, nd)

\* Nodes are built after their children, but for the root.
DagShape(D) ==
  /\ D \in Seq(Shape) /\ Len(D) >= 3
  /\ D[1].type = "o" /\ D[2] = Node("t", <<>>) /\ D[3] = Node("f", <<>>)
  /\ \A n \in 1 .. Len(D) :
       /\ NodeShape(D, D[n])
       /\ n # 1 => \A k \in DOMAIN D[n].children : D[n].children[k].dst < n
DagOK(D) == DagShape(D) /\ \A n \in 1 .. Len(D) : NodeSound(D, D[n])

\* E keeps the nodes of D, except for the edges of the root.
Grows(D, E) ==
  DagShape(D) /\ DagShape(E) /\ Len(D) <= Len(E) /\ \A n \in 2 .. Len(D) : E[n] = D[n]

\* The circuit alone, as it is read without cubes.
LEMMA PlainFacts == \A D : Plain(D).circuit = D /\ Plain(D).count = "mc" /\ Plain(D).cubes = <<{}>>
BY DEF Plain

\* The order in which the nodes were built excludes cycles.
LEMMA DagDrawn ==
  ASSUME NEW D, DagShape(D)
  PROVE  Drawn(Plain(D)) /\ DOMAIN D = 1 .. Len(D) /\ Len(D) \in Nat
<1>1. D \in Seq(Shape) /\ Len(D) >= 3 /\ DOMAIN D = 1 .. Len(D) /\ Len(D) \in Nat /\ 1 \in 1 .. Len(D)
  BY DEF DagShape
<1>2. \A n \in 1 .. Len(D) : \A k \in DOMAIN D[n].children :
        /\ Linked(D, D[n].children[k])
        /\ D[n].type = "a" => D[n].children[k].units = {} /\ D[n].children[k].free = <<>>
        /\ n # 1 => D[n].children[k].dst < n
  BY DEF DagShape, NodeShape
<1>3. \A n \in 1 .. Len(D) : \A k \in DOMAIN D[n].children :
        /\ D[n].children[k].dst \in 2 .. Len(D)
        /\ IsInjective(D[n].children[k].free)
        /\ Apart(D[n].children[k].units, Range(D[n].children[k].free))
  BY <1>2 DEF Linked
<1>4. ASSUME NEW S \in (SUBSET (1 .. Len(D))) \ {{}}
      PROVE  \E n \in S : \A k \in DOMAIN D[n].children : D[n].children[k].dst \notin S
  <2>1. CASE S = {1}
    <3>1. \A k \in DOMAIN D[1].children : D[1].children[k].dst # 1
      BY <1>1, <1>3
    <3> QED
      BY <2>1, <3>1
  <2>2. CASE S # {1}
    <3> DEFINE T == S \ {1}
    <3>1. T \in SUBSET Nat /\ T # {}
      BY <1>1, <2>2
    <3>2. PICK n \in T : \A y \in T : n <= y
      <4> HIDE DEF T
      <4> QED
        BY <3>1, LeastNat
    <3>3. n \in S /\ n \in 1 .. Len(D) /\ n # 1 /\ \A y \in S : y = 1 \/ n <= y
      BY <3>2
    <3>4. ASSUME NEW k \in DOMAIN D[n].children, D[n].children[k].dst \in S PROVE FALSE
      <4>1. D[n].children[k].dst \in 2 .. Len(D) /\ D[n].children[k].dst < n
        BY <1>2, <1>3, <3>3
      <4>2. D[n].children[k].dst = 1 \/ n <= D[n].children[k].dst
        BY <3>3, <3>4
      <4> QED
        BY <1>1, <3>3, <4>1, <4>2
    <3> QED
      BY <3>3, <3>4
  <2> QED
    BY <2>1, <2>2
<1>5. D \in Seq([type : {"t", "f", "a", "o", "u"}, children : Seq(Edges)])
  BY <1>1 DEF Shape
<1>6. \A n \in 1 .. Len(D) : \A k \in DOMAIN D[n].children : D[n].children[k].dst \in 1 .. Len(D)
  BY <1>1, <1>3
<1>7. IsCircuit(D)
  BY <1>1, <1>2, <1>3, <1>4, <1>5, <1>6 DEF IsCircuit, ROOT
<1> QED
  BY <1>1, <1>7, PlainFacts DEF Drawn

\* Only the count and the node matter for what a node means.
LEMMA SameNode ==
  ASSUME NEW q, NEW p, NEW n, NEW M, q.count = p.count, q.circuit[n] = p.circuit[n]
  PROVE  MeaningOf(q, M, n) = MeaningOf(p, M, n)
<1>1. \A e : FreeChoices(q, e) = FreeChoices(p, e)
  BY DEF FreeChoices
<1>2. \A e : Through(q, M, e) = Through(p, M, e)
  BY <1>1 DEF Through
<1> QED
  BY <1>2 DEF MeaningOf

\* A circuit has one meaning.
LEMMA MeaningUnique ==
  ASSUME NEW q, Drawn(q), NEW p, p.circuit = q.circuit, p.count = q.count
  PROVE  Meanings(p) = Meanings(q)
<1> DEFINE Ns == DOMAIN q.circuit
           M == Meanings(q)
           L == Meanings(p)
           F == {S \in SUBSET Ns : \A n \in S : M[n] = L[n]}
<1>1. Drawn(p)
  BY DEF Drawn
<1>2. DOMAIN M = Ns /\ DOMAIN L = Ns /\ \A n \in Ns : M[n] = MeaningOf(q, M, n) /\ L[n] = MeaningOf(p, L, n)
  BY <1>1, DrawnMeaning
<1>3. M = [n \in Ns |-> M[n]] /\ L = [n \in Ns |-> L[n]]
  BY <1>1, DrawnMeaning
<1> HIDE DEF M, L
<1>4. ASSUME NEW S \in F, NEW n \in Ns \ S, Dsts(q, n) \subseteq S PROVE S \cup {n} \in F
  <2>1. \A d \in Dsts(q, n) : M[d] = L[d]
    BY <1>4
  <2>2. MeaningOf(q, M, n) = MeaningOf(q, L, n)
    BY <2>1, MeaningLocal
  <2>3. MeaningOf(q, L, n) = MeaningOf(p, L, n)
    BY SameNode
  <2>4. M[n] = L[n]
    BY <1>2, <2>2, <2>3
  <2> QED
    BY <2>4
<1>5. {} \in F
  OBVIOUS
<1>6. Ns \in F
  <2> HIDE DEF F
  <2> QED
    BY <1>4, <1>5, Upwards
<1> QED
  BY <1>2, <1>3, <1>6 DEF M, L

\* A node keeps its meaning when others are added or the root is given its edge.
LEMMA MeaningKept ==
  ASSUME NEW D, NEW E, Grows(D, E)
  PROVE  \A n \in 2 .. Len(D) : Mean(E)[n] = Mean(D)[n]
<1> DEFINE Bad == {n \in 2 .. Len(D) : Mean(E)[n] # Mean(D)[n]}
<1> SUFFICES ASSUME Bad # {} PROVE FALSE
  OBVIOUS
<1>1. /\ Drawn(Plain(D)) /\ Len(D) \in Nat /\ DOMAIN D = 1 .. Len(D)
      /\ Drawn(Plain(E)) /\ Len(E) \in Nat /\ DOMAIN E = 1 .. Len(E)
      /\ Len(D) <= Len(E) /\ \A n \in 2 .. Len(D) : E[n] = D[n]
  BY DagDrawn DEF Grows
<1>2. Bad \in SUBSET Nat
  BY <1>1
<1>3. PICK n \in Bad : \A y \in Bad : n <= y
  <2> HIDE DEF Bad
  <2> QED
    BY <1>2, LeastNat
<1>4. n \in 2 .. Len(D) /\ n \in DOMAIN D /\ n \in DOMAIN E /\ E[n] = D[n]
  BY <1>1
<1>5. ASSUME NEW d \in Dsts(Plain(D), n) PROVE Mean(D)[d] = Mean(E)[d]
  <2>1. PICK k \in DOMAIN D[n].children : d = D[n].children[k].dst
    BY PlainFacts DEF Dsts
  <2>2. d \in 2 .. Len(D) /\ d < n
    BY <1>1, <1>4, <2>1 DEF Grows, DagShape, NodeShape, Linked
  <2>3. d \notin Bad
    <3> HIDE DEF Bad
    <3> QED
      BY <1>1, <1>3, <1>4, <2>2
  <2> QED
    BY <2>2, <2>3
<1>6. MeaningOf(Plain(D), Mean(D), n) = MeaningOf(Plain(D), Mean(E), n)
  BY <1>1, <1>4, <1>5, MeaningLocal, PlainFacts
<1>7. MeaningOf(Plain(D), Mean(E), n) = MeaningOf(Plain(E), Mean(E), n)
  BY <1>4, SameNode, PlainFacts
<1>8. Mean(D)[n] = MeaningOf(Plain(D), Mean(D), n) /\ Mean(E)[n] = MeaningOf(Plain(E), Mean(E), n)
  BY <1>1, <1>4, DrawnMeaning, PlainFacts DEF Mean
<1> QED
  BY <1>3, <1>6, <1>7, <1>8

-----------------------------------------------------------------------------
(* What the nodes of a circuit mean *)

\* What the nodes of a dag mean.
LEMMA MeanOf ==
  ASSUME NEW D, DagShape(D)
  PROVE  /\ Mean(D)[2] = {{}} /\ Mean(D)[3] = {}
         /\ \A n \in 1 .. Len(D) :
              /\ D[n].type \in {"o", "u"} =>
                   Mean(D)[n] = UNION {Via(D, D[n].children[k]) : k \in DOMAIN D[n].children}
              /\ D[n].type = "a" => Mean(D)[n] = Joined(Mean(D), D[n].children)
<1>1. /\ Drawn(Plain(D)) /\ Len(D) \in Nat /\ DOMAIN D = 1 .. Len(D) /\ Len(D) >= 3
      /\ D[2] = Node("t", <<>>) /\ D[3] = Node("f", <<>>)
  BY DagDrawn DEF DagShape
<1>2. \A n \in 1 .. Len(D) : Mean(D)[n] = MeaningOf(Plain(D), Mean(D), n)
  BY <1>1, DrawnMeaning, PlainFacts DEF Mean
<1>3. D[2].type = "t" /\ D[3].type = "f" /\ 2 \in 1 .. Len(D) /\ 3 \in 1 .. Len(D)
  BY <1>1 DEF Node
<1>4. Mean(D)[2] = {{}} /\ Mean(D)[3] = {}
  <2>1. MeaningOf(Plain(D), Mean(D), 2) = {{}}
    BY <1>3, PlainFacts DEF MeaningOf
  <2>2. MeaningOf(Plain(D), Mean(D), 3) = {}
    BY <1>3, PlainFacts DEF MeaningOf
  <2> QED
    BY <1>2, <1>3, <2>1, <2>2
<1>5. ASSUME NEW n \in 1 .. Len(D), D[n].type \in {"o", "u"}
      PROVE  MeaningOf(Plain(D), Mean(D), n) = UNION {Via(D, D[n].children[k]) : k \in DOMAIN D[n].children}
  BY <1>5, PlainFacts DEF MeaningOf, Via
<1>6. ASSUME NEW n \in 1 .. Len(D), D[n].type = "a"
      PROVE  MeaningOf(Plain(D), Mean(D), n) = Joined(Mean(D), D[n].children)
  BY <1>6, PlainFacts DEF MeaningOf
<1> QED
  BY <1>2, <1>4, <1>5, <1>6

\* What goes through an edge to a node that means X.
Passing(e, X) == {e.units \cup f \cup m : f \in Over(Range(e.free)), m \in X}

\* That is what an edge of the circuit stands for.
LEMMA ViaIs ==
  ASSUME NEW D, NEW e
  PROVE  Via(D, e) = Passing(e, Mean(D)[e.dst])
<1> DEFINE R == Range(e.free)
           signs(T) == {IF x \in T THEN x ELSE -x : x \in R}
           part(T) == T \cup {-x : x \in R \ T}
<1>1. FreeChoices(Plain(D), e) = {signs(T) : T \in SUBSET R}
  BY PlainFacts DEF FreeChoices
<1>2. Over(R) = {part(T) : T \in SUBSET R}
  BY DEF Over
<1>3. \A T \in SUBSET R : signs(T) = part(T)
  OBVIOUS
<1> HIDE DEF signs, part, R
<1>4. FreeChoices(Plain(D), e) = Over(R)
  BY <1>1, <1>2, <1>3
<1> QED
  BY <1>4 DEF Via, Through, R, Passing

\* What goes through an edge is kept when the circuit grows.
LEMMA ViaKept ==
  ASSUME NEW D, NEW E, Grows(D, E), NEW e, e.dst \in 2 .. Len(D)
  PROVE  Via(E, e) = Via(D, e) /\ Mean(E)[e.dst] = Mean(D)[e.dst]
BY MeaningKept, ViaIs

\* A node stays sound when the circuit grows.
LEMMA SoundKept ==
  ASSUME NEW D, NEW E, Grows(D, E), NEW nd, \A k \in DOMAIN nd.children : nd.children[k].dst \in 2 .. Len(D),
         NodeSound(D, nd)
  PROVE  NodeSound(E, nd)
<1>1. \A k \in DOMAIN nd.children : /\ Via(E, nd.children[k]) = Via(D, nd.children[k])
                                    /\ Mean(E)[nd.children[k].dst] = Mean(D)[nd.children[k].dst]
  BY ViaKept
<1>2. \A k \in DOMAIN nd.children : Clear(E, nd.children[k])
  BY <1>1 DEF NodeSound, Clear
<1>3. Split(E, nd)
  BY <1>1 DEF NodeSound, Split
<1> QED
  BY <1>2, <1>3 DEF NodeSound

\* A new node with sound edges keeps the circuit sound, and the old nodes their meaning.
LEMMA NodeAdded ==
  ASSUME NEW D, DagOK(D), NEW nd, NodeShape(D, nd), NodeSound(D, nd)
  PROVE  LET E == Append(D, nd)
             n == Len(D) + 1
         IN  /\ DagOK(E) /\ Grows(D, E) /\ Len(E) = n /\ n \in 2 .. n
             /\ nd.type \in {"o", "u"} =>
                  Mean(E)[n] = UNION {Via(D, nd.children[k]) : k \in DOMAIN nd.children}
             /\ nd.type = "a" => Mean(E)[n] = Joined(Mean(D), nd.children)
<1> DEFINE E == Append(D, nd)
           n == Len(D) + 1
<1>1. D \in Seq(Shape) /\ Len(D) \in Nat /\ Len(D) >= 3 /\ nd \in Shape
  BY DagDrawn DEF DagOK, DagShape, NodeShape
<1>2. E \in Seq(Shape) /\ Len(E) = n /\ E[n] = nd /\ \A i \in 1 .. Len(D) : E[i] = D[i]
  BY <1>1
<1>3. \A i \in 1 .. Len(E) : i = n \/ i \in 1 .. Len(D)
  BY <1>1, <1>2
<1> HIDE DEF E
<1>4. \A e : Linked(D, e) => Linked(E, e)
  BY <1>1, <1>2 DEF Linked
<1>5. \A i \in 1 .. Len(E) : NodeShape(E, E[i])
  <2>1. \A i \in 1 .. Len(D) : NodeShape(E, D[i])
    BY <1>4 DEF DagOK, DagShape, NodeShape
  <2>2. NodeShape(E, nd)
    BY <1>4 DEF NodeShape
  <2> QED
    BY <1>2, <1>3, <2>1, <2>2
<1>6. ASSUME NEW i \in 1 .. Len(E), i # 1, NEW k \in DOMAIN E[i].children PROVE E[i].children[k].dst < i
  <2>1. CASE i = n
    <3>1. nd.children[k].dst \in 2 .. Len(D)
      BY <1>2, <1>6, <2>1 DEF NodeShape, Linked
    <3> QED
      BY <1>1, <1>2, <2>1, <3>1
  <2>2. CASE i \in 1 .. Len(D)
    BY <1>2, <1>6, <2>2 DEF DagOK, DagShape
  <2> QED
    BY <1>3, <2>1, <2>2
<1>7. DagShape(E)
  <2>1. Len(E) >= 3 /\ E[1] = D[1] /\ E[2] = D[2] /\ E[3] = D[3]
    BY <1>1, <1>2
  <2> QED
    BY <1>2, <1>5, <1>6, <2>1 DEF DagOK, DagShape
<1>8. Grows(D, E)
  <2>1. Len(D) <= Len(E) /\ \A i \in 2 .. Len(D) : E[i] = D[i]
    BY <1>1, <1>2
  <2> QED
    BY <1>7, <2>1 DEF Grows, DagOK
<1>9. \A i \in 1 .. Len(E) : NodeSound(E, E[i])
  <2>1. ASSUME NEW i \in 1 .. Len(D) PROVE NodeSound(E, D[i])
    <3>1. NodeSound(D, D[i]) /\ \A k \in DOMAIN D[i].children : D[i].children[k].dst \in 2 .. Len(D)
      BY DEF DagOK, DagShape, NodeShape, Linked
    <3> QED
      BY <1>8, <3>1, SoundKept
  <2>2. NodeSound(E, nd)
    <3>1. \A k \in DOMAIN nd.children : nd.children[k].dst \in 2 .. Len(D)
      BY DEF NodeShape, Linked
    <3> QED
      BY <1>8, <3>1, SoundKept
  <2> QED
    BY <1>2, <1>3, <2>1, <2>2
<1>10. \A k \in DOMAIN nd.children : /\ Via(E, nd.children[k]) = Via(D, nd.children[k])
                                     /\ Mean(E)[nd.children[k].dst] = Mean(D)[nd.children[k].dst]
  BY <1>8, ViaKept DEF NodeShape, Linked
<1>11. n \in 1 .. Len(E) /\ n \in 2 .. n
  BY <1>1, <1>2
<1>12. nd.type \in {"o", "u"} => Mean(E)[n] = UNION {Via(D, nd.children[k]) : k \in DOMAIN nd.children}
  <2>1. {Via(E, nd.children[k]) : k \in DOMAIN nd.children} = {Via(D, nd.children[k]) : k \in DOMAIN nd.children}
    BY <1>10
  <2>2. nd.type \in {"o", "u"} => Mean(E)[n] = UNION {Via(E, nd.children[k]) : k \in DOMAIN nd.children}
    BY <1>2, <1>7, <1>11, MeanOf
  <2> QED
    BY <2>1, <2>2
<1>13. nd.type = "a" => Mean(E)[n] = Joined(Mean(D), nd.children)
  <2>1. nd.type = "a" => Mean(E)[n] = Joined(Mean(E), nd.children)
    BY <1>2, <1>7, <1>11, MeanOf
  <2>2. Joined(Mean(E), nd.children) = Joined(Mean(D), nd.children)
    <3> DEFINE kids == nd.children
    <3>1. \A k \in DOMAIN kids : Mean(E)[kids[k].dst] = Mean(D)[kids[k].dst]
      BY <1>10
    <3> HIDE DEF kids
    <3>2. {Mean(E)[kids[k].dst] : k \in DOMAIN kids} = {Mean(D)[kids[k].dst] : k \in DOMAIN kids}
      BY <3>1
    <3>3. {f \in [DOMAIN kids -> UNION {Mean(E)[kids[k].dst] : k \in DOMAIN kids}] :
             \A k \in DOMAIN kids : f[k] \in Mean(E)[kids[k].dst]} =
          {f \in [DOMAIN kids -> UNION {Mean(D)[kids[k].dst] : k \in DOMAIN kids}] :
             \A k \in DOMAIN kids : f[k] \in Mean(D)[kids[k].dst]}
      BY <3>1, <3>2
    <3> QED
      BY <3>3 DEF Joined, kids
  <2> QED
    BY <2>1, <2>2
<1> QED
  BY <1>2, <1>7, <1>8, <1>9, <1>11, <1>12, <1>13 DEF DagOK, E

\* The root is given its edge.
LEMMA RootSet ==
  ASSUME NEW D, DagOK(D), NEW e, Linked(D, e), Clear(D, e)
  PROVE  LET E == [D EXCEPT ![1].children = <<e>>]
         IN  DagOK(E) /\ Grows(D, E) /\ Mean(E)[1] = Via(D, e)
<1> DEFINE E == [D EXCEPT ![1].children = <<e>>]
<1>1. D \in Seq(Shape) /\ Len(D) \in Nat /\ Len(D) >= 3 /\ D[1] \in Shape /\ D[1].type = "o"
      /\ DOMAIN D = 1 .. Len(D)
  BY DagDrawn DEF DagOK, DagShape
<1> DEFINE nd == [D[1] EXCEPT !.children = <<e>>]
<1>2. e \in Edges /\ <<e>> \in Seq(Edges)
  BY DEF Linked
<1>3. nd \in Shape /\ nd.type = "o" /\ nd.children = <<e>>
  BY <1>1, <1>2 DEF Shape
<1>4. E = [D EXCEPT ![1] = nd]
  BY <1>1
<1> HIDE DEF nd, E
<1>5. E \in Seq(Shape) /\ Len(E) = Len(D) /\ E[1] = nd /\ \A i \in 2 .. Len(D) : E[i] = D[i]
  BY <1>1, <1>3, <1>4
<1>6. DOMAIN nd.children = {1} /\ nd.children[1] = e
  BY <1>3
<1>7. \A i \in 1 .. Len(E) : i = 1 \/ i \in 2 .. Len(D)
  BY <1>1, <1>5
<1>8. \A x : Linked(D, x) => Linked(E, x)
  BY <1>5 DEF Linked
<1>9. \A i \in 1 .. Len(E) : NodeShape(E, E[i])
  <2>1. NodeShape(E, nd)
    BY <1>3, <1>6, <1>8 DEF NodeShape
  <2>2. \A i \in 2 .. Len(D) : NodeShape(E, D[i])
    <3>1. \A i \in 2 .. Len(D) : i \in 1 .. Len(D)
      BY <1>1
    <3> QED
      BY <1>8, <3>1 DEF DagOK, DagShape, NodeShape
  <2> QED
    BY <1>5, <1>7, <2>1, <2>2
<1>10. \A i \in 1 .. Len(E) : i # 1 => \A k \in DOMAIN E[i].children : E[i].children[k].dst < i
  <2>1. \A i \in 2 .. Len(D) : i \in 1 .. Len(D) /\ i # 1
    BY <1>1
  <2> QED
    BY <1>5, <1>7, <2>1 DEF DagOK, DagShape
<1>11. DagShape(E)
  <2>1. E[2] = D[2] /\ E[3] = D[3] /\ E[1].type = "o" /\ Len(E) >= 3
    BY <1>1, <1>3, <1>5
  <2> QED
    BY <1>5, <1>9, <1>10, <2>1 DEF DagOK, DagShape
<1>12. Grows(D, E)
  BY <1>1, <1>5, <1>11 DEF Grows, DagOK
<1>13. Via(E, e) = Via(D, e) /\ Mean(E)[e.dst] = Mean(D)[e.dst]
  BY <1>12, ViaKept DEF Linked
<1>14. \A i \in 1 .. Len(E) : NodeSound(E, E[i])
  <2>1. NodeSound(E, nd)
    <3>1. Clear(E, e)
      BY <1>13 DEF Clear
    <3>2. Split(E, nd)
      BY <1>6 DEF Split
    <3> QED
      BY <1>6, <3>1, <3>2 DEF NodeSound
  <2>2. ASSUME NEW i \in 2 .. Len(D) PROVE NodeSound(E, D[i])
    <3>1. i \in 1 .. Len(D)
      BY <1>1
    <3>2. NodeSound(D, D[i]) /\ \A k \in DOMAIN D[i].children : D[i].children[k].dst \in 2 .. Len(D)
      BY <3>1 DEF DagOK, DagShape, NodeShape, Linked
    <3> QED
      BY <1>12, <3>2, SoundKept
  <2> QED
    BY <1>5, <1>7, <2>1, <2>2
<1>15. Mean(E)[1] = Via(D, e)
  <2>1. 1 \in 1 .. Len(E) /\ E[1].type = "o" /\ DOMAIN E[1].children = {1} /\ E[1].children[1] = e
    BY <1>1, <1>3, <1>5, <1>6
  <2>2. Mean(E)[1] = UNION {Via(E, E[1].children[k]) : k \in DOMAIN E[1].children}
    BY <1>11, <2>1, MeanOf
  <2> QED
    BY <1>13, <2>1, <2>2
<1> QED
  BY <1>11, <1>12, <1>14, <1>15 DEF DagOK, E

-----------------------------------------------------------------------------
(* What nodes and edges promise *)

\* The node n of D is an upper bound of the assignments S of V; if x, it is S.
Represents(D, n, V, S, x) ==
  /\ n \in 2 .. Len(D)
  /\ Mean(D)[n] \subseteq Over(V) /\ S \subseteq Mean(D)[n] /\ (x => Mean(D)[n] \subseteq S)
Leads(D, e, V, S, x) ==
  /\ Linked(D, e) /\ Clear(D, e)
  /\ Via(D, e) \subseteq Over(V) /\ S \subseteq Via(D, e) /\ (x => Via(D, e) \subseteq S)

\* Promises are kept when the circuit grows.
LEMMA PromisesKept ==
  ASSUME NEW D, NEW E, Grows(D, E), NEW V, NEW S, NEW x
  PROVE  /\ \A n : Represents(D, n, V, S, x) => Represents(E, n, V, S, x)
         /\ \A e : Leads(D, e, V, S, x) => Leads(E, e, V, S, x)
<1>1. Len(D) \in Nat /\ Len(E) \in Nat /\ Len(D) <= Len(E)
  BY DagDrawn DEF Grows
<1>2. \A n \in 2 .. Len(D) : n \in 2 .. Len(E) /\ Mean(E)[n] = Mean(D)[n]
  BY <1>1, MeaningKept
<1>3. ASSUME NEW e, Leads(D, e, V, S, x) PROVE Leads(E, e, V, S, x)
  <2>1. Linked(D, e) /\ e.dst \in 2 .. Len(D)
    BY <1>3 DEF Leads, Linked
  <2>2. Via(E, e) = Via(D, e) /\ Mean(E)[e.dst] = Mean(D)[e.dst]
    BY <2>1, ViaKept
  <2>3. Linked(E, e)
    BY <1>2, <2>1 DEF Linked
  <2> QED
    BY <1>3, <2>2, <2>3 DEF Leads, Clear
<1> QED
  BY <1>2, <1>3 DEF Represents

\* Two assignments of different variables.
LEMMA OverJoin ==
  ASSUME NEW X \in SUBSET FormulaVars, NEW Y \in SUBSET FormulaVars, X \cap Y = {},
         NEW a \in Over(X), NEW b \in Over(Y)
  PROVE  /\ a \cup b \in Over(X \cup Y) /\ a \subseteq Lits(X) /\ b \subseteq Lits(Y)
         /\ (a \cup b) \cap Lits(X) = a /\ (a \cup b) \cap Lits(Y) = b
<1>1. \A l : (l \in Lits(X) <=> l \in AllLits /\ Var(l) \in X) /\ (l \in Lits(Y) <=> l \in AllLits /\ Var(l) \in Y)
             /\ (l \in Lits(X \cup Y) <=> l \in AllLits /\ Var(l) \in X \cup Y)
  BY LitsFacts
<1>2. /\ a \subseteq Lits(X) /\ \A l \in Lits(X) : l \in a <=> -l \notin a
      /\ b \subseteq Lits(Y) /\ \A l \in Lits(Y) : l \in b <=> -l \notin b
  BY OverFacts
<1>3. \A l \in AllLits : -l \in AllLits /\ Var(-l) = Var(l)
  BY LitFacts
<1>4. \A l : l \in Lits(X) => l \notin Lits(Y)
  BY <1>1
<1>5. a \cup b \in SUBSET Lits(X \cup Y)
  BY <1>1, <1>2
<1>6. \A l \in Lits(X \cup Y) : l \in a \cup b <=> -l \notin a \cup b
  <2> SUFFICES ASSUME NEW l \in Lits(X \cup Y) PROVE l \in a \cup b <=> -l \notin a \cup b
    OBVIOUS
  <2>1. l \in AllLits /\ -l \in AllLits /\ Var(-l) = Var(l) /\ (Var(l) \in X \/ Var(l) \in Y)
    BY <1>1, <1>3
  <2>2. CASE Var(l) \in X
    <3>1. l \in Lits(X) /\ -l \in Lits(X) /\ l \notin Lits(Y) /\ -l \notin Lits(Y)
      BY <1>1, <1>4, <2>1, <2>2
    <3> QED
      BY <1>2, <3>1
  <2>3. CASE Var(l) \in Y
    <3>1. l \in Lits(Y) /\ -l \in Lits(Y) /\ l \notin Lits(X) /\ -l \notin Lits(X)
      BY <1>1, <1>4, <2>1, <2>3
    <3> QED
      BY <1>2, <3>1
  <2> QED
    BY <2>1, <2>2, <2>3
<1>7. a \cup b \in Over(X \cup Y)
  BY <1>5, <1>6, OverFacts
<1>8. (a \cup b) \cap Lits(X) = a /\ (a \cup b) \cap Lits(Y) = b
  BY <1>2, <1>4
<1> QED
  BY <1>2, <1>7, <1>8

\* The parts ps of the variables, and an assignment of each.
Parts(ps) ==
  /\ ps \in Seq(SUBSET FormulaVars)
  /\ \A j, k \in DOMAIN ps : j # k => ps[j] \cap ps[k] = {}
OverParts(ps) == {g \in [DOMAIN ps -> SUBSET AllLits] : \A k \in DOMAIN ps : g[k] \in Over(ps[k])}

\* The assignments of the parts join to one of all their variables.
LEMMA PartsJoin ==
  ASSUME NEW ps, Parts(ps), NEW g \in OverParts(ps)
  PROVE  /\ UNION Range(g) \in Over(UNION Range(ps)) /\ UNION Range(ps) \in SUBSET FormulaVars
         /\ \A k \in DOMAIN ps : (UNION Range(g)) \cap Lits(ps[k]) = g[k]
<1> DEFINE P == UNION Range(ps)
           m == UNION Range(g)
<1>1. \A k \in DOMAIN ps : ps[k] \in SUBSET FormulaVars
  BY DEF Parts
<1>2. /\ DOMAIN g = DOMAIN ps
      /\ \A v : v \in P <=> \E k \in DOMAIN ps : v \in ps[k]
      /\ \A l : l \in m <=> \E k \in DOMAIN ps : l \in g[k]
  BY DEF OverParts, Range
<1>3. P \in SUBSET FormulaVars
  BY <1>1, <1>2
<1> HIDE DEF P, m
<1>4. \A k \in DOMAIN ps : g[k] \subseteq Lits(ps[k]) /\ \A l \in Lits(ps[k]) : l \in g[k] <=> -l \notin g[k]
  BY <1>1, OverFacts DEF OverParts
<1>5. \A k \in DOMAIN ps : \A l : l \in Lits(ps[k]) <=> l \in AllLits /\ Var(l) \in ps[k]
  BY <1>1, LitsFacts
<1>6. \A l : l \in Lits(P) <=> l \in AllLits /\ Var(l) \in P
  BY <1>3, LitsFacts
<1>7. ASSUME NEW k \in DOMAIN ps, NEW l \in Lits(ps[k]) PROVE l \in m <=> l \in g[k]
  <2> SUFFICES ASSUME NEW j \in DOMAIN ps, l \in g[j] PROVE l \in g[k]
    BY <1>2
  <2>1. Var(l) \in ps[j] /\ Var(l) \in ps[k]
    BY <1>4, <1>5
  <2>2. j = k
    BY <2>1 DEF Parts
  <2> QED
    BY <2>2
<1>8. m \in SUBSET Lits(P)
  <2> SUFFICES ASSUME NEW l \in m PROVE l \in Lits(P)
    OBVIOUS
  <2>1. PICK k \in DOMAIN ps : l \in g[k]
    BY <1>2
  <2>2. l \in AllLits /\ Var(l) \in ps[k]
    BY <1>4, <1>5, <2>1
  <2> QED
    BY <1>2, <1>6, <2>2
<1>9. ASSUME NEW l \in Lits(P) PROVE l \in m <=> -l \notin m
  <2>1. l \in AllLits /\ Var(l) \in P /\ -l \in AllLits /\ Var(-l) = Var(l)
    BY <1>6, LitFacts
  <2>2. PICK k \in DOMAIN ps : Var(l) \in ps[k]
    BY <1>2, <2>1
  <2>3. l \in Lits(ps[k]) /\ -l \in Lits(ps[k])
    BY <1>5, <2>1, <2>2
  <2> QED
    BY <1>4, <1>7, <2>3
<1>10. m \in Over(P)
  BY <1>3, <1>8, <1>9, OverFacts
<1>11. \A k \in DOMAIN ps : m \cap Lits(ps[k]) = g[k]
  BY <1>4, <1>7
<1> QED
  BY <1>3, <1>10, <1>11 DEF P, m

\* A model assigns every part.
PartsOf(M, ps) == [k \in DOMAIN ps |-> M \cap Lits(ps[k])]

\* Joining them gives back what the model says of the parts.
LEMMA ModelParts ==
  ASSUME NEW F, NEW A, NEW M \in ModelsOf(F, A), NEW ps, Parts(ps)
  PROVE  PartsOf(M, ps) \in OverParts(ps) /\ UNION Range(PartsOf(M, ps)) = M \cap Lits(UNION Range(ps))
<1> DEFINE g == [k \in DOMAIN ps |-> M \cap Lits(ps[k])]
           P == UNION Range(ps)
<1>1. \A k \in DOMAIN ps : ps[k] \in SUBSET FormulaVars
  BY DEF Parts
<1>2. \A k \in DOMAIN ps : g[k] \in Over(ps[k]) /\ g[k] \in SUBSET AllLits
  BY <1>1, ModelCut, ModelIs
<1>3. g \in OverParts(ps)
  BY <1>2 DEF OverParts
<1>4. \A l : l \in UNION Range(g) <=> \E k \in DOMAIN ps : l \in M /\ l \in Lits(ps[k])
  BY DEF Range
<1>5. \A v : v \in P <=> \E k \in DOMAIN ps : v \in ps[k]
  BY DEF Range
<1>6. P \in SUBSET FormulaVars
  BY <1>1, <1>5
<1> HIDE DEF P, g
<1>7. \A l : l \in Lits(P) <=> \E k \in DOMAIN ps : l \in Lits(ps[k])
  <2>1. \A l : l \in Lits(P) <=> l \in AllLits /\ Var(l) \in P
    BY <1>6, LitsFacts
  <2>2. \A k \in DOMAIN ps : \A l : l \in Lits(ps[k]) <=> l \in AllLits /\ Var(l) \in ps[k]
    BY <1>1, LitsFacts
  <2> QED
    BY <1>5, <2>1, <2>2
<1>8. UNION Range(g) = M \cap Lits(P)
  BY <1>4, <1>7
<1> QED
  BY <1>3, <1>8 DEF P, g, PartsOf

\* Units that hold in a model are an assignment of their variables.
LEMMA UnitsOver ==
  ASSUME NEW F, NEW A \in SUBSET AllLits, NEW M \in ModelsOf(F, A), NEW U \in SUBSET A
  PROVE  /\ VarsOf(U) \in SUBSET FormulaVars /\ U \in Over(VarsOf(U))
         /\ M \cap Lits(VarsOf(U)) = U
<1>1. /\ M \in SUBSET AllLits /\ \A l \in AllLits : l \in M <=> -l \notin M
      /\ A \subseteq M
  BY ModelIs
<1>2. VarsOf(U) \in SUBSET FormulaVars /\ \A v : v \in VarsOf(U) <=> \E l \in U : Var(l) = v
  <2>1. VarsOf(U) \in SUBSET FormulaVars
    BY DEF VarsOf
  <2> QED
    BY <2>1, LitsFacts
<1>3. \A l : l \in Lits(VarsOf(U)) <=> l \in AllLits /\ Var(l) \in VarsOf(U)
  BY <1>2, LitsFacts
<1>4. \A l \in U : l \in M /\ l \in Lits(VarsOf(U))
  BY <1>1, <1>2, <1>3
<1>5. ASSUME NEW l \in M, l \in Lits(VarsOf(U)) PROVE l \in U
  <2>1. PICK k \in U : Var(k) = Var(l)
    BY <1>2, <1>3, <1>5
  <2>2. k \in AllLits /\ l \in AllLits /\ k \in M
    BY <1>1
  <2>3. l = k \/ l = -k
    BY <2>1, <2>2, LitFacts
  <2> QED
    BY <1>1, <2>2, <2>3
<1>6. M \cap Lits(VarsOf(U)) = U
  BY <1>4, <1>5
<1> QED
  BY <1>2, <1>6, ModelCut

-----------------------------------------------------------------------------
(* The nodes that compile_ and compileDecisionNode add *)

Chosen(D, kids) ==
  {g \in [DOMAIN kids -> SUBSET Int] : \A k \in DOMAIN kids : g[k] \in Mean(D)[kids[k]]}
Product(D, kids) == {UNION Range(g) : g \in Chosen(D, kids)}

\* The result of compile_ and the circuit with it, as in Leave.
Conjunction(kids) == Node("a", [k \in DOMAIN kids |-> Edge(kids[k], {}, <<>>)])
ResultOf(D, kids) == CASE kids = <<>> -> TRUENODE
                     [] Len(kids) = 1 -> kids[1]
                     [] OTHER -> Len(D) + 1
Grown(D, kids) == IF Len(kids) > 1 THEN Append(D, Conjunction(kids)) ELSE D

\* The kids are nodes over the parts of the variables.
Kids(D, kids, ps) ==
  /\ Parts(ps) /\ kids \in Seq(2 .. Len(D)) /\ Len(kids) = Len(ps)
  /\ \A k \in DOMAIN kids : Mean(D)[kids[k]] \subseteq Over(ps[k])

\* What the choices of one set of every kid are.
LEMMA KidsFacts ==
  ASSUME NEW D, DagOK(D), NEW kids, NEW ps, Kids(D, kids, ps)
  PROVE  /\ Len(kids) \in Nat /\ DOMAIN kids = 1 .. Len(kids) /\ DOMAIN ps = DOMAIN kids
         /\ \A k \in DOMAIN kids : /\ kids[k] \in 2 .. Len(D) /\ ps[k] \in SUBSET FormulaVars
                                   /\ \A m \in Mean(D)[kids[k]] : m \in Over(ps[k]) /\ m \subseteq Lits(ps[k])
                                        /\ m \in SUBSET AllLits /\ m \subseteq Int \ {0}
         /\ \A g : g \in Chosen(D, kids) <=>
              g \in OverParts(ps) /\ \A k \in DOMAIN kids : g[k] \in Mean(D)[kids[k]]
<1>1. /\ Len(kids) \in Nat /\ DOMAIN kids = 1 .. Len(kids) /\ DOMAIN ps = DOMAIN kids
      /\ \A k \in DOMAIN kids : kids[k] \in 2 .. Len(D) /\ ps[k] \in SUBSET FormulaVars
  BY DEF Kids, Parts
<1>2. ASSUME NEW k \in DOMAIN kids, NEW m \in Mean(D)[kids[k]]
      PROVE  m \in Over(ps[k]) /\ m \subseteq Lits(ps[k]) /\ m \in SUBSET AllLits /\ m \subseteq Int \ {0}
  <2>1. m \in Over(ps[k])
    BY DEF Kids
  <2>2. m \subseteq Lits(ps[k])
    BY <1>1, <2>1, OverFacts
  <2>3. m \in SUBSET AllLits
    BY <1>1, <2>2, LitsFacts
  <2> QED
    BY <2>1, <2>2, <2>3, LitFacts
<1>3. ASSUME NEW g PROVE g \in Chosen(D, kids) <=>
              g \in OverParts(ps) /\ \A k \in DOMAIN kids : g[k] \in Mean(D)[kids[k]]
  <2>1. ASSUME g \in Chosen(D, kids) PROVE g \in OverParts(ps) /\ \A k \in DOMAIN kids : g[k] \in Mean(D)[kids[k]]
    BY <1>1, <1>2, <2>1 DEF Chosen, OverParts
  <2>2. ASSUME g \in OverParts(ps), \A k \in DOMAIN kids : g[k] \in Mean(D)[kids[k]] PROVE g \in Chosen(D, kids)
    <3>1. g \in [DOMAIN kids -> SUBSET AllLits] /\ AllLits \subseteq Int
      BY <1>1, <2>2, LitFacts DEF OverParts
    <3> QED
      BY <2>2, <3>1 DEF Chosen
  <2> QED
    BY <2>1, <2>2
<1> QED
  BY <1>1, <1>2, <1>3

\* Or there is no kid, or one, or a conjunction of several: the result is their product.
LEMMA ResultFacts ==
  ASSUME NEW D, DagOK(D), NEW kids, NEW ps, Kids(D, kids, ps)
  PROVE  LET E == Grown(D, kids)
         IN  /\ DagOK(E) /\ Grows(D, E) /\ ResultOf(D, kids) \in 2 .. Len(E)
             /\ Mean(E)[ResultOf(D, kids)] = Product(D, kids)
<1> DEFINE E == Grown(D, kids)
           n == Len(kids)
<1>1. /\ n \in Nat /\ DOMAIN kids = 1 .. n /\ DOMAIN ps = DOMAIN kids
      /\ \A k \in DOMAIN kids : kids[k] \in 2 .. Len(D)
  BY KidsFacts
<1>2. Len(D) \in Nat /\ Len(D) >= 3 /\ DagShape(D) /\ Grows(D, D)
  BY DagDrawn DEF DagOK, DagShape, Grows
<1>3. CASE n = 0
  <2>1. kids = <<>> /\ Grown(D, kids) = D /\ ResultOf(D, kids) = 2
    BY <1>1, <1>3 DEF Grown, ResultOf, TRUENODE, Kids
  <2>2. Product(D, kids) = {{}}
    <3>1. \A g \in Chosen(D, kids) : UNION Range(g) = {}
      BY <2>1 DEF Chosen, Range
    <3>2. <<>> \in Chosen(D, kids)
      BY <2>1 DEF Chosen
    <3> QED
      BY <3>1, <3>2 DEF Product
  <2>3. Mean(D)[2] = {{}} /\ 2 \in 2 .. Len(D)
    BY <1>2, MeanOf
  <2> QED
    BY <1>2, <2>1, <2>2, <2>3
<1>4. CASE n = 1
  <2>0. kids # <<>> /\ DOMAIN kids = {1} /\ kids[1] \in 2 .. Len(D)
    BY <1>1, <1>4
  <2>1. kids # <<>> /\ Grown(D, kids) = D /\ ResultOf(D, kids) = kids[1] /\ DOMAIN kids = {1} /\ kids[1] \in 2 .. Len(D)
    BY <1>4, <2>0 DEF Grown, ResultOf
  <2>2. ASSUME NEW m \in Product(D, kids) PROVE m \in Mean(D)[kids[1]]
    <3>1. PICK g \in Chosen(D, kids) : m = UNION Range(g)
      BY DEF Product
    <3>2. g[1] \in Mean(D)[kids[1]] /\ DOMAIN g = {1}
      BY <2>1 DEF Chosen
    <3>3. Range(g) = {g[1]}
      BY <3>2 DEF Range
    <3>4. m = g[1]
      BY <3>1, <3>3
    <3> QED
      BY <3>2, <3>4
  <2>3. ASSUME NEW m \in Mean(D)[kids[1]] PROVE m \in Product(D, kids)
    <3> DEFINE g == [k \in {1} |-> m]
    <3>1. m \in SUBSET Int
      BY <2>1, KidsFacts
    <3>2. g \in Chosen(D, kids)
      BY <2>1, <3>1 DEF Chosen
    <3>3. Range(g) = {m}
      BY DEF Range
    <3>4. UNION Range(g) = m
      BY <3>3
    <3> QED
      BY <3>2, <3>4 DEF Product
  <2>4. Mean(D)[kids[1]] = Product(D, kids)
    BY <2>2, <2>3
  <2> QED
    BY <1>2, <2>1, <2>4
<1>5. CASE n > 1
  <2> DEFINE es == [k \in DOMAIN kids |-> Edge(kids[k], {}, <<>>)]
             nd == Conjunction(kids)
  <2>1. kids # <<>> /\ E = Append(D, nd) /\ ResultOf(D, kids) = Len(D) + 1
    BY <1>1, <1>5 DEF Grown, ResultOf
  <2>2. nd.type = "a" /\ nd.children = es
    BY DEF Conjunction, Node
  <2>3. DOMAIN es = DOMAIN kids /\ \A k \in DOMAIN kids : es[k] = [dst |-> kids[k], units |-> {}, free |-> <<>>]
    BY DEF Edge
  <2>4. es \in Seq(Edges)
    <3>1. \A k \in 1 .. n : es[k] \in Edges
      <4> SUFFICES ASSUME NEW k \in DOMAIN kids PROVE [dst |-> kids[k], units |-> {}, free |-> <<>>] \in Edges
        BY <1>1, <2>3
      <4>1. kids[k] \in Nat
        BY <1>1, <1>2
      <4>2. <<>> \in Seq(Nat \ {0}) /\ {} \in SUBSET (Int \ {0})
        OBVIOUS
      <4> QED
        BY <4>1, <4>2 DEF Edges
    <3>2. es = [k \in 1 .. n |-> es[k]]
      BY <1>1
    <3> HIDE DEF es
    <3> QED
      BY <1>1, <3>1, <3>2
  <2>5. nd \in Shape
    BY <2>4 DEF Conjunction, Node, Shape
  <2> HIDE DEF es, nd
  <2>6. \A k \in DOMAIN kids : es[k].dst = kids[k] /\ es[k].units = {} /\ es[k].free = <<>>
    BY <2>3
  <2>7. Range(<<>>) = {} /\ IsInjective(<<>>)
    BY DEF Range, IsInjective
  <2>8. \A k \in DOMAIN kids : Linked(D, es[k])
    <3> SUFFICES ASSUME NEW k \in DOMAIN kids PROVE Linked(D, es[k])
      OBVIOUS
    <3>1. es[k] \in Edges
      BY <2>3, <2>4
    <3>2. es[k].dst \in 2 .. Len(D)
      BY <1>1, <2>6
    <3>3. IsInjective(es[k].free) /\ Apart(es[k].units, Range(es[k].free))
      BY <2>6, <2>7 DEF Apart
    <3> QED
      BY <3>1, <3>2, <3>3 DEF Linked
  <2>9. NodeShape(D, nd)
    BY <2>2, <2>3, <2>5, <2>6, <2>8 DEF NodeShape
  <2>10. \A k \in DOMAIN kids : Clear(D, es[k])
    <3> SUFFICES ASSUME NEW k \in DOMAIN kids, NEW m \in Mean(D)[kids[k]]
                 PROVE  m \subseteq Int \ {0} /\ Apart(m, es[k].units \cup Range(es[k].free))
      BY <2>6 DEF Clear
    <3>1. es[k].units \cup Range(es[k].free) = {}
      BY <2>6, <2>7
    <3> QED
      BY <3>1, KidsFacts DEF Apart
  <2>11. \A j, k \in DOMAIN kids : j # k => \A x \in Mean(D)[kids[j]], y \in Mean(D)[kids[k]] : Apart(x, y)
    <3> SUFFICES ASSUME NEW j \in DOMAIN kids, NEW k \in DOMAIN kids, j # k,
                        NEW x \in Mean(D)[kids[j]], NEW y \in Mean(D)[kids[k]], NEW l \in x
                 PROVE  l \notin y /\ -l \notin y
      BY DEF Apart
    <3>1. x \subseteq Lits(ps[j]) /\ y \subseteq Lits(ps[k]) /\ ps[j] \in SUBSET FormulaVars /\ ps[k] \in SUBSET FormulaVars
      BY KidsFacts
    <3>2. l \in AllLits /\ Var(l) \in ps[j] /\ Var(-l) = Var(l)
      BY <3>1, LitsFacts, LitFacts
    <3>3. \A i \in y : Var(i) \in ps[k]
      BY <3>1, LitsFacts
    <3>4. ps[j] \cap ps[k] = {}
      BY <1>1 DEF Kids, Parts
    <3> QED
      BY <3>2, <3>3, <3>4
  <2>12. Split(D, nd)
    BY <2>2, <2>3, <2>6, <2>11 DEF Split
  <2>13. NodeSound(D, nd)
    BY <2>2, <2>3, <2>10, <2>12 DEF NodeSound
  <2>14. /\ DagOK(E) /\ Grows(D, E) /\ Len(E) = Len(D) + 1 /\ Len(D) + 1 \in 2 .. Len(E)
         /\ Mean(E)[Len(D) + 1] = Joined(Mean(D), es)
    BY <2>1, <2>2, <2>9, <2>13, NodeAdded
  <2>15. Joined(Mean(D), es) = Product(D, kids)
    <3> DEFINE X == UNION {Mean(D)[es[k].dst] : k \in DOMAIN es}
               fs == {f \in [DOMAIN es -> X] : \A k \in DOMAIN es : f[k] \in Mean(D)[es[k].dst]}
    <3>0. Joined(Mean(D), es) = {UNION Range(f) : f \in fs}
      BY DEF Joined
    <3>3. \A f : f \in fs <=> f \in [DOMAIN es -> X] /\ \A k \in DOMAIN es : f[k] \in Mean(D)[es[k].dst]
      OBVIOUS
    <3> HIDE DEF fs
    <3>1. ASSUME NEW f \in fs PROVE f \in Chosen(D, kids)
      <4>1. f \in [DOMAIN kids -> X] /\ \A k \in DOMAIN kids : f[k] \in Mean(D)[kids[k]]
        <5> HIDE DEF X
        <5> QED
          BY <2>3, <2>6, <3>3
      <4>2. \A k \in DOMAIN kids : f[k] \in SUBSET Int
        BY <4>1, KidsFacts
      <4> HIDE DEF X
      <4>3. f \in [DOMAIN kids -> SUBSET Int]
        BY <4>1, <4>2
      <4> QED
        BY <4>1, <4>3 DEF Chosen
    <3>2. \A f : f \in Chosen(D, kids) => f \in fs
      <4> SUFFICES ASSUME NEW f \in Chosen(D, kids) PROVE f \in fs
        OBVIOUS
      <4>1. DOMAIN f = DOMAIN es /\ f = [k \in DOMAIN es |-> f[k]] /\ \A k \in DOMAIN es : f[k] \in Mean(D)[es[k].dst]
        BY <2>3, <2>6 DEF Chosen
      <4>2. \A k \in DOMAIN es : f[k] \in X
        BY <4>1
      <4> HIDE DEF X
      <4>3. f \in [DOMAIN es -> X]
        BY <4>1, <4>2
      <4> QED
        BY <3>3, <4>1, <4>3
    <3>4. fs = Chosen(D, kids)
      BY <3>1, <3>2
    <3> QED
      BY <3>0, <3>4 DEF Product
  <2> QED
    BY <2>1, <2>14, <2>15
<1> QED
  BY <1>1, <1>3, <1>4, <1>5

-----------------------------------------------------------------------------
(* The models of a call, part by part *)

\* Each clause about V that A leaves lies in one part, or holds whatever a free variable is.
Covered(F, A, V, R, ps) ==
  \A c \in Residual(F, A) :
    \/ VarsOf(c) \cap V = {}
    \/ \E j \in DOMAIN ps : VarsOf(c) \subseteq ps[j]
    \/ \E v \in R : v \in c /\ -v \in c

\* The variables V of the call f are those of its units, its free ones and the parts ps,
\* which are independent.
Parted(F, f, V, ps, x) ==
  /\ Parts(ps)
  /\ V \in SUBSET FormulaVars
  /\ f.path \in SUBSET AllLits /\ f.units \subseteq f.path /\ ModelsOf(F, f.path) # {}
  /\ f.free \in Seq(FormulaVars) /\ IsInjective(f.free)
  /\ \A j \in DOMAIN ps : Separated(F, f.path, ps[j]) /\ Range(f.free) \cap ps[j] = {}
  /\ Range(f.free) \cap VarsOf(f.path) = {}
  /\ V = VarsOf(f.units) \cup Range(f.free) \cup UNION Range(ps)
  /\ x => Covered(F, f.path, V, Range(f.free), ps)

\* A sequence is one over the set its elements are in.
LEMMA SeqOver ==
  ASSUME NEW S, NEW T, NEW c \in Seq(T), \A k \in DOMAIN c : c[k] \in S
  PROVE  c \in Seq(S)
OBVIOUS

\* The units, the free variables and the parts of a call share no variable.
LEMMA PartedFacts ==
  ASSUME NEW F, NEW f, NEW V, NEW ps, NEW x, Parted(F, f, V, ps, x)
  PROVE  LET R == Range(f.free)
             P == UNION Range(ps)
             W == VarsOf(f.units)
         IN  /\ R \in SUBSET FormulaVars /\ P \in SUBSET FormulaVars /\ W \in SUBSET FormulaVars
             /\ V = W \cup (R \cup P) /\ W \cap (R \cup P) = {} /\ R \cap P = {}
             /\ (R \cup P) \cap VarsOf(f.path) = {} /\ W \subseteq VarsOf(f.path)
             /\ f.units \in SUBSET AllLits
<1> DEFINE R == Range(f.free)
           P == UNION Range(ps)
           W == VarsOf(f.units)
<1>1. R \in SUBSET FormulaVars
  BY DEF Parted, Range
<1>2. \A v : v \in P <=> \E k \in DOMAIN ps : v \in ps[k]
  BY DEF Range
<1>3. P \in SUBSET FormulaVars
  BY <1>2 DEF Parted, Parts
<1>4. W \in SUBSET FormulaVars /\ W \subseteq VarsOf(f.path)
  BY DEF Parted, VarsOf
<1>5. P \cap VarsOf(f.path) = {} /\ R \cap P = {}
  BY <1>2 DEF Parted, Separated
<1>6. R \cap VarsOf(f.path) = {} /\ V = W \cup R \cup P /\ f.units \in SUBSET AllLits
  BY DEF Parted
<1> HIDE DEF R, P, W
<1>7. V = W \cup (R \cup P) /\ W \cap (R \cup P) = {} /\ (R \cup P) \cap VarsOf(f.path) = {}
  BY <1>4, <1>5, <1>6
<1> QED
  BY <1>1, <1>3, <1>4, <1>5, <1>6, <1>7 DEF R, P, W

\* A model of the call restricted to V: its units, and what it says of the others.
LEMMA ShadowSplit ==
  ASSUME NEW F, NEW f, NEW V, NEW ps, NEW x, Parted(F, f, V, ps, x), NEW M \in ModelsOf(F, f.path)
  PROVE  M \cap Lits(V) = f.units \cup (M \cap Lits(Range(f.free))) \cup (M \cap Lits(UNION Range(ps)))
<1> DEFINE R == Range(f.free)
           P == UNION Range(ps)
           W == VarsOf(f.units)
<1>1. /\ R \in SUBSET FormulaVars /\ P \in SUBSET FormulaVars /\ W \in SUBSET FormulaVars
      /\ V = W \cup (R \cup P)
  BY PartedFacts
<1>2. M \cap Lits(W) = f.units
  BY SMTT(30), UnitsOver DEF Parted
<1> HIDE DEF R, P, W
<1>3. Lits(V) = Lits(W) \cup Lits(R) \cup Lits(P)
  BY <1>1 DEF Lits
<1>4. M \cap Lits(V) = (M \cap Lits(W)) \cup (M \cap Lits(R)) \cup (M \cap Lits(P))
  BY <1>3
<1> QED
  BY <1>2, <1>4 DEF R, P

\* If every part holds what its models say, any choice of the free variables and of the
\* parts is what some model says.
LEMMA PartsAreModels ==
  ASSUME NEW F \in SUBSET SUBSET AllLits, NEW f, NEW V, NEW ps, Parted(F, f, V, ps, TRUE),
         NEW h \in Over(Range(f.free)), NEW g \in OverParts(ps),
         \A k \in DOMAIN ps : g[k] \in Shadow(F, f.path, ps[k])
  PROVE  f.units \cup h \cup UNION Range(g) \in Shadow(F, f.path, V)
<1> DEFINE R == Range(f.free)
           P == UNION Range(ps)
           W == VarsOf(f.units)
           y == UNION Range(g)
           m == h \cup y
           A == f.path
<1>1. /\ R \in SUBSET FormulaVars /\ P \in SUBSET FormulaVars /\ W \in SUBSET FormulaVars
      /\ V = W \cup (R \cup P) /\ W \cap (R \cup P) = {} /\ R \cap P = {}
      /\ (R \cup P) \cap VarsOf(A) = {}
  BY ZenonT(40), PartedFacts
<1>2. y \in Over(P) /\ \A k \in DOMAIN ps : y \cap Lits(ps[k]) = g[k]
  <2>1. Parts(ps) /\ g \in OverParts(ps)
    BY DEF Parted
  <2> QED
    BY ONLY <2>1, PartsJoin
<1>3. A \in SUBSET AllLits /\ f.units \subseteq A /\ ModelsOf(F, A) # {} /\ Covered(F, A, V, R, ps)
      /\ \A k \in DOMAIN ps : ps[k] \in SUBSET FormulaVars
  BY DEF Parted, Parts
<1>4. h \in Over(R) /\ \A k \in DOMAIN ps : g[k] \subseteq y
  BY <1>2
<1>5. PICK N : N \in ModelsOf(F, A)
  BY <1>3
<1> HIDE DEF R, P, W, y, A
<1>6. m \in Over(R \cup P)
  BY <1>1, <1>2, <1>4, OverJoin
<1>7. ASSUME NEW c \in Residual(F, A), VarsOf(c) \cap (R \cup P) # {} PROVE c \cap m # {}
  <2>0. F \in SUBSET SUBSET AllLits /\ A \in SUBSET AllLits /\ c \in Residual(F, A)
    BY <1>3, <1>7
  <2>1. c \in SUBSET AllLits
    BY ONLY <2>0, ResidualFacts
  <2>2. CASE \E j \in DOMAIN ps : VarsOf(c) \subseteq ps[j]
    <3>1. PICK j \in DOMAIN ps : VarsOf(c) \subseteq ps[j]
      BY <2>2
    <3>2. PICK M \in ModelsOf(F, A) : g[j] = M \cap Lits(ps[j])
      <4>1. g[j] \in Shadow(F, A, ps[j])
        BY <3>1 DEF A
      <4> QED
        BY <4>1 DEF Shadow
    <3>3. c \cap M # {}
      BY ONLY <2>0, M \in ModelsOf(F, A), ResidualHolds
    <3>4. PICK l \in c : l \in M
      BY <3>3
    <3>5. Var(l) \in ps[j] /\ l \in AllLits
      BY <2>1, <3>1, LitsFacts
    <3>6. l \in Lits(ps[j])
      BY <1>3, <3>5, LitsFacts
    <3>7. l \in y
      BY <1>4, <3>2, <3>4, <3>6
    <3> QED
      BY <3>7
  <2>3. CASE \E v \in R : v \in c /\ -v \in c
    <3>1. PICK v \in R : v \in c /\ -v \in c
      BY <2>3
    <3>2. v \in Lits(R)
      BY <3>1 DEF Lits
    <3>3. v \in h \/ -v \in h
      BY <1>1, <1>4, <3>2, OverFacts
    <3> QED
      BY <3>1, <3>3
  <2>4. CASE VarsOf(c) \cap V = {}
    BY <1>1, <1>7, <2>4
  <2> QED
    BY <1>3, <2>2, <2>3, <2>4 DEF Covered
<1>8. Fits(F, A, R \cup P, m)
  BY <1>7 DEF Fits
<1> DEFINE X == R \cup P
           M == (N \ Lits(X)) \cup m
<1>9. X \in SUBSET FormulaVars /\ X \cap VarsOf(A) = {} /\ m \in Over(X) /\ Fits(F, A, X, m)
  BY <1>1, <1>6, <1>8
<1> HIDE DEF m, X
<1>10. M \in ModelsOf(F, A)
  BY <1>3, <1>5, <1>9, Mixed
<1>11. m \subseteq Lits(X)
  BY <1>9, OverFacts
<1>12. M \cap Lits(X) = m
  BY <1>11
<1> HIDE DEF M
<1>13. M \cap Lits(W) = f.units
  BY <1>3, <1>10, UnitsOver DEF W
<1>14. Lits(V) = Lits(W) \cup Lits(X)
  BY <1>1 DEF Lits, X
<1>15. M \cap Lits(V) = f.units \cup m
  BY <1>12, <1>13, <1>14
<1>16. f.units \cup m \in Shadow(F, A, V)
  BY <1>10, <1>15 DEF Shadow
<1>17. f.units \cup m = f.units \cup h \cup y
  BY DEF m
<1> QED
  BY <1>16, <1>17 DEF A, y

-----------------------------------------------------------------------------

\* The kids are upper bounds of the models of their parts.
KidsStand(D, F, A, kids, ps, x) ==
  /\ Len(kids) = Len(ps) /\ kids \in Seq(Nat)
  /\ \A k \in DOMAIN kids : Represents(D, kids[k], ps[k], Shadow(F, A, ps[k]), x)

\* compile_ returns an upper bound of the models of its call.
LEMMA LeaveLeads ==
  ASSUME NEW D, DagOK(D), NEW F \in SUBSET SUBSET AllLits, NEW f, NEW V, NEW ps, NEW x \in BOOLEAN,
         Parted(F, f, V, ps, x), KidsStand(D, F, f.path, f.kids, ps, x)
  PROVE  LET E == Grown(D, f.kids)
         IN  /\ DagOK(E) /\ Grows(D, E)
             /\ Leads(E, Edge(ResultOf(D, f.kids), f.units, f.free), V, Shadow(F, f.path, V), x)
<1> DEFINE kids == f.kids
           E == Grown(D, kids)
           r == ResultOf(D, kids)
           e == Edge(r, f.units, f.free)
           R == Range(f.free)
           P == UNION Range(ps)
           W == VarsOf(f.units)
           A == f.path
<1>1. /\ R \in SUBSET FormulaVars /\ P \in SUBSET FormulaVars /\ W \in SUBSET FormulaVars
      /\ V = W \cup (R \cup P) /\ W \cap (R \cup P) = {} /\ R \cap P = {}
      /\ (R \cup P) \cap VarsOf(A) = {} /\ W \subseteq VarsOf(A) /\ f.units \in SUBSET AllLits
  BY PartedFacts
<1>2. A \in SUBSET AllLits /\ f.units \subseteq A /\ ModelsOf(F, A) # {} /\ Parts(ps)
      /\ f.free \in Seq(FormulaVars) /\ IsInjective(f.free)
  BY DEF Parted
<1>3. /\ Len(kids) = Len(ps) /\ kids \in Seq(Nat) /\ DOMAIN kids = 1 .. Len(kids) /\ DOMAIN ps = DOMAIN kids
      /\ \A k \in DOMAIN kids : Represents(D, kids[k], ps[k], Shadow(F, A, ps[k]), x)
  BY <1>2 DEF KidsStand, Parts
<1>4. Kids(D, kids, ps)
  <2>1. \A k \in DOMAIN kids : kids[k] \in 2 .. Len(D) /\ Mean(D)[kids[k]] \subseteq Over(ps[k])
    BY <1>3 DEF Represents
  <2> HIDE DEF kids
  <2>2. kids \in Seq(2 .. Len(D))
    BY <1>3, <2>1, SeqOver
  <2> QED
    BY <1>2, <1>3, <2>1, <2>2 DEF Kids
<1>5. /\ DagOK(E) /\ Grows(D, E) /\ r \in 2 .. Len(E) /\ Mean(E)[r] = Product(D, kids)
  BY <1>4, ResultFacts
<1>6. e.dst = r /\ e.units = f.units /\ e.free = f.free
  BY DEF Edge
<1>7. \A g : g \in Chosen(D, kids) <=>
        g \in OverParts(ps) /\ \A k \in DOMAIN kids : g[k] \in Mean(D)[kids[k]]
  BY <1>4, KidsFacts
<1> HIDE DEF kids, E, r, R, P, W, A
<1>8. \A y \in Product(D, kids) : y \in Over(P) /\ y \subseteq Lits(P)
  <2> SUFFICES ASSUME NEW g \in Chosen(D, kids) PROVE UNION Range(g) \in Over(P) /\ UNION Range(g) \subseteq Lits(P)
    BY DEF Product
  <2>1. UNION Range(g) \in Over(P)
    BY <1>2, <1>7, PartsJoin DEF P
  <2> QED
    BY <1>1, <2>1, OverFacts
<1>9. \A l : (l \in Lits(P) <=> l \in AllLits /\ Var(l) \in P)
  BY <1>1, LitsFacts
<1>10. \A l \in f.units : l \in AllLits /\ Var(l) \in W
  BY <1>1, LitsFacts DEF W
<1>11. Linked(E, e)
  <2>1. f.units \in SUBSET (Int \ {0})
    BY <1>1, LitFacts
  <2>2. \A v \in FormulaVars : v \in Nat \ {0}
    BY LitFacts
  <2>3. f.free \in Seq(Nat \ {0})
    BY <1>2, <2>2
  <2>4. Len(E) \in Nat /\ r \in Nat
    BY <1>5, DagDrawn DEF DagOK
  <2>5. e \in Edges
    BY <2>1, <2>3, <2>4 DEF Edge, Edges
  <2>6. Apart(f.units, R)
    <3> SUFFICES ASSUME NEW l \in f.units PROVE l \notin R /\ -l \notin R
      BY DEF Apart
    <3>1. l \in AllLits /\ Var(l) \in W /\ Var(-l) = Var(l)
      BY <1>10, LitFacts
    <3>2. \A v \in R : Var(v) = v
      BY <1>1, LitFacts
    <3> QED
      BY <1>1, <3>1, <3>2
  <2> QED
    BY <1>2, <1>5, <1>6, <2>5, <2>6 DEF Linked, R
<1>12. Clear(E, e)
  <2> SUFFICES ASSUME NEW y \in Product(D, kids) PROVE y \subseteq Int \ {0} /\ Apart(y, f.units \cup R)
    BY <1>5, <1>6 DEF Clear, R
  <2>1. \A l \in y : l \in AllLits /\ Var(l) \in P
    BY <1>8, <1>9
  <2>2. y \subseteq Int \ {0}
    BY <2>1, LitFacts
  <2>3. ASSUME NEW l \in y PROVE l \notin f.units \cup R /\ -l \notin f.units \cup R
    <3>1. l \in AllLits /\ Var(l) \in P /\ Var(-l) = Var(l)
      BY <2>1, LitFacts
    <3>2. \A v \in R : Var(v) = v
      BY <1>1, LitFacts
    <3> QED
      BY <1>1, <1>10, <3>1, <3>2
  <2> QED
    BY <2>2, <2>3 DEF Apart
<1>13. Via(E, e) = {f.units \cup h \cup y : h \in Over(R), y \in Product(D, kids)}
  <2>1. Via(E, e) = Passing(e, Product(D, kids))
    BY <1>5, <1>6, ViaIs
  <2> QED
    BY <1>6, <2>1 DEF Passing, R
<1>14. Via(E, e) \subseteq Over(V)
  <2> SUFFICES ASSUME NEW h \in Over(R), NEW y \in Product(D, kids) PROVE f.units \cup h \cup y \in Over(V)
    BY <1>13
  <2>1. y \in Over(P)
    BY <1>8
  <2> DEFINE X == R \cup P
             m == h \cup y
  <2>2. m \in Over(X)
    BY <1>1, <2>1, OverJoin
  <2>3. PICK M : M \in ModelsOf(F, A)
    BY <1>2
  <2>4. f.units \in Over(W)
    BY <1>2, <2>3, UnitsOver DEF W
  <2>5. X \in SUBSET FormulaVars /\ W \cap X = {} /\ V = W \cup X
    BY <1>1
  <2> HIDE DEF X, m
  <2>6. f.units \cup m \in Over(V)
    BY <1>1, <2>2, <2>4, <2>5, OverJoin
  <2> QED
    BY <2>6 DEF m
<1>15. Shadow(F, A, V) \subseteq Via(E, e)
  <2> SUFFICES ASSUME NEW M \in ModelsOf(F, A) PROVE M \cap Lits(V) \in Via(E, e)
    BY DEF Shadow
  <2> DEFINE g == PartsOf(M, ps)
             h == M \cap Lits(R)
  <2>1. M \cap Lits(V) = f.units \cup h \cup (M \cap Lits(P))
    <3>1. M \in ModelsOf(F, f.path)
      BY DEF A
    <3>2. M \cap Lits(V) = f.units \cup (M \cap Lits(Range(f.free))) \cup (M \cap Lits(UNION Range(ps)))
      BY <3>1, ShadowSplit
    <3> QED
      BY <3>2 DEF R, P
  <2>2. g \in OverParts(ps) /\ UNION Range(g) = M \cap Lits(P)
    <3>0. M \in ModelsOf(F, A) /\ Parts(ps)
      BY <1>2
    <3>1. g \in OverParts(ps)
      BY ONLY <3>0, ModelParts
    <3>2. UNION Range(g) = M \cap Lits(UNION Range(ps))
      BY ONLY <3>0, ModelParts
    <3> QED
      BY <3>1, <3>2 DEF P
  <2>3. h \in Over(R)
    BY <1>1, ModelCut
  <2>4. \A k \in DOMAIN kids : g[k] \in Mean(D)[kids[k]]
    <3> SUFFICES ASSUME NEW k \in DOMAIN kids PROVE M \cap Lits(ps[k]) \in Mean(D)[kids[k]]
      BY <1>3 DEF PartsOf
    <3>1. M \cap Lits(ps[k]) \in Shadow(F, A, ps[k])
      BY DEF Shadow
    <3> QED
      BY <1>3, <3>1 DEF Represents
  <2> HIDE DEF g, h
  <2>5. g \in Chosen(D, kids)
    BY <1>7, <2>2, <2>4
  <2>6. M \cap Lits(P) \in Product(D, kids)
    BY <2>2, <2>5 DEF Product
  <2> QED
    BY <1>13, <2>1, <2>3, <2>6
<1>16. ASSUME x PROVE Via(E, e) \subseteq Shadow(F, A, V)
  <2> SUFFICES ASSUME NEW h \in Over(R), NEW g \in Chosen(D, kids)
               PROVE  f.units \cup h \cup UNION Range(g) \in Shadow(F, A, V)
    BY <1>13 DEF Product
  <2>1. g \in OverParts(ps) /\ \A k \in DOMAIN ps : g[k] \in Mean(D)[kids[k]]
    BY <1>3, <1>7
  <2>2. \A k \in DOMAIN ps : g[k] \in Shadow(F, A, ps[k])
    BY <1>3, <1>16, <2>1 DEF Represents
  <2>3. x = TRUE
    BY <1>16
  <2>4. Parted(F, f, V, ps, TRUE)
    BY <2>3
  <2> QED
    BY <2>1, <2>2, <2>4, PartsAreModels DEF A, R
<1>17. Leads(E, e, V, Shadow(F, A, V), x)
  BY <1>11, <1>12, <1>14, <1>15, <1>16 DEF Leads
<1> QED
  BY <1>5, <1>17 DEF A, E, kids, r

\* The two branches of a decision are an upper bound of the models of its component.
LEMMA OrRepresents ==
  ASSUME NEW D, DagOK(D), NEW F, NEW A \in SUBSET AllLits, NEW C \in SUBSET FormulaVars, NEW x,
         NEW l \in Lits(C), NEW es, es \in Seq(Edges), Len(es) = 2,
         Leads(D, es[1], C, Shadow(F, A \cup {l}, C), x), l \in es[1].units,
         Leads(D, es[2], C, Shadow(F, A \cup {-l}, C), x), -l \in es[2].units
  PROVE  LET E == Append(D, Node("o", es))
         IN  /\ DagOK(E) /\ Grows(D, E) /\ Len(E) = Len(D) + 1
             /\ Represents(E, Len(D) + 1, C, Shadow(F, A, C), x)
<1> DEFINE nd == Node("o", es)
           E == Append(D, nd)
           n == Len(D) + 1
           U == Via(D, es[1]) \cup Via(D, es[2])
<1>1. DOMAIN es = {1, 2} /\ nd.type = "o" /\ nd.children = es /\ nd \in Shape
  BY DEF Node, Shape
<1>2. NodeShape(D, nd)
  BY <1>1 DEF NodeShape, Leads
<1>3. l \in AllLits /\ -l \in AllLits
  BY LitsFacts, LitFacts
<1>4. \A M : M \in ModelsOf(F, A) <=> M \in ModelsOf(F, A \cup {l}) \/ M \in ModelsOf(F, A \cup {-l})
  <2>1. \A M \in ModelsOf(F, A) : l \in M \/ -l \in M
    BY <1>3, ModelIs
  <2> QED
    BY <2>1 DEF ModelsOf
<1>5. \A z : z \in Shadow(F, A, C) <=> z \in Shadow(F, A \cup {l}, C) \/ z \in Shadow(F, A \cup {-l}, C)
  BY <1>4 DEF Shadow
<1>6. Via(D, es[1]) \cap Via(D, es[2]) = {}
  <2> SUFFICES ASSUME NEW z \in Via(D, es[1]), z \in Via(D, es[2]) PROVE FALSE
    OBVIOUS
  <2>1. l \in z /\ -l \in z
    BY ViaIs DEF Passing
  <2>2. z \in Over(C)
    BY DEF Leads
  <2> QED
    BY <2>1, <2>2, OverFacts
<1>7. NodeSound(D, nd)
  <2>1. \A j, k \in {1, 2} : j # k => Via(D, es[j]) \cap Via(D, es[k]) = {}
    BY <1>6
  <2>2. Split(D, nd)
    BY <1>1, <2>1 DEF Split
  <2> QED
    BY <1>1, <2>2 DEF NodeSound, Leads
<1>8. /\ DagOK(E) /\ Grows(D, E) /\ Len(E) = n /\ n \in 2 .. n
      /\ Mean(E)[n] = UNION {Via(D, nd.children[k]) : k \in DOMAIN nd.children}
  BY <1>1, <1>2, <1>7, NodeAdded
<1>9. UNION {Via(D, nd.children[k]) : k \in DOMAIN nd.children} = U
  BY <1>1
<1>10. /\ U \subseteq Over(C) /\ Shadow(F, A, C) \subseteq U
       /\ x => U \subseteq Shadow(F, A, C)
  BY <1>5 DEF Leads
<1> HIDE DEF E, U
<1>11. Represents(E, n, C, Shadow(F, A, C), x)
  BY <1>8, <1>9, <1>10 DEF Represents
<1> QED
  BY <1>8, <1>11 DEF E

\* Literals of every variable of a component are its only model.
LEMMA UnitsRepresent ==
  ASSUME NEW D, DagOK(D), NEW F, NEW A \in SUBSET AllLits, NEW C \in SUBSET FormulaVars, NEW x,
         ModelsOf(F, A) # {}, NEW U \in UnitSets(F, A, C), VarsOf(U) = C
  PROVE  LET E == Append(D, Node("u", <<Edge(TRUENODE, U, <<>>)>>))
         IN  /\ DagOK(E) /\ Grows(D, E) /\ Len(E) = Len(D) + 1
             /\ Represents(E, Len(D) + 1, C, Shadow(F, A, C), x)
<1> DEFINE e == Edge(TRUENODE, U, <<>>)
           nd == Node("u", <<e>>)
           E == Append(D, nd)
           n == Len(D) + 1
<1>1. U \in SUBSET AllLits /\ ModelsOf(F, A \cup U) = ModelsOf(F, A)
  <2>0. A \in SUBSET AllLits /\ C \in SUBSET FormulaVars /\ U \in UnitSets(F, A, C)
    OBVIOUS
  <2>1. U \in SUBSET AllLits
    BY ONLY <2>0, UnitsFacts
  <2>2. ModelsOf(F, A \cup U) = ModelsOf(F, A)
    BY ONLY <2>0, UnitsFacts
  <2> QED
    BY <2>1, <2>2
<1>2. \A M \in ModelsOf(F, A) : M \cap Lits(C) = U /\ U \in Over(C)
  BY <1>1, UnitsOver
<1>3. Shadow(F, A, C) = {U} /\ U \in Over(C)
  BY <1>2 DEF Shadow
<1>4. e.dst = 2 /\ e.units = U /\ e.free = <<>> /\ Range(e.free) = {}
  BY DEF Edge, Range, TRUENODE
<1>5. e \in Edges
  <2>1. <<>> \in Seq(Nat \ {0}) /\ U \in SUBSET (Int \ {0})
    BY <1>1, LitFacts
  <2> QED
    BY <2>1 DEF Edge, Edges, TRUENODE
<1>6. 2 \in 2 .. Len(D) /\ Mean(D)[2] = {{}}
  BY MeanOf, DagDrawn DEF DagOK, DagShape
<1>7. Linked(D, e)
  BY <1>4, <1>5, <1>6 DEF Linked, IsInjective, Apart
<1>8. Clear(D, e)
  BY <1>4, <1>6 DEF Clear, Apart
<1>9. Via(D, e) = {U}
  <2>1. Over({}) = {{}}
    BY DEF Over
  <2>2. Via(D, e) = Passing(e, {{}})
    BY <1>4, <1>6, ViaIs
  <2>3. Passing(e, {{}}) = {U \cup h \cup y : h \in {{}}, y \in {{}}}
    <3>1. Passing(e, {{}}) = {e.units \cup h \cup y : h \in Over(Range(e.free)), y \in {{}}}
      BY DEF Passing
    <3>2. e.units = U /\ Over(Range(e.free)) = {{}}
      BY <1>4, <2>1
    <3> HIDE DEF e
    <3> QED
      BY <3>1, <3>2
  <2>4. {U \cup h \cup y : h \in {{}}, y \in {{}}} = {U}
    OBVIOUS
  <2> QED
    BY <2>2, <2>3, <2>4
<1> HIDE DEF e
<1>10. nd.type = "u" /\ nd.children = <<e>> /\ nd \in Shape /\ DOMAIN nd.children = {1} /\ nd.children[1] = e
  BY <1>5 DEF Node, Shape
<1> HIDE DEF nd
<1>11. NodeShape(D, nd)
  BY <1>7, <1>10 DEF NodeShape
<1>12. NodeSound(D, nd)
  BY <1>8, <1>10 DEF NodeSound, Split
<1>13. /\ DagOK(E) /\ Grows(D, E) /\ Len(E) = n /\ n \in 2 .. n
       /\ Mean(E)[n] = UNION {Via(D, nd.children[k]) : k \in DOMAIN nd.children}
  BY <1>10, <1>11, <1>12, NodeAdded
<1>14. Mean(E)[n] = {U}
  BY <1>9, <1>10, <1>13
<1>15. Represents(E, n, C, Shadow(F, A, C), x)
  BY <1>3, <1>13, <1>14 DEF Represents
<1> QED
  BY <1>13, <1>15 DEF nd, e

-----------------------------------------------------------------------------
(* The calls of compile_ *)

\* At depth 0 nothing is left to compile; without a limit the variables left fit the depth.
DepthOK(f, ps, x) ==
  /\ f.depth \in Nat
  /\ f.depth = 0 => ps = <<>>
  /\ x => Cardinality(UNION Range(ps)) <= f.depth + 1

Keys == (SUBSET FormulaVars) \X (SUBSET SUBSET AllLits)
CompileFrames ==
  [of : {"compile_"}, path : SUBSET AllLits, units : SUBSET AllLits, depth : Nat, kids : Seq(Nat),
   free : Seq(FormulaVars), todo : Seq(SUBSET FormulaVars)]
DecideFrames ==
  [of : {"compileDecisionNode"}, vars : SUBSET FormulaVars, lit : AllLits, path : SUBSET AllLits,
   depth : Nat, key : Keys, edges : Seq(Edges)]
Frames == CompileFrames \cup DecideFrames

\* Sets of variables are finite, and a subset is not larger.
LEMMA VarSets ==
  /\ \A V \in SUBSET FormulaVars : IsFiniteSet(V) /\ Cardinality(V) \in Nat
  /\ \A V \in SUBSET FormulaVars : \A W \in SUBSET V : Cardinality(W) <= Cardinality(V)
<1>1. IsFiniteSet(FormulaVars)
  BY TasksAssumption, FS_Interval DEF FormulaVars
<1>2. \A V \in SUBSET FormulaVars : IsFiniteSet(V)
  BY <1>1, FS_Subset
<1> QED
  BY <1>2, FS_Subset, FS_CardinalityType

\* A set with at most one variable has no two.
LEMMA AtMostOne ==
  ASSUME NEW V \in SUBSET FormulaVars, Cardinality(V) <= 1, NEW v \in V, NEW w \in V
  PROVE  v = w
<1> SUFFICES ASSUME v # w PROVE FALSE
  OBVIOUS
<1> DEFINE W == V \ {v}
<1>1. IsFiniteSet(V) /\ Cardinality(V) \in Nat /\ W \in SUBSET FormulaVars
  BY VarSets
<1>2. IsFiniteSet(W) /\ Cardinality(W) \in Nat /\ w \in W
  BY <1>1, VarSets
<1>3. Cardinality(W) = Cardinality(V) - 1
  BY <1>1, FS_RemoveElement
<1>4. Cardinality(W) = 0
  <2> HIDE DEF W
  <2> QED
    BY <1>1, <1>2, <1>3
<1>5. W = {}
  <2> HIDE DEF W
  <2> QED
    BY <1>2, <1>4, FS_EmptySet
<1> QED
  BY <1>2, <1>5

\* Two lists without a common element, one after the other.
LEMMA TwoLists ==
  ASSUME NEW S, NEW a \in Seq(S), NEW b \in Seq(S), IsInjective(a), IsInjective(b),
         Range(a) \cap Range(b) = {}
  PROVE  a \o b \in Seq(S) /\ IsInjective(a \o b) /\ Range(a \o b) = Range(a) \cup Range(b)
<1> DEFINE c == a \o b
           n == Len(a)
           m == Len(b)
<1>1. /\ n \in Nat /\ m \in Nat /\ c \in Seq(S) /\ Len(c) = n + m /\ DOMAIN c = 1 .. n + m
      /\ DOMAIN a = 1 .. n /\ DOMAIN b = 1 .. m
  OBVIOUS
<1>2. \A i \in 1 .. n : i \in DOMAIN c /\ c[i] = a[i]
  OBVIOUS
<1>3. \A i \in 1 .. m : n + i \in DOMAIN c /\ c[n + i] = b[i]
  OBVIOUS
<1> HIDE DEF c, n, m
<1>4. \A i \in DOMAIN c : i \in 1 .. n \/ (i - n \in 1 .. m /\ i = n + (i - n))
  BY <1>1
<1>5. Range(c) = Range(a) \cup Range(b)
  <2>1. \A i \in DOMAIN c : c[i] \in Range(a) \cup Range(b)
    BY <1>1, <1>2, <1>3, <1>4 DEF Range
  <2>2. Range(a) \subseteq Range(c) /\ Range(b) \subseteq Range(c)
    BY <1>1, <1>2, <1>3 DEF Range
  <2> QED
    BY <2>1, <2>2 DEF Range
<1>6. ASSUME NEW i \in DOMAIN c, NEW j \in DOMAIN c, c[i] = c[j] PROVE i = j
  <2>1. \A k \in 1 .. n : a[k] \in Range(a)
    BY <1>1 DEF Range
  <2>2. \A k \in 1 .. m : b[k] \in Range(b)
    BY <1>1 DEF Range
  <2>3. CASE i \in 1 .. n /\ j \in 1 .. n
    BY <1>1, <1>2, <1>6, <2>3 DEF IsInjective
  <2>4. CASE i - n \in 1 .. m /\ i = n + (i - n) /\ j - n \in 1 .. m /\ j = n + (j - n)
    <3>1. b[i - n] = b[j - n]
      BY <1>3, <1>6, <2>4
    <3>2. i - n = j - n
      BY <1>1, <2>4, <3>1 DEF IsInjective
    <3> QED
      BY <2>4, <3>2
  <2>5. CASE i \in 1 .. n /\ j - n \in 1 .. m /\ j = n + (j - n)
    BY <1>2, <1>3, <1>6, <2>1, <2>2, <2>5
  <2>6. CASE j \in 1 .. n /\ i - n \in 1 .. m /\ i = n + (i - n)
    BY <1>2, <1>3, <1>6, <2>1, <2>2, <2>6
  <2> QED
    BY <1>4, <2>3, <2>4, <2>5, <2>6
<1>7. IsInjective(c)
  BY <1>6 DEF IsInjective
<1> QED
  BY <1>1, <1>5, <1>7 DEF c

\* The variables V share no clause with others, and U are the units of a call on V.
CallReady(F, V, path, U, depth, x) ==
  /\ F \in SUBSET SUBSET AllLits /\ path \in SUBSET AllLits /\ V \in SUBSET FormulaVars
  /\ U \in SUBSET Lits(V) /\ depth \in Nat /\ x \in BOOLEAN
  /\ V \cap VarsOf(path) = {} /\ ModelsOf(F, path \cup U) # {} /\ Propagated(F, path \cup U)
  /\ Connected(Residual(F, path \cup U), V)
  /\ x => Cardinality(V \ VarsOf(U)) <= depth + 1

\* CallOf parts its variables, whatever the depth.
LEMMA CallParted ==
  ASSUME NEW F, NEW V, NEW path, NEW U, NEW depth, NEW x, CallReady(F, V, path, U, depth, x)
  PROVE  LET f == CallOf(F, V, path, U, depth)
         IN  /\ f \in CompileFrames /\ f.path = path \cup U /\ f.units = U /\ f.kids = <<>> /\ f.depth = depth
             /\ Parted(F, f, V, f.todo, x) /\ DepthOK(f, f.todo, x)
<1> DEFINE A == path \cup U
           R == Residual(F, A)
           parts == Components(R, V)
           P == UNION parts
           lone == {v \in V : v \notin P /\ v \notin VarsOf(U)}
           cut == depth = 0
           cutFree == IF cut THEN Increasing(P) ELSE <<>>
           free == Increasing(lone) \o cutFree
           todo == IF cut THEN <<>> ELSE LowestFirst(parts)
           f == CallOf(F, V, path, U, depth)
<1>0. /\ F \in SUBSET SUBSET AllLits /\ path \in SUBSET AllLits /\ V \in SUBSET FormulaVars
      /\ U \in SUBSET Lits(V) /\ depth \in Nat /\ x \in BOOLEAN
      /\ V \cap VarsOf(path) = {} /\ ModelsOf(F, path \cup U) # {} /\ Propagated(F, path \cup U)
      /\ Connected(Residual(F, path \cup U), V)
      /\ x => Cardinality(V \ VarsOf(U)) <= depth + 1
  BY DEF CallReady
<1> USE <1>0
<1>1. f = [of |-> "compile_", path |-> A, units |-> U, depth |-> depth, kids |-> <<>>, free |-> free, todo |-> todo]
  BY DEF CallOf
<1>2. U \in SUBSET AllLits /\ A \in SUBSET AllLits
  BY LitsFacts
<1>3. VarsOf(U) \subseteq V
  <2> SUFFICES ASSUME NEW v \in VarsOf(U) PROVE v \in V
    OBVIOUS
  <2>1. PICK l \in U : Var(l) = v
    BY <1>2, LitsFacts
  <2> QED
    BY <2>1, LitsFacts
<1>4. VarsOf(A) = VarsOf(path) \cup VarsOf(U)
  BY DEF VarsOf
<1>5. /\ \A C \in parts : C \subseteq V /\ C # {} /\ Connected(R, C) /\ C \subseteq UNION {VarsOf(c) : c \in R}
      /\ \A C, D \in parts : C # D => C \cap D = {}
  <2> HIDE DEF R
  <2> QED
    BY ONLY ComponentsApart DEF parts
<1>6. \A c \in R : VarsOf(c) \cap VarsOf(A) = {} /\ c \in SUBSET AllLits
  <2> SUFFICES ASSUME NEW c \in Residual(F, A) PROVE VarsOf(c) \cap VarsOf(A) = {} /\ c \in SUBSET AllLits
    OBVIOUS
  <2> HIDE DEF A
  <2> QED
    BY ONLY <1>0, <1>2, c \in Residual(F, A), ResidualFacts
<1>7. \A C \in parts : C \subseteq V /\ C \cap VarsOf(A) = {}
  <2> HIDE DEF A, R, parts
  <2> QED
    BY ONLY <1>5, <1>6
<1>8. P \subseteq V /\ P \cap VarsOf(A) = {}
  BY <1>7
<1>9. \A C \in parts : Separated(F, A, C)
  BY <1>5, <1>7 DEF Separated
<1>10. \A c \in R : VarsOf(c) \cap V = {} \/ \E C \in parts : VarsOf(c) \subseteq C
  BY ComponentsCover
<1>11. x => Cardinality(P) <= depth + 1
  <2>1. P \subseteq V \ VarsOf(U) /\ V \ VarsOf(U) \in SUBSET FormulaVars
    BY <1>4, <1>8
  <2> HIDE DEF P
  <2>2. Cardinality(P) <= Cardinality(V \ VarsOf(U)) /\ Cardinality(P) \in Nat /\ Cardinality(V \ VarsOf(U)) \in Nat
    BY <2>1, VarSets
  <2> QED
    BY <2>2
<1>12. Range(<<>>) = {} /\ IsInjective(<<>>)
  BY DEF Range, IsInjective
<1> HIDE DEF parts, R
<1>13. lone \in SUBSET FormulaVars /\ P \in SUBSET FormulaVars
  BY <1>8
<1>14. /\ Increasing(lone) \in Seq(FormulaVars) /\ IsInjective(Increasing(lone)) /\ Range(Increasing(lone)) = lone
       /\ Increasing(P) \in Seq(FormulaVars) /\ IsInjective(Increasing(P)) /\ Range(Increasing(P)) = P
  <2> HIDE DEF lone, P
  <2>1. /\ Increasing(lone) \in Seq(lone) /\ IsInjective(Increasing(lone)) /\ Range(Increasing(lone)) = lone
        /\ Increasing(P) \in Seq(P) /\ IsInjective(Increasing(P)) /\ Range(Increasing(P)) = P
    BY <1>13, IncreasingFacts
  <2> QED
    BY <1>13, <2>1
<1>15. /\ cutFree \in Seq(FormulaVars) /\ IsInjective(cutFree)
       /\ Range(cutFree) = (IF cut THEN P ELSE {})
  <2> HIDE DEF P
  <2>1. CASE cut
    BY <1>14, <2>1
  <2>2. CASE ~cut
    <3>1. cutFree = <<>> /\ <<>> \in Seq(FormulaVars)
      BY <2>2
    <3> HIDE DEF cutFree
    <3> QED
      BY <1>12, <2>2, <3>1
  <2> QED
    BY <2>1, <2>2
<1>16. Range(Increasing(lone)) \cap Range(cutFree) = {}
  BY <1>14, <1>15
<1>17. free \in Seq(FormulaVars) /\ IsInjective(free) /\ Range(free) = lone \cup (IF cut THEN P ELSE {})
  <2> HIDE DEF cutFree, lone
  <2> QED
    BY <1>14, <1>15, <1>16, TwoLists
<1>18. LowestFirst(parts) \in Seq(parts) /\ IsInjective(LowestFirst(parts)) /\ Range(LowestFirst(parts)) = parts
  <2>1. parts \in SUBSET SUBSET FormulaVars /\ {} \notin parts
    BY <1>5
  <2> QED
    BY <1>5, <2>1, LowestFirstFacts
<1>19. /\ todo \in Seq(SUBSET FormulaVars)
       /\ Range(todo) = (IF cut THEN {} ELSE parts)
       /\ IsInjective(todo) /\ \A j \in DOMAIN todo : todo[j] \in parts
  <2>1. parts \in SUBSET SUBSET FormulaVars
    BY <1>5
  <2>2. LowestFirst(parts) \in Seq(SUBSET FormulaVars) /\ \A j \in DOMAIN LowestFirst(parts) : LowestFirst(parts)[j] \in parts
    BY <1>18, <2>1
  <2>3. CASE cut
    <3>1. todo = <<>> /\ <<>> \in Seq(SUBSET FormulaVars) /\ DOMAIN <<>> = {}
      BY <2>3
    <3> HIDE DEF todo
    <3> QED
      BY <1>12, <2>3, <3>1
  <2>4. CASE ~cut
    <3>1. todo = LowestFirst(parts)
      BY <2>4
    <3> HIDE DEF todo
    <3> QED
      BY <1>18, <2>2, <2>4, <3>1
  <2> QED
    BY <2>3, <2>4
<1> HIDE DEF free, todo, f
<1>20. f \in CompileFrames /\ f.path = A /\ f.units = U /\ f.kids = <<>> /\ f.depth = depth /\ f.free = free /\ f.todo = todo
  <2>1. <<>> \in Seq(Nat)
    OBVIOUS
  <2> HIDE DEF A
  <2>2. f.path = A /\ f.units = U /\ f.kids = <<>> /\ f.depth = depth /\ f.free = free /\ f.todo = todo
    BY <1>1
  <2>3. f \in CompileFrames
    BY <1>1, <1>2, <1>17, <1>19, <2>1 DEF CompileFrames
  <2> QED
    BY <2>2, <2>3
<1>21. Parts(todo)
  BY <1>5, <1>19 DEF Parts, IsInjective
<1>22. UNION Range(todo) = (IF cut THEN {} ELSE P)
  BY <1>19
<1>23. x => Covered(F, A, V, Range(free), todo)
  <2> SUFFICES ASSUME x, NEW c \in R, VarsOf(c) \cap V # {}
               PROVE  (\E j \in DOMAIN todo : VarsOf(c) \subseteq todo[j]) \/ \E v \in Range(free) : v \in c /\ -v \in c
    BY DEF Covered, R
  <2>1. PICK C \in parts : VarsOf(c) \subseteq C
    BY <1>10
  <2>2. CASE ~cut
    <3>1. C \in Range(todo)
      BY <1>19, <2>2
    <3>2. PICK j \in DOMAIN todo : C = todo[j]
      BY <3>1 DEF Range
    <3> QED
      BY <2>1, <3>2
  <2>3. CASE cut
    <3>1. Cardinality(P) <= 1
      BY <1>11, <2>3
    <3>2. c \in SUBSET AllLits
      BY <1>6
    <3>3. Cardinality(c) > 1
      BY DEF Propagated, R
    <3>4. c # {} /\ \A l \in c : c # {l}
      <4>1. Cardinality({}) = 0
        BY FS_EmptySet
      <4>2. \A l : Cardinality({l}) = 1
        BY ONLY FS_Singleton
      <4>3. ~(1 > 1) /\ ~(0 > 1)
        OBVIOUS
      <4> HIDE DEF R
      <4>4. c # {} /\ \A l : c # {l}
        BY ONLY <3>3, <4>1, <4>2, <4>3
      <4> QED
        BY ONLY <4>4
    <3>5. PICK l \in c : TRUE
      BY <3>4
    <3>6. PICK k \in c : k # l
      BY <3>4
    <3>7. Var(l) \in P /\ Var(k) \in P
      <4>1. Var(l) \in VarsOf(c) /\ Var(k) \in VarsOf(c)
        BY <3>2, LitsFacts
      <4> QED
        BY <2>1, <4>1
    <3> HIDE DEF P
    <3>8. Var(l) = Var(k)
      BY <1>13, <3>1, <3>7, AtMostOne
    <3>9. k = -l /\ l \in AllLits
      BY <3>2, <3>6, <3>8, LitFacts
    <3>10. Var(l) \in c /\ -Var(l) \in c
      <4>1. Var(l) = l \/ Var(l) = -l
        BY DEF Var
      <4>2. -(-l) = l
        BY <3>9, LitFacts
      <4> QED
        BY <3>9, <4>1, <4>2
    <3>11. Var(l) \in Range(free)
      BY <1>17, <2>3, <3>7
    <3> QED
      BY <3>10, <3>11
  <2> QED
    BY <2>2, <2>3
<1>24. lone \cap VarsOf(A) = {} /\ lone \cap P = {}
  BY <1>4
<1>25. V = VarsOf(U) \cup Range(free) \cup UNION Range(todo)
  <2> HIDE DEF P
  <2> QED
    BY <1>3, <1>8, <1>17, <1>22
<1>26. Range(free) \cap VarsOf(A) = {}
  <2> HIDE DEF P, lone, A
  <2> QED
    BY <1>8, <1>17, <1>24
<1>27. \A j \in DOMAIN todo : Separated(F, A, todo[j]) /\ Range(free) \cap todo[j] = {}
  <2> SUFFICES ASSUME NEW j \in DOMAIN todo PROVE Separated(F, A, todo[j]) /\ Range(free) \cap todo[j] = {}
    OBVIOUS
  <2>1. todo[j] \in parts /\ todo[j] \in Range(todo)
    BY <1>19 DEF Range
  <2>2. ~cut
    BY <1>19, <2>1
  <2>3. Range(free) = lone
    BY <1>17, <2>2
  <2> QED
    BY <1>9, <2>1, <2>3
<1>28. Parted(F, f, V, todo, x)
  <2> HIDE DEF A
  <2>1. U \subseteq A /\ ModelsOf(F, A) # {}
    BY DEF A
  <2> QED
    BY <1>2, <1>17, <1>20, <1>21, <1>23, <1>25, <1>26, <1>27, <2>1 DEF Parted
<1>29. DepthOK(f, todo, x)
  <2>1. cut => todo = <<>>
    BY DEF todo
  <2>2. x => Cardinality(UNION Range(todo)) <= depth + 1
    <3>1. Cardinality({}) = 0
      BY FS_EmptySet
    <3> HIDE DEF P, cut
    <3>2. CASE cut
      <4>1. UNION Range(todo) = {}
        BY ONLY <1>22, <3>2
      <4>2. 0 <= depth + 1
        OBVIOUS
      <4> QED
        BY ONLY <3>1, <4>1, <4>2
    <3>3. CASE ~cut
      BY <1>11, <1>22, <3>3
    <3> QED
      BY <3>2, <3>3
  <2> QED
    BY <1>20, <2>1, <2>2 DEF DepthOK
<1> QED
  BY <1>20, <1>28, <1>29 DEF f, A

-----------------------------------------------------------------------------
(* The stack of calls *)

\* The call f on V has compiled some of its parts; r is the rest.
CompileOK(D, F, x, f, V, r) ==
  /\ f \in CompileFrames
  /\ \E done \in Seq(SUBSET FormulaVars) :
       /\ Parted(F, f, V, done \o r, x) /\ DepthOK(f, done \o r, x)
       /\ KidsStand(D, F, f.path, f.kids, done, x)

\* The literal under which the k-th branch of a decision is compiled.
Sign(f, k) == IF k = 1 THEN f.lit ELSE -f.lit

\* The branches of the decision f that are there are upper bounds.
DecideOK(D, F, x, f) ==
  /\ f \in DecideFrames
  /\ Separated(F, f.path, f.vars) /\ ModelsOf(F, f.path) # {}
  /\ f.lit \in Lits(f.vars) /\ f.key = KeyIn(F, f.vars, f.path)
  /\ x => Cardinality(f.vars) <= f.depth + 2
  /\ Len(f.edges) <= 2
  /\ \A k \in DOMAIN f.edges :
       /\ Leads(D, f.edges[k], f.vars, Shadow(F, f.path \cup {Sign(f, k)}, f.vars), x)
       /\ Sign(f, k) \in f.edges[k].units

\* The decision d has called f for its next branch.
Begun(F, d, f) ==
  /\ d.of = "compileDecisionNode" /\ Len(d.edges) < 2
  /\ Sign(d, Len(d.edges) + 1) \in f.units
  /\ ModelsOf(F, f.path) = ModelsOf(F, d.path \cup {Sign(d, Len(d.edges) + 1)})

\* The variables of the i-th call, and the parts it has still to compile.
Scope(fs, i) == IF i = 1 THEN FormulaVars ELSE fs[i - 1].vars
Rest(fs, i) == IF i = Len(fs) THEN fs[i].todo ELSE <<fs[i + 1].vars>> \o fs[i].todo

FrameOK(D, F, x, fs, i) ==
  \/ /\ fs[i].of = "compile_"
     /\ i # 1 => Begun(F, fs[i - 1], fs[i])
     /\ CompileOK(D, F, x, fs[i], Scope(fs, i), Rest(fs, i))
  \/ /\ fs[i].of = "compileDecisionNode" /\ i # 1
     /\ fs[i - 1].of = "compile_" /\ fs[i].path = fs[i - 1].path
     /\ DecideOK(D, F, x, fs[i])
StackOK(D, F, x, fs) ==
  fs \in Seq(Frames) /\ Len(fs) >= 1 /\ \A i \in 1 .. Len(fs) : FrameOK(D, F, x, fs, i)

\* The two kinds of calls are told apart by their field `of'.
LEMMA FrameIs ==
  /\ \A f \in Frames : (f.of = "compile_" <=> f \in CompileFrames)
                       /\ (f.of = "compileDecisionNode" <=> f \in DecideFrames)
  /\ \A f \in CompileFrames : f.of = "compile_"
  /\ \A f \in DecideFrames : f.of = "compileDecisionNode"
  /\ "compile_" # "compileDecisionNode"
<1>1. \A f \in CompileFrames : f.of = "compile_"
  BY DEF CompileFrames
<1>2. \A f \in DecideFrames : f.of = "compileDecisionNode"
  BY DEF DecideFrames
<1> QED
  BY <1>1, <1>2 DEF Frames

\* A call stays sound when the circuit grows.
LEMMA KidsKept ==
  ASSUME NEW D, NEW E, Grows(D, E), NEW F, NEW A, NEW kids, NEW ps, NEW x, KidsStand(D, F, A, kids, ps, x)
  PROVE  KidsStand(E, F, A, kids, ps, x)
BY PromisesKept DEF KidsStand

\* A call of compile_ stays sound,
LEMMA CompileKept ==
  ASSUME NEW D, NEW E, Grows(D, E), NEW F, NEW x, NEW f, NEW V, NEW r, CompileOK(D, F, x, f, V, r)
  PROVE  CompileOK(E, F, x, f, V, r)
BY KidsKept DEF CompileOK

\* and so does a call of compileDecisionNode.
LEMMA DecideKept ==
  ASSUME NEW D, NEW E, Grows(D, E), NEW F, NEW x, NEW f, DecideOK(D, F, x, f)
  PROVE  DecideOK(E, F, x, f)
<1>1. \A k \in DOMAIN f.edges :
        Leads(E, f.edges[k], f.vars, Shadow(F, f.path \cup {Sign(f, k)}, f.vars), x)
  BY PromisesKept DEF DecideOK
<1> QED
  BY <1>1 DEF DecideOK

\* The first part left to compile is compiled.
LEMMA CompileStep ==
  ASSUME NEW D, NEW E, Grows(D, E), NEW F, NEW x, NEW f, NEW V, NEW C \in SUBSET FormulaVars,
         NEW r \in Seq(SUBSET FormulaVars), CompileOK(D, F, x, f, V, <<C>> \o r),
         NEW k, Represents(E, k, C, Shadow(F, f.path, C), x),
         NEW g \in CompileFrames, g.path = f.path, g.units = f.units, g.free = f.free,
         g.depth = f.depth, g.kids = Append(f.kids, k)
  PROVE  CompileOK(E, F, x, g, V, r)
<1>1. PICK done \in Seq(SUBSET FormulaVars) :
        /\ Parted(F, f, V, done \o (<<C>> \o r), x) /\ DepthOK(f, done \o (<<C>> \o r), x)
        /\ KidsStand(E, F, f.path, f.kids, done, x)
  BY KidsKept DEF CompileOK
<1> DEFINE more == Append(done, C)
<1>2. more \in Seq(SUBSET FormulaVars) /\ more \o r = done \o (<<C>> \o r)
  <2>1. <<C>> \in Seq(SUBSET FormulaVars) /\ more = done \o <<C>>
    OBVIOUS
  <2> QED
    BY <2>1, ConcatAssociative
<1>3. Parted(F, g, V, more \o r, x) /\ DepthOK(g, more \o r, x)
  <2> HIDE DEF more
  <2> QED
    BY <1>1, <1>2 DEF Parted, DepthOK
<1>4. KidsStand(E, F, g.path, g.kids, more, x)
  <2>1. /\ Len(f.kids) = Len(done) /\ f.kids \in Seq(Nat) /\ Len(done) \in Nat
        /\ \A j \in DOMAIN f.kids : Represents(E, f.kids[j], done[j], Shadow(F, f.path, done[j]), x)
    BY <1>1 DEF KidsStand
  <2>2. k \in Nat
    <3>1. k \in 2 .. Len(E) /\ Len(E) \in Nat
      BY DagDrawn DEF Represents, Grows
    <3> QED
      BY <3>1
  <2> DEFINE n == Len(done)
             kids == Append(f.kids, k)
  <2>3. /\ DOMAIN kids = 1 .. n + 1 /\ DOMAIN f.kids = 1 .. n /\ kids \in Seq(Nat)
        /\ Len(kids) = n + 1 /\ Len(more) = n + 1
    BY <2>1, <2>2
  <2>4. /\ \A j \in 1 .. n : kids[j] = f.kids[j] /\ more[j] = done[j]
        /\ kids[n + 1] = k /\ more[n + 1] = C
    BY <2>1, <2>2
  <2> HIDE DEF kids, more
  <2>5. \A j \in DOMAIN kids : Represents(E, kids[j], more[j], Shadow(F, f.path, more[j]), x)
    <3> SUFFICES ASSUME NEW j \in DOMAIN kids
                 PROVE  Represents(E, kids[j], more[j], Shadow(F, f.path, more[j]), x)
      OBVIOUS
    <3>1. j \in 1 .. n \/ j = n + 1
      BY <2>1, <2>3
    <3>2. CASE j \in 1 .. n
      BY <2>1, <2>3, <2>4, <3>2
    <3>3. CASE j = n + 1
      BY <2>4, <3>3
    <3> QED
      BY <3>1, <3>2, <3>3
  <2> QED
    BY <2>3, <2>5 DEF KidsStand, kids
<1> HIDE DEF more
<1> QED
  BY <1>2, <1>3, <1>4 DEF CompileOK

\* The frames below the one that changes stay sound.
LEMMA FramesKept ==
  ASSUME NEW D, NEW E, Grows(D, E), NEW F, NEW x, NEW fs, StackOK(D, F, x, fs),
         NEW gs \in Seq(Frames), NEW m \in 1 .. Len(fs), m <= Len(gs),
         \A i \in 1 .. m - 1 : gs[i] = fs[i],
         gs[m].of = "compileDecisionNode" => gs[m].vars = fs[m].vars,
         gs[m].of = fs[m].of,
         NEW i \in 1 .. m - 1
  PROVE  FrameOK(E, F, x, gs, i)
<1>1. /\ i \in 1 .. Len(fs) /\ i # Len(fs) /\ i # Len(gs) /\ gs[i] = fs[i] /\ Len(fs) \in Nat /\ Len(gs) \in Nat
      /\ i + 1 \in 1 .. Len(fs) /\ i + 1 \in 1 .. m
      /\ i # 1 => i - 1 \in 1 .. m - 1
      /\ (i + 1) - 1 = i /\ i + 1 # 1
  BY DEF StackOK
<1>2. i # 1 => gs[i - 1] = fs[i - 1]
  BY <1>1
<1>3. FrameOK(D, F, x, fs, i) /\ FrameOK(D, F, x, fs, i + 1)
  BY <1>1 DEF StackOK
<1>4. CASE fs[i].of = "compileDecisionNode"
  BY <1>1, <1>2, <1>3, <1>4, DecideKept, FrameIs DEF FrameOK
<1>5. CASE fs[i].of = "compile_"
  <2>1. fs[i + 1].of = "compileDecisionNode"
    BY <1>1, <1>3, <1>5, FrameIs DEF FrameOK, Begun
  <2>2. gs[i + 1].vars = fs[i + 1].vars
    <3>1. CASE i + 1 = m
      BY <2>1, <3>1
    <3>2. CASE i + 1 # m
      <4>1. i + 1 \in 1 .. m - 1
        BY <1>1, <3>2
      <4> QED
        BY <4>1
    <3> QED
      BY <3>1, <3>2
  <2>3. Rest(gs, i) = Rest(fs, i) /\ Scope(gs, i) = Scope(fs, i)
    BY <1>1, <1>2, <2>2 DEF Rest, Scope
  <2>4. CompileOK(E, F, x, gs[i], Scope(gs, i), Rest(gs, i))
    <3>1. CompileOK(D, F, x, fs[i], Scope(fs, i), Rest(fs, i))
      BY <1>3, <1>5, FrameIs DEF FrameOK
    <3> QED
      BY <1>1, <2>3, <3>1, CompileKept
  <2> QED
    BY <1>1, <1>2, <1>3, <1>5, <2>4, FrameIs DEF FrameOK
<1> QED
  BY <1>3, <1>4, <1>5 DEF FrameOK

-----------------------------------------------------------------------------
(* Changing the calls of a stack *)

\* A stack whose lower calls are unchanged is sound when the calls from m on are.
LEMMA Stacked ==
  ASSUME NEW D, NEW E, Grows(D, E), NEW F, NEW x, NEW fs, StackOK(D, F, x, fs),
         NEW gs \in Seq(Frames), NEW m \in 1 .. Len(fs), m <= Len(gs),
         \A i \in 1 .. m - 1 : gs[i] = fs[i],
         gs[m].of = "compileDecisionNode" => gs[m].vars = fs[m].vars,
         gs[m].of = fs[m].of, gs[m].path = fs[m].path,
         \A i \in m .. Len(gs) : FrameOK(E, F, x, gs, i)
  PROVE  StackOK(E, F, x, gs) /\ gs[1].path = fs[1].path
<1>1. \A i \in 1 .. m - 1 : FrameOK(E, F, x, gs, i)
  BY FramesKept
<1>2. Len(gs) \in Nat /\ Len(fs) \in Nat
  BY DEF StackOK
<1>3. \A i \in 1 .. Len(gs) : i \in 1 .. m - 1 \/ i \in m .. Len(gs)
  BY <1>2
<1>4. Len(gs) >= 1
  BY <1>2
<1>5. m = 1 \/ 1 \in 1 .. m - 1
  BY <1>2
<1> QED
  BY <1>1, <1>3, <1>4, <1>5 DEF StackOK

\* The frame at the end of the stack.
LEMMA TopFrame ==
  ASSUME NEW D, NEW F, NEW x, NEW fs, StackOK(D, F, x, fs)
  PROVE  LET n == Len(fs)
             f == fs[n]
         IN  /\ fs \in Seq(Frames) /\ n \in Nat /\ n \in 1 .. n /\ f \in Frames /\ FrameOK(D, F, x, fs, n)
             /\ fs # <<>> /\ DOMAIN fs = 1 .. n
             /\ f.of = "compile_" => f \in CompileFrames /\ CompileOK(D, F, x, f, Scope(fs, n), f.todo)
                                     /\ (n # 1 => Begun(F, fs[n - 1], f))
             /\ f.of # "compile_" => /\ f.of = "compileDecisionNode" /\ f \in DecideFrames /\ DecideOK(D, F, x, f)
                                     /\ n # 1 /\ fs[n - 1].of = "compile_" /\ f.path = fs[n - 1].path
<1> DEFINE n == Len(fs)
           f == fs[n]
<1>1. fs \in Seq(Frames) /\ n \in Nat /\ n \in 1 .. n /\ f \in Frames /\ FrameOK(D, F, x, fs, n) /\ fs # <<>>
      /\ DOMAIN fs = 1 .. n
  <2>1. fs \in Seq(Frames) /\ n \in Nat /\ n \in 1 .. n
    BY DEF StackOK
  <2> QED
    BY <2>1 DEF StackOK
<1>2. Rest(fs, n) = f.todo
  BY DEF Rest
<1> QED
  BY <1>1, <1>2, FrameIs DEF FrameOK, CompileOK, DecideOK

\* A list is its head and its tail.
LEMMA HeadTail ==
  ASSUME NEW S, NEW q \in Seq(S), q # <<>>
  PROVE  /\ Head(q) \in S /\ Tail(q) \in Seq(S) /\ q = <<Head(q)>> \o Tail(q)
<1>1. Head(q) \in S /\ Tail(q) \in Seq(S) /\ Len(q) \in Nat \ {0}
  BY HeadTailProperties, EmptySeq
<1>2. Len(Tail(q)) = Len(q) - 1 /\ \A i \in 1 .. Len(q) - 1 : Tail(q)[i] = q[i + 1]
  BY <1>1, HeadTailProperties
<1> DEFINE h == <<Head(q)>>
<1>3. h \in Seq(S) /\ Len(h) = 1 /\ h[1] = q[1]
  BY <1>1
<1> HIDE DEF h
<1> DEFINE t == Tail(q)
           c == h \o t
<1>4. c \in Seq(S) /\ Len(c) = 1 + Len(t) /\ c[1] = h[1] /\ \A i \in 1 .. Len(t) : c[1 + i] = t[i]
  <2>1. t \in Seq(S)
    BY <1>1
  <2>2. Len(t) \in Nat
    BY <2>1
  <2> HIDE DEF t
  <2>3. /\ c \in Seq(S) /\ Len(c) = Len(h) + Len(t)
        /\ \A i \in 1 .. Len(h) + Len(t) : c[i] = IF i <= Len(h) THEN h[i] ELSE t[i - Len(h)]
    BY <1>3, <2>1, ConcatProperties
  <2> HIDE DEF c
  <2>4. c[1] = h[1]
    BY <1>3, <2>2, <2>3
  <2>5. ASSUME NEW i \in 1 .. Len(t) PROVE c[1 + i] = t[i]
    <3>1. 1 + i \in 1 .. 1 + Len(t) /\ ~(1 + i <= 1) /\ (1 + i) - 1 = i
      BY <2>2
    <3> QED
      BY <1>3, <2>3, <3>1
  <2> QED
    BY <1>3, <2>3, <2>4, <2>5
<1> HIDE DEF c
<1>5. Len(c) = Len(q) /\ DOMAIN c = 1 .. Len(q)
  BY <1>1, <1>2, <1>4
<1>6. \A i \in 1 .. Len(q) : c[i] = q[i]
  <2> SUFFICES ASSUME NEW i \in 1 .. Len(q), i # 1 PROVE c[i] = q[i]
    BY <1>3, <1>4
  <2>1. i - 1 \in 1 .. Len(q) - 1 /\ i = 1 + (i - 1) /\ (i - 1) + 1 = i
    BY <1>1
  <2> QED
    BY <1>2, <1>4, <2>1
<1>7. c = q
  BY <1>1, <1>4, <1>5, <1>6, SeqEqual
<1> QED
  BY <1>1, <1>7 DEF h, c

\* The end of the stack is replaced.
LEMMA Replaced ==
  ASSUME NEW fs \in Seq(Frames), fs # <<>>, NEW g \in Frames
  PROVE  LET gs == [fs EXCEPT ![Len(fs)] = g]
         IN  /\ gs \in Seq(Frames) /\ Len(gs) = Len(fs) /\ gs[Len(fs)] = g
             /\ \A i \in 1 .. Len(fs) - 1 : gs[i] = fs[i]
OBVIOUS

\* The call at the end of the stack changes, the others wait as before.
LEMMA TopChanged ==
  ASSUME NEW D, NEW E, Grows(D, E), NEW F, NEW x, NEW fs, StackOK(D, F, x, fs),
         NEW g \in Frames, g.of = fs[Len(fs)].of, g.path = fs[Len(fs)].path,
         g.of = "compileDecisionNode" => g.vars = fs[Len(fs)].vars,
         NEW gs, gs = [fs EXCEPT ![Len(fs)] = g],
         FrameOK(E, F, x, gs, Len(fs))
  PROVE  StackOK(E, F, x, gs) /\ gs[1].path = fs[1].path
<1> DEFINE m == Len(fs)
<1>1. fs \in Seq(Frames) /\ m \in Nat /\ m \in 1 .. m /\ fs # <<>>
  BY TopFrame
<1>2. gs \in Seq(Frames) /\ Len(gs) = m /\ gs[m] = g /\ \A i \in 1 .. m - 1 : gs[i] = fs[i]
  BY <1>1, Replaced
<1>3. m <= Len(gs) /\ m \in 1 .. Len(fs) /\ \A i \in m .. Len(gs) : FrameOK(E, F, x, gs, i)
  BY <1>1, <1>2
<1>4. gs[m].of = fs[m].of /\ gs[m].path = fs[m].path /\ (gs[m].of = "compileDecisionNode" => gs[m].vars = fs[m].vars)
  BY <1>2
<1> HIDE DEF m
<1> QED
  BY ONLY Grows(D, E), StackOK(D, F, x, fs), <1>1, <1>2, <1>3, <1>4, Stacked

Advanced(fs, k) == [WithKid(fs, k) EXCEPT ![Len(fs)].todo = Tail(@)]

\* The next part is compiled, or found in the cache.
LEMMA KidDone ==
  ASSUME NEW D, NEW E, Grows(D, E), NEW F, NEW x, NEW fs, StackOK(D, F, x, fs),
         fs[Len(fs)].of = "compile_", fs[Len(fs)].todo # <<>>,
         NEW k, Represents(E, k, Head(fs[Len(fs)].todo),
                           Shadow(F, fs[Len(fs)].path, Head(fs[Len(fs)].todo)), x),
         NEW hs, hs = Advanced(fs, k)
  PROVE  StackOK(E, F, x, hs) /\ hs[1].path = fs[1].path
<1> DEFINE n == Len(fs)
           f == fs[n]
           C == Head(f.todo)
           r == Tail(f.todo)
           g == [[f EXCEPT !.kids = Append(@, k)] EXCEPT !.todo = Tail(@)]
           gs == [fs EXCEPT ![Len(fs)] = g]
<1>1. /\ fs \in Seq(Frames) /\ n \in Nat /\ n \in 1 .. n /\ f \in CompileFrames /\ fs # <<>> /\ DOMAIN fs = 1 .. n
      /\ CompileOK(D, F, x, f, Scope(fs, n), f.todo) /\ (n # 1 => Begun(F, fs[n - 1], f))
  BY TopFrame
<1>2. hs = gs
  BY <1>1 DEF WithKid, Advanced
<1>3. k \in Nat
  <2>1. k \in 2 .. Len(E) /\ Len(E) \in Nat
    BY DagDrawn DEF Represents, Grows
  <2> QED
    BY <2>1
<1>4. f.todo \in Seq(SUBSET FormulaVars) /\ f.kids \in Seq(Nat)
  BY <1>1 DEF CompileFrames
<1>5. C \in SUBSET FormulaVars /\ r \in Seq(SUBSET FormulaVars) /\ f.todo = <<C>> \o r
  BY <1>4, HeadTail
<1>6. /\ g \in CompileFrames /\ g.path = f.path /\ g.units = f.units /\ g.free = f.free
      /\ g.depth = f.depth /\ g.kids = Append(f.kids, k) /\ g.todo = r /\ g.of = f.of
  <2>1. Append(f.kids, k) \in Seq(Nat)
    BY <1>3, <1>4
  <2>2. g = [f EXCEPT !.kids = Append(f.kids, k), !.todo = r]
    BY <1>1 DEF CompileFrames
  <2> HIDE DEF r, g
  <2> QED
    BY <1>1, <1>5, <2>1, <2>2 DEF CompileFrames
<1> HIDE DEF g, C, r
<1>7. CompileOK(E, F, x, g, Scope(fs, n), r)
  <2>1. CompileOK(D, F, x, f, Scope(fs, n), <<C>> \o r)
    BY <1>1, <1>5
  <2>2. Represents(E, k, C, Shadow(F, f.path, C), x)
    BY SMTT(30) DEF C
  <2> HIDE DEF f, n
  <2> QED
    BY ONLY Grows(D, E), <1>5, <1>6, <2>1, <2>2, CompileStep
<1>8. /\ gs \in Seq(Frames) /\ Len(gs) = n /\ gs[n] = g /\ \A i \in 1 .. n - 1 : gs[i] = fs[i]
  <2>1. g \in Frames
    BY <1>6 DEF Frames
  <2> QED
    BY <1>1, <2>1, Replaced
<1> HIDE DEF gs
<1>9. FrameOK(E, F, x, gs, n)
  <2>1. n # 1 => gs[n - 1] = fs[n - 1]
    BY <1>1, <1>8
  <2>2. Rest(gs, n) = r /\ Scope(gs, n) = Scope(fs, n)
    BY <1>6, <1>8, <2>1 DEF Rest, Scope
  <2>3. n # 1 => Begun(F, gs[n - 1], gs[n])
    BY <1>1, <1>6, <1>8, <2>1 DEF Begun
  <2> QED
    BY <1>6, <1>7, <1>8, <2>2, <2>3 DEF FrameOK
<1>10. StackOK(E, F, x, gs) /\ gs[1].path = fs[1].path
  <2>1. g \in Frames /\ g.of = fs[n].of /\ g.path = fs[n].path /\ (g.of = "compileDecisionNode" => g.vars = fs[n].vars)
    BY <1>6, FrameIs DEF Frames
  <2>2. gs = [fs EXCEPT ![Len(fs)] = g]
    BY DEF gs
  <2> HIDE DEF f
  <2>3. StackOK(E, F, x, gs)
    BY ONLY Grows(D, E), StackOK(D, F, x, fs), <1>9, <2>1, <2>2, TopChanged
  <2>4. gs[1].path = fs[1].path
    BY ONLY Grows(D, E), StackOK(D, F, x, fs), <1>9, <2>1, <2>2, TopChanged
  <2> QED
    BY <2>3, <2>4
<1> QED
  BY <1>2, <1>10

\* The next branch of the decision is there.
LEMMA EdgeDone ==
  ASSUME NEW D, NEW E, Grows(D, E), NEW F, NEW x, NEW fs, StackOK(D, F, x, fs),
         fs[Len(fs)].of = "compileDecisionNode", Len(fs[Len(fs)].edges) < 2,
         NEW l, l = Sign(fs[Len(fs)], Len(fs[Len(fs)].edges) + 1),
         NEW e, Leads(E, e, fs[Len(fs)].vars, Shadow(F, fs[Len(fs)].path \cup {l}, fs[Len(fs)].vars), x),
         l \in e.units, NEW hs, hs = WithEdge(fs, e)
  PROVE  StackOK(E, F, x, hs) /\ hs[1].path = fs[1].path
<1> DEFINE n == Len(fs)
           f == fs[n]
           g == [f EXCEPT !.edges = Append(@, e)]
           gs == [fs EXCEPT ![Len(fs)] = g]
<1>1. /\ fs \in Seq(Frames) /\ n \in Nat /\ n \in 1 .. n /\ f \in DecideFrames /\ fs # <<>> /\ DOMAIN fs = 1 .. n
      /\ DecideOK(D, F, x, f)
      /\ n # 1 /\ fs[n - 1].of = "compile_" /\ f.path = fs[n - 1].path
  BY TopFrame, FrameIs
<1>2. hs = gs
  BY <1>1 DEF WithEdge
<1>3. DecideOK(E, F, x, f)
  BY <1>1, DecideKept
<1>4. e \in Edges /\ f.edges \in Seq(Edges) /\ Len(f.edges) \in {0, 1}
  <2>1. e \in Edges
    BY DEF Leads, Linked
  <2>2. f.edges \in Seq(Edges)
    BY <1>1 DEF DecideFrames
  <2>3. Len(f.edges) \in Nat /\ Len(f.edges) < 2
    BY <2>2
  <2>4. \A i \in Nat : i < 2 => i \in {0, 1}
    OBVIOUS
  <2> HIDE DEF f
  <2> QED
    BY ONLY <2>1, <2>2, <2>3, <2>4
<1> DEFINE es == Append(f.edges, e)
           k == Len(f.edges) + 1
<1>5. /\ es \in Seq(Edges) /\ Len(es) = k /\ k \in {1, 2} /\ DOMAIN es = 1 .. k /\ DOMAIN f.edges = 1 .. k - 1
      /\ es[k] = e /\ \A j \in 1 .. k - 1 : es[j] = f.edges[j]
  BY <1>4
<1> HIDE DEF es, k
<1>6. /\ g \in DecideFrames /\ g.path = f.path /\ g.vars = f.vars /\ g.lit = f.lit /\ g.key = f.key
      /\ g.depth = f.depth /\ g.edges = es /\ g.of = f.of
  <2>1. g = [f EXCEPT !.edges = es]
    BY <1>1 DEF DecideFrames, es
  <2> HIDE DEF g
  <2> QED
    BY <1>1, <1>5, <2>1 DEF DecideFrames
<1> HIDE DEF g
<1>7. DecideOK(E, F, x, g)
  <2>1. \A j : Sign(g, j) = Sign(f, j)
    BY <1>6 DEF Sign
  <2>2. l = Sign(g, k)
    BY <2>1 DEF k
  <2>3. \A j \in 1 .. k : j \in 1 .. k - 1 \/ j = k
    BY <1>5
  <2>4. \A j \in DOMAIN g.edges :
          /\ Leads(E, g.edges[j], g.vars, Shadow(F, g.path \cup {Sign(g, j)}, g.vars), x)
          /\ Sign(g, j) \in g.edges[j].units
    <3> SUFFICES ASSUME NEW j \in 1 .. k
                 PROVE  /\ Leads(E, es[j], f.vars, Shadow(F, f.path \cup {Sign(g, j)}, f.vars), x)
                        /\ Sign(g, j) \in es[j].units
      BY <1>5, <1>6
    <3>1. CASE j \in 1 .. k - 1
      BY <1>3, <1>5, <2>1, <3>1 DEF DecideOK
    <3>2. CASE j = k
      BY <1>5, <2>2, <3>2
    <3> QED
      BY <2>3, <3>1, <3>2
  <2>5. Len(g.edges) <= 2
    BY <1>5, <1>6
  <2> QED
    BY <1>3, <1>6, <2>4, <2>5 DEF DecideOK
<1>8. /\ gs \in Seq(Frames) /\ Len(gs) = n /\ gs[n] = g /\ \A i \in 1 .. n - 1 : gs[i] = fs[i]
  <2>1. g \in Frames
    BY <1>6 DEF Frames
  <2> QED
    BY <1>1, <2>1, Replaced
<1> HIDE DEF gs
<1>9. FrameOK(E, F, x, gs, n)
  <2>1. gs[n - 1] = fs[n - 1]
    BY <1>1, <1>8
  <2> QED
    BY <1>1, <1>6, <1>7, <1>8, <2>1 DEF FrameOK
<1>10. StackOK(E, F, x, gs) /\ gs[1].path = fs[1].path
  <2>1. g \in Frames /\ g.of = fs[n].of /\ g.path = fs[n].path /\ g.vars = fs[n].vars
    BY <1>6 DEF Frames
  <2>2. gs = [fs EXCEPT ![Len(fs)] = g]
    BY DEF gs
  <2> HIDE DEF f
  <2>3. StackOK(E, F, x, gs)
    BY ONLY Grows(D, E), StackOK(D, F, x, fs), <1>9, <2>1, <2>2, TopChanged
  <2>4. gs[1].path = fs[1].path
    BY ONLY Grows(D, E), StackOK(D, F, x, fs), <1>9, <2>1, <2>2, TopChanged
  <2> QED
    BY <2>3, <2>4
<1> QED
  BY <1>2, <1>10

-----------------------------------------------------------------------------
(* Returning from a call and making one *)

\* The calls below the last one.
LEMMA FrontFacts ==
  ASSUME NEW fs \in Seq(Frames), fs # <<>>
  PROVE  /\ Front(fs) \in Seq(Frames) /\ Len(Front(fs)) = Len(fs) - 1
         /\ \A i \in 1 .. Len(fs) - 1 : Front(fs)[i] = fs[i]
<1> DEFINE n == Len(fs) - 1
<1>1. Len(fs) \in Nat /\ Len(fs) # 0
  BY EmptySeq
<1>2. n \in Nat /\ \A i \in 1 .. n : fs[i] \in Frames
  BY <1>1
<1>3. Front(fs) = SubSeq(fs, 1, n)
  BY DEF Front
<1> HIDE DEF n
<1>4. /\ SubSeq(fs, 1, n) \in Seq(Frames) /\ Len(SubSeq(fs, 1, n)) = n
      /\ \A i \in 1 .. n : SubSeq(fs, 1, n)[i] = fs[i]
  BY <1>2
<1> QED
  BY <1>3, <1>4 DEF n

\* The calls with one more at the end.
LEMMA PushFacts ==
  ASSUME NEW fs \in Seq(Frames), NEW g \in Frames
  PROVE  /\ Append(fs, g) \in Seq(Frames) /\ Len(Append(fs, g)) = Len(fs) + 1
         /\ Append(fs, g)[Len(fs) + 1] = g
         /\ \A i \in 1 .. Len(fs) : Append(fs, g)[i] = fs[i]
OBVIOUS

\* What is left when compile_ returns.
LEMMA CallerOK ==
  ASSUME NEW D, NEW E, Grows(D, E), NEW F, NEW x, NEW fs, StackOK(D, F, x, fs),
         fs[Len(fs)].of = "compile_", Len(fs) # 1
  PROVE  /\ StackOK(E, F, x, Front(fs)) /\ Front(fs)[1].path = fs[1].path /\ Len(Front(fs)) = Len(fs) - 1
         /\ Front(fs)[Len(fs) - 1] = fs[Len(fs) - 1]
<1> DEFINE n == Len(fs)
           m == n - 1
           gs == Front(fs)
<1>1. fs \in Seq(Frames) /\ n \in Nat /\ n \in 1 .. n /\ fs # <<>> /\ Begun(F, fs[n - 1], fs[n])
  BY TopFrame
<1>2. gs \in Seq(Frames) /\ Len(gs) = n - 1 /\ \A i \in 1 .. n - 1 : gs[i] = fs[i]
  BY <1>1, FrontFacts
<1>3. n \in Nat /\ m \in 1 .. Len(fs) /\ m \in 1 .. n - 1 /\ m <= Len(gs) /\ m \in 1 .. m
      /\ (m # 1 => m - 1 \in 1 .. n - 1) /\ \A i \in 1 .. m - 1 : i \in 1 .. n - 1
  <2> HIDE DEF gs
  <2> QED
    BY <1>1, <1>2
<1>4. fs[m].of = "compileDecisionNode" /\ gs[m] = fs[m]
  BY <1>1, <1>2, <1>3 DEF Begun
<1>5. FrameOK(D, F, x, fs, m)
  BY <1>3 DEF StackOK
<1> HIDE DEF gs
<1>6. m # 1 => gs[m - 1] = fs[m - 1]
  BY <1>2, <1>3
<1> HIDE DEF m
<1>7. FrameOK(E, F, x, gs, m)
  <2>1. /\ m # 1 /\ fs[m - 1].of = "compile_" /\ fs[m].path = fs[m - 1].path
        /\ DecideOK(D, F, x, fs[m])
    BY <1>4, <1>5, FrameIs DEF FrameOK
  <2>2. DecideOK(E, F, x, fs[m])
    BY <2>1, DecideKept
  <2> QED
    BY <1>4, <1>6, <2>1, <2>2 DEF FrameOK
<1>8. \A i \in m .. Len(gs) : FrameOK(E, F, x, gs, i)
  BY <1>2, <1>7, <1>1 DEF m
<1>9. (\A i \in 1 .. m - 1 : gs[i] = fs[i]) /\ gs[m].of = fs[m].of /\ gs[m].path = fs[m].path
      /\ (gs[m].of = "compileDecisionNode" => gs[m].vars = fs[m].vars)
  BY <1>2, <1>3, <1>4
<1>10. StackOK(E, F, x, gs) /\ gs[1].path = fs[1].path
  <2>1. StackOK(E, F, x, gs)
    BY ONLY Grows(D, E), StackOK(D, F, x, fs), <1>2, <1>3, <1>8, <1>9, Stacked
  <2>2. gs[1].path = fs[1].path
    BY ONLY Grows(D, E), StackOK(D, F, x, fs), <1>2, <1>3, <1>8, <1>9, Stacked
  <2> QED
    BY <2>1, <2>2
<1> QED
  BY <1>2, <1>4, <1>10 DEF gs, m

\* A call is the same for its parts whatever its todo says.
LEMMA CompileSame ==
  ASSUME NEW D, NEW F, NEW x, NEW f, NEW V, NEW r, CompileOK(D, F, x, f, V, r),
         NEW g \in CompileFrames, g.path = f.path, g.units = f.units, g.free = f.free,
         g.depth = f.depth, g.kids = f.kids
  PROVE  CompileOK(D, F, x, g, V, r)
BY DEF CompileOK, Parted, DepthOK

\* A decision returns its node.
LEMMA KidReturned ==
  ASSUME NEW D, NEW E, Grows(D, E), NEW F, NEW x, NEW fs, StackOK(D, F, x, fs),
         fs[Len(fs)].of = "compileDecisionNode",
         NEW k, Represents(E, k, fs[Len(fs)].vars, Shadow(F, fs[Len(fs)].path, fs[Len(fs)].vars), x)
  PROVE  StackOK(E, F, x, WithKid(Front(fs), k)) /\ WithKid(Front(fs), k)[1].path = fs[1].path
<1> DEFINE n == Len(fs)
           m == n - 1
           d == fs[n]
           f == fs[m]
           g == [f EXCEPT !.kids = Append(@, k)]
           hs == Front(fs)
           gs == [hs EXCEPT ![Len(hs)] = g]
<1>1. /\ fs \in Seq(Frames) /\ n \in Nat /\ n \in 1 .. n /\ d \in DecideFrames /\ fs # <<>> /\ DOMAIN fs = 1 .. n
      /\ DecideOK(D, F, x, d)
      /\ n # 1 /\ f.of = "compile_" /\ d.path = f.path
  BY TopFrame, FrameIs
<1>2. hs \in Seq(Frames) /\ Len(hs) = m /\ \A i \in 1 .. m : hs[i] = fs[i]
  BY Zenon, <1>1, FrontFacts
<1> HIDE DEF hs
<1>3. m \in 1 .. n /\ m \in 1 .. m /\ m # n /\ m + 1 = n /\ (m # 1 => m - 1 \in 1 .. m) /\ m \in Nat
      /\ (\A i \in 1 .. m - 1 : i \in 1 .. m)
  <2>1. n \in Nat /\ n \in 1 .. n /\ n # 1 /\ m = n - 1
    BY <1>1
  <2> HIDE DEF n, m
  <2> QED
    BY ONLY <2>1
<1>4. FrameOK(D, F, x, fs, m) /\ f \in Frames
  <2>1. m \in 1 .. Len(fs)
    BY Zenon, <1>3
  <2> HIDE DEF m
  <2> QED
    BY <1>1, <2>1 DEF StackOK
<1> HIDE DEF m
<1>5. f \in CompileFrames /\ CompileOK(D, F, x, f, Scope(fs, m), <<d.vars>> \o f.todo)
      /\ (m # 1 => Begun(F, fs[m - 1], f))
  <2>1. Rest(fs, m) = <<d.vars>> \o f.todo
    BY <1>3 DEF Rest
  <2> QED
    BY <1>1, <1>4, <2>1, FrameIs DEF FrameOK
<1>6. k \in Nat
  <2>1. k \in 2 .. Len(E) /\ Len(E) \in Nat
    BY DagDrawn DEF Represents, Grows
  <2> QED
    BY <2>1
<1>7. f.todo \in Seq(SUBSET FormulaVars) /\ f.kids \in Seq(Nat) /\ d.vars \in SUBSET FormulaVars
  BY <1>1, <1>5 DEF CompileFrames, DecideFrames
<1>8. /\ g \in CompileFrames /\ g.path = f.path /\ g.units = f.units /\ g.free = f.free
      /\ g.depth = f.depth /\ g.kids = Append(f.kids, k) /\ g.todo = f.todo /\ g.of = f.of
  <2>1. Append(f.kids, k) \in Seq(Nat)
    BY <1>6, <1>7
  <2>2. g = [f EXCEPT !.kids = Append(f.kids, k)]
    BY <1>5 DEF CompileFrames
  <2> HIDE DEF g
  <2> QED
    BY <1>5, <2>1, <2>2 DEF CompileFrames
<1>9. WithKid(Front(fs), k) = gs
  <2>1. hs[Len(hs)] = f
    BY <1>2, <1>3
  <2> QED
    BY <2>1, <1>2, <1>3 DEF WithKid, hs
<1> HIDE DEF g
<1>10. CompileOK(E, F, x, g, Scope(fs, m), f.todo)
  <2>1. Represents(E, k, d.vars, Shadow(F, f.path, d.vars), x)
    BY <1>1
  <2> HIDE DEF f, n, d
  <2> QED
    BY ONLY Grows(D, E), <1>5, <1>7, <1>8, <2>1, CompileStep
<1>11. g \in Frames
  BY <1>8 DEF Frames
<1>12. gs \in Seq(Frames) /\ Len(gs) = m /\ gs[m] = g /\ \A i \in 1 .. m - 1 : gs[i] = fs[i]
  <2>1. hs # <<>>
    BY <1>2, <1>3
  <2>2. gs \in Seq(Frames) /\ Len(gs) = Len(hs) /\ gs[Len(hs)] = g /\ \A i \in 1 .. Len(hs) - 1 : gs[i] = hs[i]
    BY <1>2, <1>11, <2>1, Replaced
  <2> HIDE DEF gs
  <2> QED
    BY <1>2, <1>3, <2>2
<1> HIDE DEF gs
<1>13. FrameOK(E, F, x, gs, m)
  <2>1. m # 1 => gs[m - 1] = fs[m - 1]
    <3>1. m # 1 => m - 1 \in 1 .. m - 1
      BY <1>3
    <3> QED
      BY <1>12, <3>1
  <2>2. Rest(gs, m) = f.todo /\ Scope(gs, m) = Scope(fs, m)
    BY <1>8, <1>12, <2>1 DEF Rest, Scope
  <2>3. m # 1 => Begun(F, gs[m - 1], gs[m])
    BY <1>5, <1>8, <1>12, <2>1 DEF Begun
  <2> QED
    BY <1>1, <1>8, <1>10, <1>12, <2>2, <2>3 DEF FrameOK
<1>14. \A i \in m .. Len(gs) : FrameOK(E, F, x, gs, i)
  BY <1>3, <1>12, <1>13
<1>15. m <= Len(gs) /\ m \in 1 .. Len(fs)
  BY <1>3, <1>12
<1>16. gs[m].of = fs[m].of /\ gs[m].path = fs[m].path /\ (gs[m].of = "compileDecisionNode" => gs[m].vars = fs[m].vars)
  BY <1>1, <1>8, <1>12, FrameIs
<1>17. StackOK(E, F, x, gs) /\ gs[1].path = fs[1].path
  BY ONLY Grows(D, E), StackOK(D, F, x, fs), <1>12, <1>14, <1>15, <1>16, Stacked
<1> QED
  BY <1>9, <1>17

\* A call of compileDecisionNode.
LEMMA DecidePush ==
  ASSUME NEW D, Grows(D, D), NEW F, NEW x, NEW fs, StackOK(D, F, x, fs),
         fs[Len(fs)].of = "compile_", fs[Len(fs)].todo # <<>>,
         NEW d, DecideOK(D, F, x, d), d.vars = Head(fs[Len(fs)].todo), d.path = fs[Len(fs)].path
  PROVE  LET gs == Append([fs EXCEPT ![Len(fs)].todo = Tail(@)], d)
         IN  StackOK(D, F, x, gs) /\ gs[1].path = fs[1].path
<1> DEFINE n == Len(fs)
           f == fs[n]
           g == [f EXCEPT !.todo = Tail(@)]
           hs == [fs EXCEPT ![Len(fs)] = g]
           gs == Append(hs, d)
<1>1. /\ fs \in Seq(Frames) /\ n \in Nat /\ n \in 1 .. n /\ f \in CompileFrames /\ fs # <<>> /\ DOMAIN fs = 1 .. n
      /\ CompileOK(D, F, x, f, Scope(fs, n), f.todo) /\ (n # 1 => Begun(F, fs[n - 1], f))
  BY TopFrame
<1>2. f.todo \in Seq(SUBSET FormulaVars)
  BY <1>1 DEF CompileFrames
<1>3. Tail(f.todo) \in Seq(SUBSET FormulaVars) /\ f.todo = <<d.vars>> \o Tail(f.todo)
  BY <1>2, HeadTail
<1>4. /\ g \in CompileFrames /\ g.path = f.path /\ g.units = f.units /\ g.free = f.free
      /\ g.depth = f.depth /\ g.kids = f.kids /\ g.todo = Tail(f.todo) /\ g.of = f.of
  BY <1>1, <1>3 DEF CompileFrames
<1> HIDE DEF g
<1>5. CompileOK(D, F, x, g, Scope(fs, n), <<d.vars>> \o g.todo)
  <2>1. CompileOK(D, F, x, f, Scope(fs, n), <<d.vars>> \o g.todo)
    BY <1>1, <1>3, <1>4
  <2> HIDE DEF f, n
  <2> QED
    BY ONLY <1>4, <2>1, CompileSame
<1>6. /\ hs \in Seq(Frames) /\ Len(hs) = n /\ hs[n] = g /\ \A i \in 1 .. n - 1 : hs[i] = fs[i]
  <2>1. g \in Frames
    BY <1>4 DEF Frames
  <2> QED
    BY <1>1, <2>1, Replaced
<1> HIDE DEF hs
<1>7. d \in Frames
  BY DEF DecideOK, Frames
<1>8. gs \in Seq(Frames) /\ Len(gs) = n + 1 /\ gs[n + 1] = d /\ gs[n] = g /\ \A i \in 1 .. n - 1 : gs[i] = fs[i]
  <2>1. gs \in Seq(Frames) /\ Len(gs) = n + 1 /\ gs[n + 1] = d /\ \A i \in 1 .. n : gs[i] = hs[i]
    BY <1>6, <1>7, PushFacts
  <2>2. \A i \in 1 .. n - 1 : i \in 1 .. n
    BY <1>1
  <2> HIDE DEF gs
  <2> QED
    BY <1>1, <1>6, <2>1, <2>2
<1> HIDE DEF gs
<1>9. FrameOK(D, F, x, gs, n)
  <2>1. n # 1 => gs[n - 1] = fs[n - 1]
    BY <1>1, <1>8
  <2>2. Rest(gs, n) = <<d.vars>> \o g.todo
    <3>1. n # n + 1
      <4>1. n \in Nat
        BY <1>1
      <4> HIDE DEF n
      <4> QED
        BY ONLY <4>1
    <3> QED
      BY <1>8, <3>1 DEF Rest
  <2>4. Scope(gs, n) = Scope(fs, n)
    BY <2>1 DEF Scope
  <2>3. n # 1 => Begun(F, gs[n - 1], gs[n])
    BY <1>1, <1>4, <1>8, <2>1 DEF Begun
  <2> QED
    BY <1>4, <1>5, <1>8, <2>2, <2>3, <2>4, <1>1 DEF FrameOK
<1>10. FrameOK(D, F, x, gs, n + 1)
  <2>1. n + 1 # 1 /\ (n + 1) - 1 = n
    BY <1>1
  <2>2. d.of = "compileDecisionNode"
    BY FrameIs DEF DecideOK
  <2> QED
    BY <1>4, <1>8, <2>1, <2>2 DEF FrameOK
<1>11. \A i \in n .. Len(gs) : FrameOK(D, F, x, gs, i)
  <2>1. \A i \in n .. n + 1 : i = n \/ i = n + 1
    <3>1. n \in Nat
      BY <1>1
    <3> HIDE DEF n
    <3> QED
      BY ONLY <3>1
  <2> QED
    BY <1>8, <1>9, <1>10, <2>1
<1>12. n <= Len(gs) /\ n \in 1 .. Len(fs)
  BY <1>1, <1>8
<1>13. gs[n].of = fs[n].of /\ gs[n].path = fs[n].path /\ (gs[n].of = "compileDecisionNode" => gs[n].vars = fs[n].vars)
  BY <1>4, <1>8, FrameIs
<1>14. StackOK(D, F, x, gs) /\ gs[1].path = fs[1].path
  BY ONLY Grows(D, D), StackOK(D, F, x, fs), <1>8, <1>11, <1>12, <1>13, Stacked
<1>15. [fs EXCEPT ![Len(fs)].todo = Tail(@)] = hs
  BY <1>1 DEF hs, g
<1> QED
  BY <1>14, <1>15 DEF gs

\* A call of compile_ for a branch.
LEMMA AssumePush ==
  ASSUME NEW D, Grows(D, D), NEW F, NEW x, NEW fs, StackOK(D, F, x, fs),
         fs[Len(fs)].of = "compileDecisionNode",
         NEW f, CompileOK(D, F, x, f, fs[Len(fs)].vars, f.todo), Begun(F, fs[Len(fs)], f)
  PROVE  StackOK(D, F, x, Append(fs, f)) /\ Append(fs, f)[1].path = fs[1].path
<1> DEFINE n == Len(fs)
           d == fs[n]
           gs == Append(fs, f)
<1>1. /\ fs \in Seq(Frames) /\ n \in Nat /\ n \in 1 .. n /\ d \in DecideFrames /\ fs # <<>>
      /\ DecideOK(D, F, x, d)
      /\ n # 1 /\ fs[n - 1].of = "compile_" /\ d.path = fs[n - 1].path
  BY TopFrame, FrameIs
<1>2. f \in CompileFrames /\ f \in Frames /\ f.of = "compile_"
  BY FrameIs DEF CompileOK, Frames
<1>3. gs \in Seq(Frames) /\ Len(gs) = n + 1 /\ gs[n + 1] = f /\ \A i \in 1 .. n : gs[i] = fs[i]
  BY <1>1, <1>2, PushFacts
<1> HIDE DEF gs
<1>4. FrameOK(D, F, x, gs, n)
  <2>1. n - 1 \in 1 .. n
    <3>1. n \in Nat /\ n \in 1 .. n /\ n # 1
      BY <1>1
    <3> HIDE DEF n
    <3> QED
      BY ONLY <3>1
  <2>2. gs[n - 1] = fs[n - 1] /\ gs[n] = d
    BY <1>1, <1>3, <2>1
  <2> QED
    BY <1>1, <2>2 DEF FrameOK
<1>5. FrameOK(D, F, x, gs, n + 1)
  <2>1. n + 1 # 1 /\ (n + 1) - 1 = n
    BY <1>1
  <2>2. Rest(gs, n + 1) = f.todo /\ Scope(gs, n + 1) = d.vars /\ gs[n] = d
    BY <1>1, <1>3, <2>1 DEF Rest, Scope
  <2> QED
    BY <1>2, <1>3, <2>1, <2>2 DEF FrameOK
<1>6. \A i \in n .. Len(gs) : FrameOK(D, F, x, gs, i)
  <2>1. \A i \in n .. n + 1 : i = n \/ i = n + 1
    <3>1. n \in Nat
      BY <1>1
    <3> HIDE DEF n
    <3> QED
      BY ONLY <3>1
  <2> QED
    BY <1>3, <1>4, <1>5, <2>1
<1>7. n <= Len(gs) /\ n \in 1 .. Len(fs) /\ \A i \in 1 .. n - 1 : gs[i] = fs[i]
  BY <1>1, <1>3
<1>8. gs[n].of = fs[n].of /\ gs[n].path = fs[n].path /\ (gs[n].of = "compileDecisionNode" => gs[n].vars = fs[n].vars)
  BY <1>1, <1>3
<1>9. StackOK(D, F, x, gs) /\ gs[1].path = fs[1].path
  BY ONLY Grows(D, D), StackOK(D, F, x, fs), <1>3, <1>6, <1>7, <1>8, Stacked
<1> QED
  BY <1>9 DEF gs

-----------------------------------------------------------------------------
(* The invariant *)

\* The depth is no limit.
Unlimited == task.depth >= NbVars - 1

\* A node of the cache is an upper bound for every call with its key.
CacheOK(D, F, x, ch) ==
  \A k \in DOMAIN ch : \E C \in SUBSET FormulaVars, A \in SUBSET AllLits :
    /\ Separated(F, A, C) /\ ModelsOf(F, A) # {} /\ k = KeyIn(F, C, A)
    /\ Represents(D, ch[k], C, Shadow(F, A, C), x)

RootOK(D, S, x) ==
  Mean(D)[1] \subseteq Over(FormulaVars) /\ S \subseteq Mean(D)[1] /\ (x => Mean(D)[1] \subseteq S)

D4dType ==
  /\ phase \in {"start", "compile", "printed"}
  /\ task \in [formula : SUBSET SUBSET AllLits, depth : Nat, cached : BOOLEAN]
  /\ clauses \in SUBSET SUBSET AllLits

D4dInv ==
  /\ D4dType
  /\ DagOK(dag)
  /\ phase = "start" => cache = <<>>
  /\ phase = "compile" => /\ CacheOK(dag, clauses, Unlimited, cache)
                          /\ StackOK(dag, clauses, Unlimited, calls)
                          /\ ModelsOf(clauses, calls[1].path) = ModelsOf(task.formula, {})
  /\ phase = "printed" => RootOK(dag, ModelsOf(task.formula, {}), Unlimited)

\* A sound circuit is kept by doing nothing.
LEMMA GrowsSelf ==
  ASSUME NEW D, DagOK(D)
  PROVE  Grows(D, D)
<1>1. DagShape(D) /\ Len(D) \in Nat
  BY DagDrawn DEF DagOK
<1> QED
  BY <1>1 DEF Grows

\* What is remembered stays true when the circuit grows.
LEMMA CacheKept ==
  ASSUME NEW D, NEW E, Grows(D, E), NEW F, NEW x, NEW ch, CacheOK(D, F, x, ch)
  PROVE  CacheOK(E, F, x, ch)
BY PromisesKept DEF CacheOK

\* A node is remembered.
LEMMA CacheMore ==
  ASSUME NEW D, NEW F, NEW x, NEW ch, CacheOK(D, F, x, ch),
         NEW C \in SUBSET FormulaVars, NEW A \in SUBSET AllLits,
         Separated(F, A, C), ModelsOf(F, A) # {}, NEW k, k = KeyIn(F, C, A),
         NEW n, Represents(D, n, C, Shadow(F, A, C), x)
  PROVE  CacheOK(D, F, x, [y \in {k} \cup DOMAIN ch |-> IF y = k THEN n ELSE ch[y]])
<1> DEFINE new == [y \in {k} \cup DOMAIN ch |-> IF y = k THEN n ELSE ch[y]]
<1>1. DOMAIN new = {k} \cup DOMAIN ch /\ new[k] = n /\ \A y \in DOMAIN ch : y # k => new[y] = ch[y]
  OBVIOUS
<1> HIDE DEF new
<1> SUFFICES ASSUME NEW y \in DOMAIN new
             PROVE  \E C2 \in SUBSET FormulaVars, A2 \in SUBSET AllLits :
                      /\ Separated(F, A2, C2) /\ ModelsOf(F, A2) # {} /\ y = KeyIn(F, C2, A2)
                      /\ Represents(D, new[y], C2, Shadow(F, A2, C2), x)
  BY DEF CacheOK, new
<1>2. CASE y = k
  BY <1>1, <1>2
<1>3. CASE y # k
  <2>1. y \in DOMAIN ch /\ new[y] = ch[y]
    BY <1>1, <1>3
  <2> QED
    BY <2>1 DEF CacheOK
<1> QED
  BY <1>2, <1>3

\* The circuit the compiler starts with.
LEMMA FirstDag ==
  LET D == <<Node("o", <<>>), Node("t", <<>>), Node("f", <<>>)>>
  IN  DagOK(D)
<1> DEFINE D == <<Node("o", <<>>), Node("t", <<>>), Node("f", <<>>)>>
<1>1. \A t \in {"o", "t", "f"} : Node(t, <<>>) \in Shape /\ Node(t, <<>>).children = <<>> /\ Node(t, <<>>).type = t
  <2>1. <<>> \in Seq(Edges)
    OBVIOUS
  <2> QED
    BY <2>1 DEF Node, Shape
<1>2. DOMAIN <<>> = {}
  OBVIOUS
<1>3. \A t \in {"o", "t", "f"} : NodeShape(D, Node(t, <<>>)) /\ NodeSound(D, Node(t, <<>>))
  <2> HIDE DEF D
  <2> QED
    BY <1>1, <1>2 DEF NodeShape, NodeSound, Split
<1>4. /\ Len(D) = 3 /\ D[1] = Node("o", <<>>) /\ D[2] = Node("t", <<>>) /\ D[3] = Node("f", <<>>)
      /\ D \in Seq(Shape)
  BY <1>1
<1> HIDE DEF D
<1>5. \A n \in 1 .. Len(D) : n = 1 \/ n = 2 \/ n = 3
  BY <1>4
<1>6. \A n \in 1 .. Len(D) : NodeShape(D, D[n]) /\ NodeSound(D, D[n]) /\ D[n].children = <<>>
  BY <1>1, <1>3, <1>4, <1>5
<1>7. DagShape(D)
  BY <1>1, <1>2, <1>4, <1>6 DEF DagShape
<1> QED
  BY <1>6, <1>7 DEF DagOK, D

\* The invariant holds before the compiler starts.
LEMMA InitInv == D4dInit => D4dInv
<1> SUFFICES ASSUME D4dInit PROVE D4dInv
  OBVIOUS
<1>1. D4dType
  BY DEF D4dInit, D4dType
<1>2. DagOK(dag)
  BY FirstDag DEF D4dInit
<1> QED
  BY <1>1, <1>2 DEF D4dInit, D4dInv

\* A task of Tasks.
LEMMA TaskFacts ==
  ASSUME NEW t \in Tasks
  PROVE  t \in [formula : SUBSET SUBSET AllLits, depth : Nat, cached : BOOLEAN]
BY TasksAssumption DEF AllLits

\* Literals that all models share may be taken out of the clauses first.
LEMMA ResidualTwice ==
  ASSUME NEW T \in SUBSET SUBSET AllLits, NEW U \in SUBSET AllLits, NEW W \in SUBSET U,
         \A l \in U : -l \notin U
  PROVE  Residual(Residual(T, W), U) = Residual(T, U)
<1> DEFINE Cut(c, A) == {l \in c : -l \notin A}
<1>1. \A c \in SUBSET AllLits : Cut(Cut(c, W), U) = Cut(c, U)
  OBVIOUS
<1>2. \A c \in SUBSET AllLits : c \cap U = {} <=> c \cap W = {} /\ Cut(c, W) \cap U = {}
  <2> SUFFICES ASSUME NEW c \in SUBSET AllLits PROVE c \cap U = {} <=> c \cap W = {} /\ Cut(c, W) \cap U = {}
    OBVIOUS
  <2>1. \A l \in c : l \in U => l \in Cut(c, W)
    OBVIOUS
  <2> QED
    BY <2>1
<1>3. Residual(T, W) = {Cut(c, W) : c \in {d \in T : d \cap W = {}}}
  BY DEF Residual
<1>4. Residual(T, U) = {Cut(c, U) : c \in {d \in T : d \cap U = {}}}
  BY DEF Residual
<1>5. Residual(Residual(T, W), U) = {Cut(c, U) : c \in {d \in Residual(T, W) : d \cap U = {}}}
  BY DEF Residual
<1> HIDE DEF Cut
<1>6. ASSUME NEW c \in Residual(T, U) PROVE c \in Residual(Residual(T, W), U)
  <2>1. PICK d \in T : d \cap U = {} /\ c = Cut(d, U)
    BY <1>4, <1>6
  <2>2. d \cap W = {} /\ Cut(d, W) \cap U = {} /\ c = Cut(Cut(d, W), U)
    BY <1>1, <1>2, <2>1
  <2>3. Cut(d, W) \in Residual(T, W)
    BY <1>3, <2>2
  <2> QED
    BY <1>5, <2>2, <2>3
<1>7. ASSUME NEW c \in Residual(Residual(T, W), U) PROVE c \in Residual(T, U)
  <2>1. PICK e \in Residual(T, W) : e \cap U = {} /\ c = Cut(e, U)
    BY <1>5, <1>7
  <2>2. PICK d \in T : d \cap W = {} /\ e = Cut(d, W)
    BY <1>3
  <2>3. d \cap U = {} /\ c = Cut(d, U)
    BY <1>1, <1>2, <2>1, <2>2
  <2> QED
    BY <1>4, <2>3
<1> QED
  BY <1>6, <1>7

\* The models with those literals stay the same.
LEMMA ModelsTwice ==
  ASSUME NEW T \in SUBSET SUBSET AllLits, NEW U, NEW W \in SUBSET U
  PROVE  ModelsOf(Residual(T, W), U) = ModelsOf(T, U)
<1> SUFFICES ASSUME NEW m \in Over(FormulaVars), U \subseteq m
             PROVE  (\A c \in Residual(T, W) : c \cap m # {}) <=> (\A c \in T : c \cap m # {})
  BY DEF ModelsOf
<1>1. \A l \in AllLits : l \in m <=> -l \notin m
  <2>1. FormulaVars \in SUBSET FormulaVars /\ AllLits = Lits(FormulaVars)
    BY DEF AllLits
  <2> QED
    BY <2>1, OverFacts
<1>2. ASSUME NEW c \in T, \A d \in Residual(T, W) : d \cap m # {} PROVE c \cap m # {}
  <2>1. CASE c \cap W = {}
    <3>1. {l \in c : -l \notin W} \in Residual(T, W)
      BY <2>1 DEF Residual
    <3> QED
      BY <1>2, <3>1
  <2>2. CASE c \cap W # {}
    BY <2>2
  <2> QED
    BY <2>1, <2>2
<1>3. ASSUME NEW d \in Residual(T, W), \A c \in T : c \cap m # {} PROVE d \cap m # {}
  <2>1. PICK c \in T : d = {l \in c : -l \notin W}
    BY DEF Residual
  <2>2. PICK l \in c : l \in m
    BY <1>3
  <2>3. -l \notin W
    BY <1>1, <2>2
  <2> QED
    BY <2>1, <2>2, <2>3
<1> QED
  BY <1>2, <1>3

-----------------------------------------------------------------------------
(* Starting: compile_ and a formula without a model *)

\* A call of compile_ starts with all of its parts to compile.
LEMMA CallStarts ==
  ASSUME NEW D, NEW F, NEW V, NEW path, NEW U, NEW depth, NEW x, CallReady(F, V, path, U, depth, x),
         NEW f, f = CallOf(F, V, path, U, depth)
  PROVE  CompileOK(D, F, x, f, V, f.todo) /\ f.path = path \cup U /\ f.units = U /\ f \in CompileFrames
<1>1. /\ f \in CompileFrames /\ f.path = path \cup U /\ f.units = U /\ f.kids = <<>>
      /\ Parted(F, f, V, f.todo, x) /\ DepthOK(f, f.todo, x)
  BY CallParted
<1>2. <<>> \in Seq(SUBSET FormulaVars) /\ <<>> \in Seq(Nat) /\ Len(<<>>) = 0 /\ DOMAIN <<>> = {}
  OBVIOUS
<1>3. f.todo \in Seq(SUBSET FormulaVars)
  BY <1>1 DEF CompileFrames
<1>4. <<>> \o f.todo = f.todo
  BY <1>3, ConcatEmptySeq
<1>5. KidsStand(D, F, f.path, f.kids, <<>>, x)
  BY <1>1, <1>2 DEF KidsStand
<1> QED
  BY <1>1, <1>2, <1>4, <1>5 DEF CompileOK

\* The next part of a call.
LEMMA HeadPart ==
  ASSUME NEW D, NEW F, NEW x, NEW f, NEW V, f.todo # <<>>, CompileOK(D, F, x, f, V, f.todo)
  PROVE  LET C == Head(f.todo)
         IN  /\ C \in SUBSET FormulaVars /\ f.path \in SUBSET AllLits
             /\ Separated(F, f.path, C) /\ ModelsOf(F, f.path) # {}
             /\ f.depth \in Nat /\ f.depth # 0 /\ (x => Cardinality(C) <= f.depth + 1)
<1> DEFINE C == Head(f.todo)
<1>1. f.todo \in Seq(SUBSET FormulaVars)
  BY DEF CompileOK, CompileFrames
<1>2. PICK done \in Seq(SUBSET FormulaVars) :
        Parted(F, f, V, done \o f.todo, x) /\ DepthOK(f, done \o f.todo, x)
  BY DEF CompileOK
<1> DEFINE ps == done \o f.todo
           j == Len(done) + 1
<1>3. j \in DOMAIN ps /\ ps[j] = C
  <2> DEFINE t == f.todo
  <2>1. t \in Seq(SUBSET FormulaVars) /\ t # <<>>
    BY <1>1
  <2> HIDE DEF t
  <2>2. Len(t) \in Nat /\ Len(t) # 0 /\ Head(t) = t[1] /\ Len(done) \in Nat
    BY <2>1
  <2>3. /\ Len(done \o t) = Len(done) + Len(t) /\ DOMAIN (done \o t) = 1 .. Len(done) + Len(t)
        /\ \A i \in 1 .. Len(done) + Len(t) : (done \o t)[i] = IF i <= Len(done) THEN done[i] ELSE t[i - Len(done)]
    BY <2>1, ConcatProperties
  <2>4. j \in 1 .. Len(done) + Len(t) /\ ~(j <= Len(done)) /\ j - Len(done) = 1
    BY <2>2
  <2>5. (done \o t)[j] = t[1]
    BY <2>3, <2>4
  <2> QED
    BY <2>2, <2>3, <2>4, <2>5 DEF t
<1> HIDE DEF j
<1>4. Separated(F, f.path, C) /\ ModelsOf(F, f.path) # {} /\ f.path \in SUBSET AllLits
  <2> HIDE DEF ps, C
  <2> QED
    BY <1>2, <1>3 DEF Parted, ps
<1>5. ps # <<>> /\ C \in Range(ps)
  BY <1>3 DEF Range
<1>6. f.depth \in Nat /\ f.depth # 0
  BY <1>2, <1>5 DEF DepthOK
<1>7. C \in SUBSET FormulaVars
  BY <1>4 DEF Separated
<1>8. x => Cardinality(C) <= f.depth + 1
  <2> DEFINE P == UNION Range(ps)
  <2>1. x => Cardinality(P) <= f.depth + 1
    BY <1>2 DEF DepthOK
  <2>2. C \subseteq P
    BY <1>5
  <2>3. P \in SUBSET FormulaVars
    <3>1. ps \in Seq(SUBSET FormulaVars)
      BY <1>1
    <3> HIDE DEF ps
    <3> QED
      BY <3>1 DEF Range
  <2> HIDE DEF P, C
  <2>4. Cardinality(C) <= Cardinality(P) /\ Cardinality(C) \in Nat /\ Cardinality(P) \in Nat
    BY <1>7, <2>2, <2>3, VarSets
  <2> QED
    BY <1>6, <2>1, <2>4
<1> QED
  BY <1>4, <1>6, <1>7, <1>8

\* Key is the key in the clauses of the compiler.
LEMMA KeyIs == \A C, A : Key(C, A) = KeyIn(clauses, C, A)
BY DEF Key, KeyIn

\* A branch without a model.
LEMMA FalseEdge ==
  ASSUME NEW D, DagOK(D), NEW L \in SUBSET AllLits
  PROVE  LET e == Edge(FALSENODE, L, <<>>)
         IN  Linked(D, e) /\ Clear(D, e) /\ Via(D, e) = {} /\ e.units = L
<1> DEFINE e == Edge(FALSENODE, L, <<>>)
<1>1. e.dst = 3 /\ e.units = L /\ e.free = <<>>
  BY DEF Edge, FALSENODE
<1>2. L \in SUBSET (Int \ {0})
  BY LitFacts
<1>3. e \in Edges
  <2>1. <<>> \in Seq(Nat \ {0}) /\ 3 \in Nat
    OBVIOUS
  <2> QED
    BY <1>2, <2>1 DEF Edge, Edges, FALSENODE
<1> HIDE DEF e
<1>4. 3 \in 2 .. Len(D)
  <2>1. Len(D) \in Nat /\ Len(D) >= 3
    BY DagDrawn DEF DagOK, DagShape
  <2> QED
    BY <2>1
<1>5. IsInjective(<<>>) /\ Range(<<>>) = {}
  BY DEF IsInjective, Range
<1>6. Linked(D, e)
  BY <1>1, <1>3, <1>4, <1>5 DEF Linked, Apart
<1>7. Mean(D)[3] = {}
  BY MeanOf DEF DagOK
<1>8. Clear(D, e)
  BY <1>1, <1>7 DEF Clear
<1>9. Via(D, e) = {}
  <2>1. Via(D, e) = Passing(e, {})
    BY <1>1, <1>7, ViaIs
  <2> QED
    BY <2>1 DEF Passing
<1> QED
  BY <1>1, <1>6, <1>8, <1>9 DEF e

\* The constructor and the first call of compile_.
LEMMA CompileInv ==
  ASSUME D4dInv, NEW t \in Tasks, Compile(t)
  PROVE  D4dInv'
<1> DEFINE T == t.formula
           V == FormulaVars
           x == t.depth >= NbVars - 1
<1>1. t \in [formula : SUBSET SUBSET AllLits, depth : Nat, cached : BOOLEAN] /\ T \in SUBSET SUBSET AllLits
      /\ t.depth \in Nat
  BY TaskFacts
<1>2. /\ phase = "start" /\ phase' = "compile" /\ task' = t /\ dag' = dag /\ cache' = cache /\ ModelsOf(T, {}) # {}
  BY DEF Compile
<1>3. PICK U \in UnitSets(T, {}, V) :
        /\ \E U0 \in UnitSets(T, {}, V) : U0 \subseteq U /\ clauses' = Residual(T, U0)
        /\ calls' = <<CallOf(T, V, {}, U, t.depth)>>
  BY DEF Compile
<1>4. PICK U0 \in UnitSets(T, {}, V) : U0 \subseteq U /\ clauses' = Residual(T, U0)
  BY <1>3
<1> DEFINE F == Residual(T, U0)
           f == CallOf(F, V, {}, U, t.depth)
<1>5. {} \in SUBSET AllLits /\ V \in SUBSET FormulaVars /\ {} \cup U = U
  OBVIOUS
<1>6. /\ U \in SUBSET Lits(V) /\ U \in SUBSET AllLits
      /\ ModelsOf(T, {} \cup U) = ModelsOf(T, {}) /\ Propagated(T, {} \cup U)
  <2>1. U \in UnitSets(T, {}, V)
    OBVIOUS
  <2> HIDE DEF T, V
  <2> QED
    BY ONLY <1>5, <2>1, UnitsFacts
<1>7. U0 \in SUBSET AllLits /\ F \in SUBSET SUBSET AllLits
  <2>1. U0 \in SUBSET AllLits
    <3>1. U0 \in UnitSets(T, {}, V)
      OBVIOUS
    <3> HIDE DEF T, V
    <3> QED
      BY ONLY <1>5, <3>1, UnitsFacts
  <2>2. ASSUME NEW c \in Residual(T, U0) PROVE c \in SUBSET AllLits
    <3>1. c \in Residual(T, U0)
      OBVIOUS
    <3> HIDE DEF T
    <3> QED
      BY ONLY <1>1, <2>1, <3>1, ResidualFacts
  <2> QED
    BY <2>1, <2>2
<1>8. ModelsOf(T, U) = ModelsOf(T, {}) /\ Propagated(T, U)
  BY <1>5, <1>6
<1>9. \A l \in U : -l \notin U
  <2>1. PICK m : m \in ModelsOf(T, U)
    BY <1>2, <1>8
  <2>2. (\A l \in AllLits : l \in m <=> -l \notin m) /\ U \subseteq m
    BY <2>1, ModelIs
  <2> QED
    BY <1>6, <2>2
<1>10. Residual(F, U) = Residual(T, U)
  BY <1>1, <1>4, <1>6, <1>9, ResidualTwice
<1>11. ModelsOf(F, U) = ModelsOf(T, {})
  BY <1>1, <1>4, <1>8, ModelsTwice
<1>12. Propagated(F, U)
  BY <1>8, <1>10 DEF Propagated
<1>13. CallOf(T, V, {}, U, t.depth) = f
  BY <1>5, <1>10 DEF CallOf
<1> HIDE DEF F, f
<1>14. Connected(Residual(F, U), V)
  BY DEF Connected, VarsOf
<1>15. V \cap VarsOf({}) = {}
  BY DEF VarsOf
<1>16. x => Cardinality(V \ VarsOf(U)) <= t.depth + 1
  <2> DEFINE W == V \ VarsOf(U)
  <2>1. W \in SUBSET V
    OBVIOUS
  <2>2. Cardinality(V) = NbVars /\ NbVars \in Nat
    BY TasksAssumption, FS_Interval DEF FormulaVars
  <2> HIDE DEF W
  <2>3. Cardinality(W) <= NbVars /\ Cardinality(W) \in Nat
    BY <2>1, <2>2, VarSets
  <2> QED
    BY <1>1, <2>2, <2>3 DEF W
<1>17. CompileOK(dag, F, x, f, V, f.todo) /\ f.path = U /\ f \in CompileFrames
  <2>1. /\ V \cap VarsOf({}) = {} /\ ModelsOf(F, {} \cup U) # {} /\ Propagated(F, {} \cup U)
        /\ Connected(Residual(F, {} \cup U), V) /\ x \in BOOLEAN
    BY <1>2, <1>5, <1>11, <1>12, <1>14, <1>15
  <2>2. f = CallOf(F, V, {}, U, t.depth)
    BY DEF f
  <2> DEFINE dep == t.depth
             p == {}
  <2>3. CallReady(F, V, p, U, dep, x) /\ f = CallOf(F, V, p, U, dep)
    BY <1>1, <1>5, <1>6, <1>7, <1>16, <2>1, <2>2 DEF CallReady
  <2>4. p \cup U = U
    OBVIOUS
  <2> HIDE DEF x, V, dep, p
  <2>5. CompileOK(dag, F, x, f, V, f.todo)
    BY ONLY <2>3, CallStarts
  <2>6. f.path = p \cup U
    BY <2>3 DEF CallOf
  <2>7. f \in CompileFrames
    BY ONLY <2>3, <2>5, CallStarts
  <2> QED
    BY <2>4, <2>5, <2>6, <2>7
<1>18. calls' = <<f>> /\ clauses' = F
  BY <1>3, <1>4, <1>13 DEF F
<1>19. StackOK(dag, F, x, <<f>>)
  <2> DEFINE fs == <<f>>
  <2>1. fs \in Seq(Frames) /\ Len(fs) = 1 /\ fs[1] = f
    BY <1>17 DEF Frames
  <2> HIDE DEF fs
  <2>2. Rest(fs, 1) = f.todo /\ Scope(fs, 1) = V
    BY <2>1 DEF Rest, Scope
  <2>3. FrameOK(dag, F, x, fs, 1)
    BY <1>17, <2>1, <2>2, FrameIs DEF FrameOK
  <2>4. \A i \in 1 .. Len(fs) : i = 1
    BY <2>1
  <2>5. Len(fs) >= 1
    BY <2>1
  <2>6. StackOK(dag, F, x, fs)
    BY <2>1, <2>3, <2>4, <2>5 DEF StackOK
  <2> QED
    BY <2>6 DEF fs
<1>20. D4dType'
  BY <1>1, <1>2, <1>7, <1>18 DEF D4dType
<1>21. DagOK(dag)' /\ cache' = <<>>
  BY <1>2 DEF D4dInv
<1>22. CacheOK(dag, F, x, <<>>)
  <2>1. DOMAIN <<>> = {}
    OBVIOUS
  <2> QED
    BY <2>1 DEF CacheOK
<1>23. Unlimited' = x
  BY <1>2 DEF Unlimited
<1>24. ModelsOf(clauses, calls[1].path)' = ModelsOf(task.formula, {})'
  BY <1>2, <1>11, <1>17, <1>18
<1>25. CacheOK(dag, clauses, Unlimited, cache)' /\ StackOK(dag, clauses, Unlimited, calls)'
  BY <1>2, <1>18, <1>19, <1>21, <1>22, <1>23
<1> QED
  BY <1>2, <1>20, <1>21, <1>24, <1>25 DEF D4dInv

\* A formula without a model: the circuit printed has none.
LEMMA RefuteInv ==
  ASSUME D4dInv, NEW t \in Tasks, Refute(t)
  PROVE  D4dInv'
<1>1. t \in [formula : SUBSET SUBSET AllLits, depth : Nat, cached : BOOLEAN]
  BY TaskFacts
<1>2. /\ phase' = "printed" /\ task' = t /\ clauses' = clauses /\ ModelsOf(t.formula, {}) = {}
  BY DEF Refute
<1> PICK m \in Over(FormulaVars) :
      \E L \in SUBSET m : dag' = [dag EXCEPT ![1].children = <<Edge(FALSENODE, L, <<>>)>>]
  BY DEF Refute
<1>3. PICK L \in SUBSET m : dag' = [dag EXCEPT ![1].children = <<Edge(FALSENODE, L, <<>>)>>]
  OBVIOUS
<1> DEFINE e == Edge(FALSENODE, L, <<>>)
<1>4. L \in SUBSET AllLits
  <2>1. m \in SUBSET Lits(FormulaVars)
    BY OverFacts
  <2> QED
    BY <2>1 DEF AllLits
<1>5. DagOK(dag)
  BY DEF D4dInv
<1>6. Linked(dag, e) /\ Clear(dag, e) /\ Via(dag, e) = {}
  BY <1>4, <1>5, FalseEdge
<1> HIDE DEF e
<1>7. DagOK(dag') /\ Mean(dag')[1] = {}
  <2>1. dag' = [dag EXCEPT ![1].children = <<e>>]
    BY <1>3 DEF e
  <2> QED
    BY <1>5, <1>6, <2>1, RootSet
<1>8. D4dType'
  BY <1>1, <1>2 DEF D4dType, D4dInv
<1>9. RootOK(dag', {}, Unlimited')
  BY <1>7 DEF RootOK
<1>10. ModelsOf(task.formula, {})' = {}
  BY <1>2
<1> QED
  BY <1>2, <1>7, <1>8, <1>9, <1>10 DEF D4dInv

-----------------------------------------------------------------------------
(* Steps of compile_ and of a decision *)

\* What the invariant says of a running compiler.
LEMMA Running ==
  ASSUME D4dInv, phase = "compile"
  PROVE  /\ D4dType /\ DagOK(dag) /\ Grows(dag, dag) /\ clauses \in SUBSET SUBSET AllLits
         /\ CacheOK(dag, clauses, Unlimited, cache) /\ StackOK(dag, clauses, Unlimited, calls)
         /\ ModelsOf(clauses, calls[1].path) = ModelsOf(task.formula, {})
         /\ Unlimited \in BOOLEAN
BY GrowsSelf DEF D4dInv, D4dType, Unlimited

\* A step of compile_ or compileDecisionNode that does not end the compilation.
LEMMA StillRunning ==
  ASSUME D4dInv, phase = "compile", UNCHANGED <<phase, task, clauses>>,
         DagOK(dag'), CacheOK(dag', clauses, Unlimited, cache'), StackOK(dag', clauses, Unlimited, calls'),
         calls'[1].path = calls[1].path
  PROVE  D4dInv'
<1>1. Unlimited' = Unlimited
  BY DEF Unlimited
<1>2. D4dType'
  BY DEF D4dType, D4dInv
<1> QED
  BY <1>1, <1>2, Running DEF D4dInv

\* A component found in the cache, whatever the depth it was compiled with.
LEMMA ReuseInv ==
  ASSUME D4dInv, Reuse
  PROVE  D4dInv'
<1> DEFINE f == calls[Len(calls)]
           C == Head(f.todo)
           k == Key(C, f.path)
           x == Unlimited
           F == clauses
<1>1. /\ phase = "compile" /\ f.of = "compile_" /\ f.todo # <<>> /\ k \in DOMAIN cache
      /\ calls' = [WithKid(calls, cache[k]) EXCEPT ![Len(calls)].todo = Tail(@)]
      /\ UNCHANGED <<phase, task, clauses, dag, cache>>
  BY DEF Reuse, Active
<1>2. /\ DagOK(dag) /\ Grows(dag, dag) /\ F \in SUBSET SUBSET AllLits
      /\ CacheOK(dag, F, x, cache) /\ StackOK(dag, F, x, calls)
  BY <1>1, Running
<1>3. CompileOK(dag, F, x, f, Scope(calls, Len(calls)), f.todo)
  BY <1>1, <1>2, TopFrame
<1>4. /\ C \in SUBSET FormulaVars /\ f.path \in SUBSET AllLits
      /\ Separated(F, f.path, C) /\ ModelsOf(F, f.path) # {}
  BY <1>1, <1>3, HeadPart
<1>5. PICK E \in SUBSET FormulaVars, A \in SUBSET AllLits :
        /\ Separated(F, A, E) /\ ModelsOf(F, A) # {} /\ k = KeyIn(F, E, A)
        /\ Represents(dag, cache[k], E, Shadow(F, A, E), x)
  BY <1>1, <1>2 DEF CacheOK
<1>6. KeyIn(F, C, f.path) = KeyIn(F, E, A)
  BY <1>5, KeyIs
<1> HIDE DEF C, f
<1>7. C = E /\ Shadow(F, f.path, C) = Shadow(F, A, E)
  BY ONLY <1>2, <1>4, <1>5, <1>6, CacheSame
<1>8. Represents(dag, cache[k], C, Shadow(F, f.path, C), x)
  BY <1>5, <1>7
<1>9. StackOK(dag, F, x, calls') /\ calls'[1].path = calls[1].path
  <2> DEFINE n == cache[k]
  <2>1. /\ Represents(dag, n, Head(calls[Len(calls)].todo),
                      Shadow(F, calls[Len(calls)].path, Head(calls[Len(calls)].todo)), x)
        /\ calls' = Advanced(calls, n)
        /\ calls[Len(calls)].of = "compile_" /\ calls[Len(calls)].todo # <<>>
        /\ Grows(dag, dag) /\ StackOK(dag, F, x, calls)
    BY <1>1, <1>2, <1>8 DEF f, C, Advanced
  <2> HIDE DEF n, F, x
  <2>2. StackOK(dag, F, x, calls')
    BY ONLY <2>1, KidDone
  <2>3. calls'[1].path = calls[1].path
    BY ONLY <2>1, KidDone
  <2> QED
    BY <2>2, <2>3
<1>10. dag' = dag /\ cache' = cache
  BY <1>1
<1> QED
  BY <1>1, <1>2, <1>9, <1>10, StillRunning

\* A decision is started.
LEMMA DecideInv ==
  ASSUME D4dInv, NEW l \in AllLits, Decide(l)
  PROVE  D4dInv'
<1> DEFINE f == calls[Len(calls)]
           C == Head(f.todo)
           x == Unlimited
           F == clauses
           d == [of |-> "compileDecisionNode", vars |-> C, lit |-> l, path |-> f.path,
                 depth |-> f.depth - 1, key |-> Key(C, f.path), edges |-> <<>>]
<1>1. /\ phase = "compile" /\ f.of = "compile_" /\ f.todo # <<>> /\ l \in Lits(C)
      /\ calls' = Append([calls EXCEPT ![Len(calls)].todo = Tail(@)], d)
      /\ UNCHANGED <<phase, task, clauses, dag, cache>>
  BY DEF Decide, Missed, Active
<1>2. /\ DagOK(dag) /\ Grows(dag, dag) /\ F \in SUBSET SUBSET AllLits
      /\ CacheOK(dag, F, x, cache) /\ StackOK(dag, F, x, calls)
  BY <1>1, Running
<1>3. CompileOK(dag, F, x, f, Scope(calls, Len(calls)), f.todo)
  BY <1>1, <1>2, TopFrame
<1>4. /\ C \in SUBSET FormulaVars /\ f.path \in SUBSET AllLits
      /\ Separated(F, f.path, C) /\ ModelsOf(F, f.path) # {}
      /\ f.depth \in Nat /\ f.depth # 0 /\ (x => Cardinality(C) <= f.depth + 1)
  BY <1>1, <1>3, HeadPart
<1> HIDE DEF C, f
<1>5. Key(C, f.path) = KeyIn(F, C, f.path) /\ KeyIn(F, C, f.path) \in Keys
  <2> DEFINE touched == {c \in F : \E k \in c : -k \in f.path}
  <2>1. touched \in SUBSET SUBSET AllLits
    BY <1>2
  <2>2. KeyIn(F, C, f.path) = <<C, {c \in Residual(touched, f.path) : VarsOf(c) \subseteq C}>>
    BY DEF KeyIn
  <2> HIDE DEF touched
  <2>3. \A c \in Residual(touched, f.path) : c \in SUBSET AllLits
    <3> DEFINE A == f.path
    <3>1. A \in SUBSET AllLits
      BY <1>4
    <3> HIDE DEF A
    <3>2. \A c \in Residual(touched, A) : c \in SUBSET AllLits
      BY ONLY <2>1, <3>1, ResidualFacts
    <3> QED
      BY <3>2 DEF A
  <2> QED
    BY <1>4, <2>2, <2>3, KeyIs DEF Keys
<1>6. d \in DecideFrames
  <2>1. f.depth - 1 \in Nat
    BY <1>4
  <2>2. <<>> \in Seq(Edges)
    OBVIOUS
  <2> QED
    BY <1>4, <1>5, <2>1, <2>2 DEF DecideFrames
<1>7. /\ d.path = f.path /\ d.vars = C /\ d.lit = l /\ d.key = Key(C, f.path) /\ d.depth = f.depth - 1
      /\ d.edges = <<>>
  OBVIOUS
<1> HIDE DEF d
<1>8. DecideOK(dag, F, x, d)
  <2>1. x => Cardinality(d.vars) <= d.depth + 2
    <3>1. (f.depth - 1) + 2 = f.depth + 1
      BY <1>4
    <3> QED
      BY <1>4, <1>7, <3>1
  <2>2. Len(d.edges) = 0 /\ DOMAIN d.edges = {}
    BY <1>7
  <2>3. Len(d.edges) <= 2
    BY <2>2
  <2> QED
    BY <1>1, <1>4, <1>5, <1>6, <1>7, <2>1, <2>2, <2>3 DEF DecideOK
<1>9. StackOK(dag, F, x, calls') /\ calls'[1].path = calls[1].path
  BY <1>1, <1>2, <1>7, <1>8, DecidePush DEF f, C
<1>10. dag' = dag /\ cache' = cache
  BY <1>1
<1> QED
  BY <1>1, <1>2, <1>9, <1>10, StillRunning

\* A component whose variables are all known by now.
LEMMA KnownMeanwhileInv ==
  ASSUME D4dInv, KnownMeanwhile
  PROVE  D4dInv'
<1> DEFINE f == calls[Len(calls)]
           C == Head(f.todo)
           k == Key(C, f.path)
           x == Unlimited
           F == clauses
           n == Len(dag')
<1>1. phase = "compile" /\ f.of = "compile_" /\ f.todo # <<>> /\ UNCHANGED <<phase, task, clauses>>
  BY DEF KnownMeanwhile, Missed, Active
<1>2. PICK U \in UnitSets(F, f.path, C) :
        /\ VarsOf(U) = C
        /\ dag' = Append(dag, Node("u", <<Edge(TRUENODE, U, <<>>)>>))
        /\ cache' = Remember(k, n)
        /\ calls' = [WithKid(calls, n) EXCEPT ![Len(calls)].todo = Tail(@)]
  BY DEF KnownMeanwhile, Active
<1>3. /\ DagOK(dag) /\ Grows(dag, dag) /\ F \in SUBSET SUBSET AllLits
      /\ CacheOK(dag, F, x, cache) /\ StackOK(dag, F, x, calls)
  BY <1>1, Running
<1>4. CompileOK(dag, F, x, f, Scope(calls, Len(calls)), f.todo)
  BY <1>1, <1>3, TopFrame
<1>5. /\ C \in SUBSET FormulaVars /\ f.path \in SUBSET AllLits
      /\ Separated(F, f.path, C) /\ ModelsOf(F, f.path) # {}
  BY <1>1, <1>4, HeadPart
<1> HIDE DEF C, f
<1>6. /\ DagOK(dag') /\ Grows(dag, dag') /\ n = Len(dag) + 1
      /\ Represents(dag', Len(dag) + 1, C, Shadow(F, f.path, C), x)
  BY ONLY <1>2, <1>3, <1>5, UnitsRepresent
<1>7. Represents(dag', n, C, Shadow(F, f.path, C), x)
  BY <1>6
<1>8. StackOK(dag', F, x, calls') /\ calls'[1].path = calls[1].path
  <2> HIDE DEF n, F, x, k
  <2>1. Represents(dag', n, Head(calls[Len(calls)].todo),
                   Shadow(F, calls[Len(calls)].path, Head(calls[Len(calls)].todo)), x)
    BY <1>7 DEF f, C
  <2>2. calls[Len(calls)].of = "compile_" /\ calls[Len(calls)].todo # <<>>
    BY <1>1 DEF f
  <2>3. /\ calls' = Advanced(calls, n)
        /\ Grows(dag, dag') /\ StackOK(dag, F, x, calls)
    BY <1>2, <1>3, <1>6 DEF Advanced
  <2>4. StackOK(dag', F, x, calls')
    BY ONLY <2>1, <2>2, <2>3, KidDone
  <2>5. calls'[1].path = calls[1].path
    BY ONLY <2>1, <2>2, <2>3, KidDone
  <2> QED
    BY <2>4, <2>5
<1>9. CacheOK(dag', F, x, cache)
  BY <1>3, <1>6, CacheKept
<1>10. CacheOK(dag', F, x, cache')
  <2>1. k = KeyIn(F, C, f.path)
    BY KeyIs
  <2> HIDE DEF k, n
  <2>2. CacheOK(dag', F, x, [y \in {k} \cup DOMAIN cache |-> IF y = k THEN n ELSE cache[y]])
    BY ONLY <1>5, <1>7, <1>9, <2>1, CacheMore
  <2> QED
    BY <1>2, <1>9, <2>2 DEF Remember
<1> QED
  BY <1>1, <1>6, <1>8, <1>10, StillRunning

\* A decision is over.
LEMMA BuildInv ==
  ASSUME D4dInv, Build
  PROVE  D4dInv'
<1> DEFINE d == calls[Len(calls)]
           x == Unlimited
           F == clauses
           n == Len(dag')
<1>1. /\ phase = "compile" /\ d.of = "compileDecisionNode" /\ Len(d.edges) = 2
      /\ dag' = Append(dag, Node("o", d.edges))
      /\ cache' = Remember(d.key, n)
      /\ calls' = WithKid(Front(calls), n)
      /\ UNCHANGED <<phase, task, clauses>>
  BY DEF Build, Active, Caller
<1>2. /\ DagOK(dag) /\ Grows(dag, dag) /\ F \in SUBSET SUBSET AllLits
      /\ CacheOK(dag, F, x, cache) /\ StackOK(dag, F, x, calls)
  BY <1>1, Running
<1>3. d \in DecideFrames /\ DecideOK(dag, F, x, d)
  BY <1>1, <1>2, TopFrame, FrameIs
<1> HIDE DEF d
<1>4. d.edges \in Seq(Edges) /\ d.vars \in SUBSET FormulaVars /\ d.path \in SUBSET AllLits
  BY <1>3 DEF DecideFrames
<1>5. 1 \in DOMAIN d.edges /\ 2 \in DOMAIN d.edges
  BY <1>1, <1>4
<1>6. Sign(d, 1) = d.lit /\ Sign(d, 2) = -d.lit
  BY DEF Sign
<1>7. /\ Leads(dag, d.edges[1], d.vars, Shadow(F, d.path \cup {d.lit}, d.vars), x) /\ d.lit \in d.edges[1].units
      /\ Leads(dag, d.edges[2], d.vars, Shadow(F, d.path \cup {-d.lit}, d.vars), x) /\ -d.lit \in d.edges[2].units
      /\ d.lit \in Lits(d.vars)
  BY <1>3, <1>5, <1>6 DEF DecideOK
<1>8. /\ DagOK(dag') /\ Grows(dag, dag') /\ n = Len(dag) + 1
      /\ Represents(dag', Len(dag) + 1, d.vars, Shadow(F, d.path, d.vars), x)
  <2> DEFINE es == d.edges
             A == d.path
             V == d.vars
             l == d.lit
  <2>1. /\ es \in Seq(Edges) /\ Len(es) = 2 /\ A \in SUBSET AllLits /\ V \in SUBSET FormulaVars /\ l \in Lits(V)
        /\ Leads(dag, es[1], V, Shadow(F, A \cup {l}, V), x) /\ l \in es[1].units
        /\ Leads(dag, es[2], V, Shadow(F, A \cup {-l}, V), x) /\ -l \in es[2].units
    BY <1>1, <1>4, <1>7
  <2> HIDE DEF es, A, V, l, x, F
  <2> DEFINE E == Append(dag, Node("o", es))
  <2>2. DagOK(E) /\ Grows(dag, E) /\ Len(E) = Len(dag) + 1 /\ Represents(E, Len(dag) + 1, V, Shadow(F, A, V), x)
    <3>0. DagOK(dag)
      BY <1>2
    <3>1. DagOK(E)
      BY ONLY <3>0, <2>1, OrRepresents
    <3>2. Grows(dag, E)
      BY ONLY <3>0, <2>1, OrRepresents
    <3>3. Len(E) = Len(dag) + 1
      BY ONLY <3>0, <2>1, OrRepresents
    <3>4. Represents(E, Len(dag) + 1, V, Shadow(F, A, V), x)
      BY ONLY <3>0, <2>1, OrRepresents
    <3> QED
      BY ONLY <3>1, <3>2, <3>3, <3>4
  <2>3. dag' = E
    BY <1>1 DEF es
  <2> HIDE DEF E
  <2>4. Len(dag') = Len(dag) + 1
    BY <2>2, <2>3
  <2> QED
    BY <2>2, <2>3, <2>4 DEF V, A
<1>9. Represents(dag', n, d.vars, Shadow(F, d.path, d.vars), x)
  BY <1>8
<1>10. StackOK(dag', F, x, calls') /\ calls'[1].path = calls[1].path
  BY <1>1, <1>2, <1>8, <1>9, KidReturned DEF d
<1>11. CacheOK(dag', F, x, cache)
  BY <1>2, <1>8, CacheKept
<1>12. CacheOK(dag', F, x, cache')
  <2>1. Separated(F, d.path, d.vars) /\ ModelsOf(F, d.path) # {} /\ d.key = KeyIn(F, d.vars, d.path)
    BY <1>3 DEF DecideOK
  <2> HIDE DEF n
  <2> DEFINE k == d.key
             A == d.path
             V == d.vars
  <2>2. /\ k = KeyIn(F, V, A) /\ A \in SUBSET AllLits /\ V \in SUBSET FormulaVars
        /\ Separated(F, A, V) /\ ModelsOf(F, A) # {} /\ Represents(dag', n, V, Shadow(F, A, V), x)
    BY <1>4, <1>9, <2>1
  <2> HIDE DEF k, A, V, F, x
  <2>3. CacheOK(dag', F, x, [y \in {k} \cup DOMAIN cache |-> IF y = k THEN n ELSE cache[y]])
    BY ONLY <1>11, <2>2, CacheMore
  <2> QED
    BY <1>1, <1>11, <2>3 DEF Remember, k
<1> QED
  BY <1>1, <1>8, <1>10, <1>12, StillRunning

-----------------------------------------------------------------------------
(* Branches of a decision, the end of compile_, and the theorems *)

\* The next branch of a decision, as Assume chooses it.
LEMMA NextSign ==
  ASSUME NEW d \in DecideFrames, Len(d.edges) < 2
  PROVE  Sign(d, Len(d.edges) + 1) = IF d.edges = <<>> THEN d.lit ELSE -d.lit
<1>1. d.edges \in Seq(Edges)
  BY DEF DecideFrames
<1>2. Len(d.edges) \in Nat /\ (d.edges = <<>> <=> Len(d.edges) = 0)
  BY <1>1, EmptySeq
<1>3. d.edges = <<>> <=> Len(d.edges) + 1 = 1
  BY <1>2
<1> QED
  BY <1>3 DEF Sign

\* A new edge leaves the path of the first call alone.
LEMMA EdgePath ==
  ASSUME NEW fs \in Seq(Frames), fs # <<>>, fs[Len(fs)] \in DecideFrames, NEW e
  PROVE  WithEdge(fs, e)[1].path = fs[1].path
<1> DEFINE n == Len(fs)
           f == fs[n]
           g == [f EXCEPT !.edges = Append(@, e)]
<1>1. n \in Nat /\ n # 0 /\ DOMAIN fs = 1 .. n /\ 1 \in 1 .. n /\ n \in 1 .. n
  BY EmptySeq
<1>2. WithEdge(fs, e) = [fs EXCEPT ![n] = g]
  BY <1>1 DEF WithEdge
<1>3. g.path = f.path
  BY DEF DecideFrames
<1> HIDE DEF g
<1> QED
  BY <1>1, <1>2, <1>3

\* A branch of a decision has no model, or is compiled.
LEMMA AssumeInv ==
  ASSUME D4dInv, Assume
  PROVE  D4dInv'
<1> DEFINE d == calls[Len(calls)]
           x == Unlimited
           F == clauses
           l == IF d.edges = <<>> THEN d.lit ELSE -d.lit
           A == d.path \cup {l}
           C == d.vars
<1>1. /\ phase = "compile" /\ d.of = "compileDecisionNode" /\ Len(d.edges) < 2
      /\ UNCHANGED <<phase, task, clauses, dag, cache>>
      /\ IF ModelsOf(F, A) = {}
         THEN calls' = WithEdge(calls, Edge(FALSENODE, {l}, <<>>))
         ELSE \E U \in UnitSets(F, A, C) :
                calls' = Append(calls, CallOf(F, C, d.path, U, d.depth))
  BY DEF Assume, Active
<1>2. /\ DagOK(dag) /\ Grows(dag, dag) /\ F \in SUBSET SUBSET AllLits
      /\ CacheOK(dag, F, x, cache) /\ StackOK(dag, F, x, calls) /\ x \in BOOLEAN
  BY <1>1, Running
<1>3. d \in DecideFrames /\ DecideOK(dag, F, x, d)
  BY <1>1, <1>2, TopFrame, FrameIs
<1>4. l = Sign(d, Len(d.edges) + 1)
  BY <1>1, <1>3, NextSign
<1> HIDE DEF d
<1>5. /\ C \in SUBSET FormulaVars /\ d.path \in SUBSET AllLits /\ d.lit \in AllLits /\ d.depth \in Nat
      /\ d.lit \in Lits(C) /\ Separated(F, d.path, C) /\ (x => Cardinality(C) <= d.depth + 2)
  BY <1>3 DEF DecideFrames, DecideOK
<1>6. l \in AllLits /\ l \in Lits(C) /\ A \in SUBSET AllLits /\ Var(l) \in C
  <2>1. -d.lit \in AllLits /\ Var(-d.lit) = Var(d.lit)
    BY <1>5, LitFacts
  <2>2. Var(d.lit) \in C /\ -d.lit \in Lits(C)
    BY <1>5, <2>1, LitsFacts
  <2> QED
    BY <1>5, <2>1, <2>2
<1> HIDE DEF l
<1>7. CASE ModelsOf(F, A) = {}
  <2> DEFINE e == Edge(FALSENODE, {l}, <<>>)
  <2>1. Linked(dag, e) /\ Clear(dag, e) /\ Via(dag, e) = {} /\ e.units = {l}
    <3>1. {l} \in SUBSET AllLits
      BY <1>6
    <3> QED
      BY <1>2, <3>1, FalseEdge
  <2>2. calls' = WithEdge(calls, e)
    BY <1>1, <1>7
  <2> HIDE DEF e
  <2>3. Shadow(F, A, C) = {}
    BY <1>7 DEF Shadow
  <2>4. Leads(dag, e, C, Shadow(F, A, C), x)
    BY <2>1, <2>3 DEF Leads
  <2>5. StackOK(dag, F, x, calls') /\ calls'[1].path = calls[1].path
    <3>1. /\ Leads(dag, e, calls[Len(calls)].vars,
                   Shadow(F, calls[Len(calls)].path \cup {l}, calls[Len(calls)].vars), x)
          /\ calls[Len(calls)].of = "compileDecisionNode" /\ Len(calls[Len(calls)].edges) < 2
          /\ l = Sign(calls[Len(calls)], Len(calls[Len(calls)].edges) + 1)
          /\ l \in e.units
      BY <1>1, <1>4, <2>1, <2>4 DEF d
    <3> HIDE DEF F, x, A, C
    <3>2. StackOK(dag, F, x, calls')
      BY ONLY <1>2, <2>2, <3>1, EdgeDone
    <3>3. calls'[1].path = calls[1].path
      <4>1. calls \in Seq(Frames) /\ calls # <<>> /\ calls[Len(calls)] \in DecideFrames
        BY <1>2, <1>3, TopFrame DEF d
      <4> QED
        BY ONLY <2>2, <4>1, EdgePath
    <3> QED
      BY <3>2, <3>3
  <2> QED
    BY <1>1, <1>2, <2>5, StillRunning
<1>8. CASE ModelsOf(F, A) # {}
  <2> PICK U \in UnitSets(F, A, C) : calls' = Append(calls, CallOf(F, C, d.path, U, d.depth))
    BY <1>1, <1>8
  <2>1. calls' = Append(calls, CallOf(F, C, d.path, U, d.depth))
    OBVIOUS
  <2>2. /\ U \in SUBSET Lits(C) /\ U \in SUBSET AllLits /\ A \cap Lits(C) \subseteq U
        /\ ModelsOf(F, A \cup U) = ModelsOf(F, A) /\ Propagated(F, A \cup U)
    <3>1. U \in UnitSets(F, A, C)
      OBVIOUS
    <3> HIDE DEF F, A, C
    <3> QED
      BY ONLY <1>5, <1>6, <3>1, UnitsFacts
  <2>3. l \in U /\ A \cup U = d.path \cup U
    BY <1>6, <2>2
  <2>4. Connected(Residual(F, d.path \cup U), C)
    <3>1. Connected(Residual(F, d.path), C) /\ d.path \subseteq d.path \cup U
      BY <1>5 DEF Separated
    <3> DEFINE P == d.path
               Q == d.path \cup U
    <3> HIDE DEF P, Q
    <3>2. P \subseteq Q /\ Connected(Residual(F, P), C)
      BY <3>1 DEF P, Q
    <3>3. Connected(Residual(F, Q), C)
      BY ONLY <3>2, ConnectedKept
    <3> QED
      BY <3>3 DEF Q
  <2>5. x => Cardinality(C \ VarsOf(U)) <= d.depth + 1
    <3> DEFINE W == C \ {Var(l)}
               Z == C \ VarsOf(U)
    <3>1. Var(l) \in VarsOf(U)
      BY <2>2, <2>3, LitsFacts
    <3>2. Z \subseteq W /\ W \in SUBSET FormulaVars /\ Z \in SUBSET FormulaVars
      BY <1>5, <3>1
    <3>3. IsFiniteSet(C)
      BY <1>5, VarSets
    <3>4. Cardinality(W) = Cardinality(C) - 1
      BY <1>6, <3>3, FS_RemoveElement
    <3> HIDE DEF W, Z
    <3>5. Cardinality(Z) <= Cardinality(W) /\ Cardinality(Z) \in Nat /\ Cardinality(W) \in Nat
          /\ Cardinality(C) \in Nat
      BY <1>5, <3>2, VarSets
    <3>6. x => Cardinality(Z) <= d.depth + 1
      <4>1. SUFFICES ASSUME x PROVE Cardinality(Z) <= d.depth + 1
        OBVIOUS
      <4>2. Cardinality(C) <= d.depth + 2
        BY <1>5, <4>1
      <4> QED
        BY <1>5, <3>4, <3>5, <4>2
    <3> QED
      BY <3>6 DEF Z
  <2>6. CallReady(F, C, d.path, U, d.depth, x)
    <3>1. ModelsOf(F, d.path \cup U) # {} /\ Propagated(F, d.path \cup U)
      BY <1>8, <2>2, <2>3
    <3>2. C \cap VarsOf(d.path) = {}
      BY <1>5 DEF Separated
    <3> HIDE DEF F, C, x
    <3> QED
      BY ONLY <1>2, <1>5, <2>2, <2>4, <2>5, <3>1, <3>2 DEF CallReady
  <2> DEFINE f == CallOf(F, C, d.path, U, d.depth)
  <2>7. CompileOK(dag, F, x, f, C, f.todo) /\ f.path = d.path \cup U /\ f.units = U
    <3>1. f = CallOf(F, C, d.path, U, d.depth)
      OBVIOUS
    <3> DEFINE P == d.path
               n == d.depth
    <3>2. CallReady(F, C, P, U, n, x) /\ f = CallOf(F, C, P, U, n)
      BY <2>6
    <3> HIDE DEF F, C, x, f, P, n
    <3>3. CompileOK(dag, F, x, f, C, f.todo)
      BY ONLY <3>2, CallStarts
    <3>4. f.path = P \cup U /\ f.units = U
      BY <3>2 DEF CallOf
    <3> QED
      BY <3>3, <3>4 DEF P
  <2> HIDE DEF f
  <2>8. Begun(F, d, f)
    <3>1. ModelsOf(F, f.path) = ModelsOf(F, A)
      BY <2>2, <2>3, <2>7
    <3>2. l \in f.units
      BY <2>3, <2>7
    <3> QED
      BY <1>1, <1>4, <3>1, <3>2 DEF Begun
  <2>9. calls' = Append(calls, f)
    BY <2>1 DEF f
  <2>10. StackOK(dag, F, x, calls') /\ calls'[1].path = calls[1].path
    <3>1. /\ CompileOK(dag, F, x, f, calls[Len(calls)].vars, f.todo) /\ Begun(F, calls[Len(calls)], f)
          /\ calls[Len(calls)].of = "compileDecisionNode"
      BY <1>1, <2>7, <2>8 DEF d
    <3> HIDE DEF F, x, A, C
    <3>2. StackOK(dag, F, x, Append(calls, f))
      BY ONLY <1>2, <3>1, AssumePush
    <3>3. Append(calls, f)[1].path = calls[1].path
      BY ONLY <1>2, <3>1, AssumePush
    <3> QED
      BY <2>9, <3>2, <3>3
  <2> QED
    BY <1>1, <1>2, <2>10, StillRunning
<1> QED
  BY <1>7, <1>8

\* The models of a formula are what they say of all variables.
LEMMA WholeShadow == \A F, A : Shadow(F, A, FormulaVars) = ModelsOf(F, A)
<1> TAKE F, A
<1>1. \A M \in ModelsOf(F, A) : M \cap Lits(FormulaVars) = M
  BY ModelIs DEF AllLits
<1> QED
  BY <1>1 DEF Shadow

\* What compile_ returns.
LEMMA Returned ==
  ASSUME NEW D, DagOK(D), NEW F \in SUBSET SUBSET AllLits, NEW f, NEW V, NEW x \in BOOLEAN,
         CompileOK(D, F, x, f, V, <<>>)
  PROVE  LET E == Grown(D, f.kids)
         IN  /\ DagOK(E) /\ Grows(D, E)
             /\ Leads(E, Edge(ResultOf(D, f.kids), f.units, f.free), V, Shadow(F, f.path, V), x)
<1>1. PICK done \in Seq(SUBSET FormulaVars) :
        Parted(F, f, V, done \o <<>>, x) /\ KidsStand(D, F, f.path, f.kids, done, x)
  BY DEF CompileOK
<1>2. done \o <<>> = done
  BY ConcatEmptySeq
<1>3. Parted(F, f, V, done, x)
  BY <1>1, <1>2
<1> QED
  BY <1>1, <1>3, LeaveLeads

\* All components are compiled.
LEMMA LeaveInv ==
  ASSUME D4dInv, Leave
  PROVE  D4dInv'
<1> DEFINE f == calls[Len(calls)]
           x == Unlimited
           F == clauses
           E == Grown(dag, f.kids)
           e == Edge(ResultOf(dag, f.kids), f.units, f.free)
           n == Len(calls)
<1>1. /\ phase = "compile" /\ f.of = "compile_" /\ f.todo = <<>>
      /\ UNCHANGED <<task, clauses, cache>>
      /\ IF Front(calls) = <<>>
         THEN /\ dag' = [E EXCEPT ![1].children = <<e>>]
              /\ calls' = <<>>
              /\ phase' = "printed"
         ELSE /\ dag' = E
              /\ calls' = WithEdge(Front(calls), e)
              /\ UNCHANGED phase
  BY DEF Leave, Active, Caller, Grown, ResultOf, Conjunction
<1>2. /\ DagOK(dag) /\ Grows(dag, dag) /\ F \in SUBSET SUBSET AllLits /\ D4dType
      /\ CacheOK(dag, F, x, cache) /\ StackOK(dag, F, x, calls) /\ x \in BOOLEAN
      /\ ModelsOf(F, calls[1].path) = ModelsOf(task.formula, {})
  BY <1>1, Running
<1>3. /\ CompileOK(dag, F, x, f, Scope(calls, n), f.todo) /\ (n # 1 => Begun(F, calls[n - 1], f))
      /\ calls \in Seq(Frames) /\ calls # <<>> /\ n \in Nat /\ n \in 1 .. n
  BY <1>1, <1>2, TopFrame
<1>4. Len(Front(calls)) = n - 1 /\ Front(calls) \in Seq(Frames)
  BY <1>3, FrontFacts
<1> HIDE DEF n
<1>5. Front(calls) = <<>> <=> n = 1
  <2>1. Front(calls) = <<>> <=> Len(Front(calls)) = 0
    BY <1>4, EmptySeq
  <2>2. n - 1 = 0 <=> n = 1
    BY <1>3
  <2> QED
    BY <1>4, <2>1, <2>2
<1> DEFINE V == Scope(calls, n)
<1> HIDE DEF V, f
<1>6. DagOK(E) /\ Grows(dag, E) /\ Leads(E, e, V, Shadow(F, f.path, V), x)
  <2>1. CompileOK(dag, F, x, f, V, <<>>)
    BY <1>1, <1>3 DEF V
  <2> HIDE DEF F, x
  <2>2. DagOK(E) /\ Grows(dag, E)
    BY ONLY <1>2, <2>1, Returned
  <2>3. Leads(E, e, V, Shadow(F, f.path, V), x)
    BY ONLY <1>2, <2>1, Returned
  <2> QED
    BY <2>2, <2>3
<1> HIDE DEF E, e
<1>7. CASE n = 1
  <2>1. V = FormulaVars /\ f = calls[1]
    BY <1>7 DEF V, Scope, f, n
  <2>2. dag' = [E EXCEPT ![1].children = <<e>>] /\ phase' = "printed"
    BY <1>1, <1>5, <1>7
  <2>3. Linked(E, e) /\ Clear(E, e)
    BY <1>6 DEF Leads
  <2>4. DagOK(dag') /\ Mean(dag')[1] = Via(E, e)
    BY <1>6, <2>2, <2>3, RootSet
  <2>5. Shadow(F, f.path, V) = ModelsOf(task.formula, {})
    BY <1>2, <2>1, WholeShadow
  <2>6. RootOK(dag', ModelsOf(task.formula, {}), x)
    BY <1>6, <2>1, <2>4, <2>5 DEF RootOK, Leads
  <2>7. Unlimited' = Unlimited /\ D4dType' /\ ModelsOf(task.formula, {})' = ModelsOf(task.formula, {})
    BY <1>1, <1>2, <2>2 DEF Unlimited, D4dType
  <2> QED
    BY <2>2, <2>4, <2>6, <2>7 DEF D4dInv
<1>8. CASE n # 1
  <2> DEFINE fs == Front(calls)
             d == calls[n - 1]
  <2>1. StackOK(E, F, x, fs) /\ fs[1].path = calls[1].path /\ Len(fs) = n - 1 /\ fs[n - 1] = d
    <3>1. calls[Len(calls)].of = "compile_" /\ Len(calls) # 1
      BY <1>1, <1>8 DEF f, n
    <3> HIDE DEF F, x
    <3>2. StackOK(E, F, x, fs)
      BY ONLY <1>2, <1>6, <3>1, CallerOK
    <3>3. fs[1].path = calls[1].path
      BY ONLY <1>2, <1>6, <3>1, CallerOK
    <3>4. fs[Len(calls) - 1] = calls[Len(calls) - 1]
      BY ONLY <1>2, <1>6, <3>1, CallerOK
    <3> QED
      BY <1>4, <3>2, <3>3, <3>4 DEF n
  <2>2. dag' = E /\ calls' = WithEdge(fs, e) /\ phase' = phase
    BY <1>1, <1>5, <1>8
  <2> DEFINE l == Sign(d, Len(d.edges) + 1)
  <2>3. d.of = "compileDecisionNode" /\ Len(d.edges) < 2 /\ l \in f.units
        /\ ModelsOf(F, f.path) = ModelsOf(F, d.path \cup {l})
    BY <1>3, <1>8 DEF Begun
  <2>4. V = d.vars
    BY <1>8 DEF V, Scope
  <2>5. Shadow(F, f.path, V) = Shadow(F, d.path \cup {l}, d.vars)
    BY <2>3, <2>4 DEF Shadow
  <2>6. l \in e.units
    BY <2>3 DEF e, Edge
  <2> HIDE DEF d, fs, l
  <2>7. /\ fs[Len(fs)].of = "compileDecisionNode" /\ Len(fs[Len(fs)].edges) < 2
        /\ l = Sign(fs[Len(fs)], Len(fs[Len(fs)].edges) + 1)
        /\ Leads(E, e, fs[Len(fs)].vars, Shadow(F, fs[Len(fs)].path \cup {l}, fs[Len(fs)].vars), x)
        /\ l \in e.units
    <3>1. fs[Len(fs)] = d
      BY <2>1
    <3>2. l = Sign(d, Len(d.edges) + 1)
      BY DEF l
    <3> QED
      BY <1>6, <2>3, <2>4, <2>5, <2>6, <3>1, <3>2
  <2>8. Grows(E, E)
    BY <1>6, GrowsSelf
  <2>9. StackOK(E, F, x, calls') /\ calls'[1].path = fs[1].path
    <3> HIDE DEF F, x
    <3>1. StackOK(E, F, x, fs) /\ calls' = WithEdge(fs, e)
      BY <2>1, <2>2
    <3>2. StackOK(E, F, x, calls')
      BY ONLY <2>7, <2>8, <3>1, EdgeDone
    <3>3. calls'[1].path = fs[1].path
      <4>1. fs \in Seq(Frames) /\ fs # <<>>
        BY ONLY <3>1, TopFrame
      <4>2. fs[Len(fs)] \in DecideFrames
        BY ONLY <2>7, <3>1, TopFrame, FrameIs
      <4> QED
        BY ONLY <3>1, <4>1, <4>2, EdgePath
    <3> QED
      BY <3>2, <3>3
  <2>10. CacheOK(E, F, x, cache)
    BY <1>2, <1>6, CacheKept
  <2>11. /\ UNCHANGED <<phase, task, clauses>> /\ DagOK(dag') /\ CacheOK(dag', F, x, cache')
         /\ StackOK(dag', F, x, calls') /\ calls'[1].path = calls[1].path
    BY <1>1, <1>6, <2>1, <2>2, <2>9, <2>10
  <2> QED
    BY <1>1, <2>11, StillRunning
<1> QED
  BY <1>7, <1>8

\* The invariant is inductive.
LEMMA D4dStep ==
  ASSUME D4dInv, D4dNext
  PROVE  D4dInv'
BY CompileInv, RefuteInv, ReuseInv, LeaveInv, DecideInv, KnownMeanwhileInv, AssumeInv, BuildInv
   DEF D4dNext, AllLits

\* The compiler does not see what is read and sampled.
LEMMA D4dStutter ==
  ASSUME D4dInv, UNCHANGED d4dVars
  PROVE  D4dInv'
BY DEF D4dInv, D4dType, d4dVars, Unlimited

\* Every call on the stack, every entry of the cache and every node of the circuit is
\* sound at every step, whatever the formula, the depth and the answers of the solver.
\* (dDnnfCompiler.hh:155-283,336-404)
THEOREM BoundInvariant == BoundSpec => []D4dInv
<1>1. BoundInit => D4dInv
  BY InitInv DEF BoundInit
<1>2. D4dInv /\ [BoundNext]_boundVars => D4dInv'
  BY D4dStep, D4dStutter DEF BoundNext, boundVars
<1> QED
  BY <1>1, <1>2, PTL DEF BoundSpec

\* What the invariant says of the printed circuit.
LEMMA InvSound == D4dInv => BoundSound
<1> SUFFICES ASSUME D4dInv, phase = "printed", query.circuit = dag, query.count = "mc"
             PROVE  /\ ModelsOf(task.formula, {}) \subseteq Meaning[ROOT]
                    /\ Meaning[ROOT] \subseteq Over(FormulaVars)
                    /\ task.depth >= NbVars - 1 => Meaning[ROOT] = ModelsOf(task.formula, {})
  BY DEF BoundSound
<1>1. DagOK(dag) /\ RootOK(dag, ModelsOf(task.formula, {}), Unlimited)
  BY DEF D4dInv
<1>2. Meanings(query) = Meanings(Plain(dag))
  <2>1. Drawn(Plain(dag))
    BY <1>1, DagDrawn DEF DagOK
  <2> QED
    BY <2>1, MeaningUnique, PlainFacts
<1>3. Meaning[ROOT] = Mean(dag)[1]
  BY <1>2 DEF Meaning, Mean, ROOT
<1> QED
  BY <1>1, <1>3 DEF RootOK, Unlimited

\* What d4d prints is an upper bound of the formula over the same variables, and with depth
\* enough it is the formula.
THEOREM BoundIsSound == BoundSpec => []BoundSound
BY BoundInvariant, InvSound, PTL

-----------------------------------------------------------------------------
(* What d4d prints may be read *)

QueryOf(D, r) == [circuit |-> D, cubes |-> r.cubes, count |-> r.count]

\* The circuit the compiler has built so far is a d-DNNF at every step, not only when it
\* is printed.
AlwaysDDNNF == IsDDNNF(Plain(dag))

\* A sound circuit is a d-DNNF, whatever the cubes.
LEMMA SoundIsDDNNF ==
  ASSUME NEW D, DagOK(D), NEW q, q.circuit = D, q.count = "mc"
  PROVE  IsDDNNF(q) /\ Meanings(q) = Mean(D)
<1>1. DagShape(D) /\ Drawn(Plain(D)) /\ DOMAIN D = 1 .. Len(D)
  BY DagDrawn DEF DagOK
<1>2. Meanings(q) = Meanings(Plain(D))
  BY <1>1, MeaningUnique, PlainFacts
<1>3. Meanings(q) = Mean(D)
  BY <1>2 DEF Mean
<1>4. \A e : Through(q, Mean(D), e) = Via(D, e)
  <2>1. \A e : FreeChoices(q, e) = FreeChoices(Plain(D), e)
    BY PlainFacts DEF FreeChoices
  <2> QED
    BY <2>1 DEF Through, Via
<1>5. IsCircuit(D)
  BY <1>1, PlainFacts DEF Drawn
<1>6. ASSUME NEW n \in DOMAIN D, NEW j \in DOMAIN D[n].children, NEW k \in DOMAIN D[n].children
      PROVE  LET d == D[n].children[j]
                 e == D[n].children[k]
             IN  /\ \A m \in Mean(D)[e.dst] : m \subseteq Int \ {0} /\ Apart(m, e.units \cup Range(e.free))
                 /\ j # k => IF D[n].type = "a"
                             THEN \A x \in Mean(D)[d.dst], y \in Mean(D)[e.dst] : Apart(x, y)
                             ELSE Via(D, d) \cap Via(D, e) = {}
  <2>1. NodeSound(D, D[n])
    BY <1>1 DEF DagOK
  <2>2. Clear(D, D[n].children[k])
    BY <2>1 DEF NodeSound
  <2>3. Split(D, D[n])
    BY <2>1 DEF NodeSound
  <2> QED
    BY <2>2, <2>3 DEF Clear, Split
<1>7. IsDDNNF(q)
  <2> DEFINE M == Meanings(q)
             C == q.circuit
  <2>1. ASSUME NEW n \in DOMAIN C, NEW j \in DOMAIN C[n].children, NEW k \in DOMAIN C[n].children
        PROVE  LET d == C[n].children[j]
                   e == C[n].children[k]
               IN  /\ \A m \in M[e.dst] : m \subseteq Int \ {0} /\ Apart(m, e.units \cup Range(e.free))
                   /\ j # k => IF C[n].type = "a"
                               THEN \A x \in M[d.dst], y \in M[e.dst] : Apart(x, y)
                               ELSE Through(q, M, d) \cap Through(q, M, e) = {}
    BY <1>3, <1>4, <1>6
  <2>2. IsCircuit(C)
    BY <1>5
  <2> HIDE DEF M, C
  <2>3. /\ IsCircuit(C)
        /\ \A n \in DOMAIN C : \A j, k \in DOMAIN C[n].children :
             LET d == C[n].children[j]
                 e == C[n].children[k]
             IN  /\ \A m \in M[e.dst] : m \subseteq Int \ {0} /\ Apart(m, e.units \cup Range(e.free))
                 /\ j # k => IF C[n].type = "a"
                             THEN \A x \in M[d.dst], y \in M[e.dst] : Apart(x, y)
                             ELSE Through(q, M, d) \cap Through(q, M, e) = {}
    BY <2>1, <2>2
  <2> QED
    BY ONLY <2>3 DEF IsDDNNF, M, C
<1> QED
  BY <1>3, <1>7

\* An assignment of all variables contradicts a cube or extends it.
LEMMA OverCube ==
  ASSUME NEW m \in Over(FormulaVars), NEW c \in SUBSET AllLits
  PROVE  Conflicts(m, c) \/ c \subseteq m
<1>1. \A l \in AllLits : l \in m <=> -l \notin m
  <2>1. FormulaVars \in SUBSET FormulaVars /\ AllLits = Lits(FormulaVars)
    BY DEF AllLits
  <2> QED
    BY <2>1, OverFacts
<1> SUFFICES ASSUME NEW l \in c, l \notin m PROVE Conflicts(m, c)
  OBVIOUS
<1>2. -l \in m /\ -(-l) = l
  BY <1>1, LitFacts
<1> QED
  BY <1>2 DEF Conflicts

\* The printed circuit, with the cubes of a reading, is one Annf is made for.
LEMMA PrintedIsQuery ==
  ASSUME D4dInv, phase = "printed", NEW r \in Readings
  PROVE  IsQuery(QueryOf(dag, r))
<1> DEFINE q == QueryOf(dag, r)
<1>1. q.circuit = dag /\ q.cubes = r.cubes /\ q.count = r.count
  BY DEF QueryOf
<1>2. /\ r.count = "mc" /\ r.cubes \in Seq(SUBSET AllLits) /\ r.cubes # <<>>
      /\ \A c \in DOMAIN r.cubes : ~Conflicts(r.cubes[c], r.cubes[c])
      /\ \A c, d \in DOMAIN r.cubes : c # d => Conflicts(r.cubes[c], r.cubes[d])
  BY ReadingsAssumption DEF AllLits
<1>3. DagOK(dag) /\ Mean(dag)[1] \subseteq Over(FormulaVars)
  BY DEF D4dInv, RootOK
<1> HIDE DEF q
<1>4. IsDDNNF(q) /\ Meanings(q) = Mean(dag)
  BY <1>1, <1>2, <1>3, SoundIsDDNNF
<1>5. \A c \in DOMAIN r.cubes : r.cubes[c] \in SUBSET AllLits
  BY <1>2
<1>6. q.cubes \in Seq(SUBSET (Int \ {0}))
  <2>1. SUBSET AllLits \subseteq SUBSET (Int \ {0})
    BY LitFacts
  <2>2. ASSUME NEW B, SUBSET AllLits \subseteq B PROVE r.cubes \in Seq(B)
    BY <1>2, <2>2
  <2> QED
    BY <1>1, <2>1, <2>2
<1>7. \A m \in Meanings(q)[ROOT] : \A c \in DOMAIN q.cubes :
        Conflicts(m, q.cubes[c]) \/ q.cubes[c] \subseteq m
  BY <1>1, <1>3, <1>4, <1>5, OverCube DEF ROOT
<1>8. AreCubes(q)
  BY <1>1, <1>2, <1>6, <1>7 DEF AreCubes
<1> QED
  BY <1>1, <1>2, <1>4, <1>8 DEF IsQuery, q

\* The compiler and the reader: each step of one leaves the other's state alone, and what
\* is handed over is what the reader is made for.
ComposedInv == D4dInv /\ AnnfInv

\* The invariant of the composition is inductive.
LEMMA ComposedStep ==
  ASSUME ComposedInv, BoundNext
  PROVE  ComposedInv'
<1> USE DEF ComposedInv
<1>1. CASE D4dNext /\ mode = "read" /\ UNCHANGED annfVars
  BY <1>1, D4dStep, InvStutter
<1>2. CASE phase = "start" /\ (\E p \in Queries : Read(p)) /\ UNCHANGED d4dVars
  <2>1. PICK p \in Queries : Read(p)
    BY <1>2
  <2>2. IsQuery(p)
    BY QueriesAssumption
  <2> QED
    BY <1>2, <2>1, <2>2, D4dStutter, InvRead
<1>3. CASE /\ phase = "printed"
           /\ \E r \in Readings : Read([circuit |-> dag, cubes |-> r.cubes, count |-> r.count])
           /\ UNCHANGED d4dVars
  <2>1. PICK r \in Readings : Read(QueryOf(dag, r))
    BY <1>3 DEF QueryOf
  <2>2. IsQuery(QueryOf(dag, r))
    BY <1>3, PrintedIsQuery
  <2> QED
    BY <1>3, <2>1, <2>2, D4dStutter, InvRead
<1>4. CASE AnnfStep /\ UNCHANGED d4dVars
  BY <1>4, D4dStutter, InvStep
<1> QED
  BY <1>1, <1>2, <1>3, <1>4 DEF BoundNext

\* d4d composed with the reader keeps the invariants of both.
THEOREM ComposedInvariant == BoundSpec => []ComposedInv
<1>1. BoundInit => ComposedInv
  BY InitInv, InvInit DEF BoundInit, ComposedInv
<1>2. ComposedInv /\ UNCHANGED boundVars => ComposedInv'
  BY D4dStutter, InvStutter DEF ComposedInv, boundVars
<1>3. ComposedInv /\ [BoundNext]_boundVars => ComposedInv'
  BY <1>2, ComposedStep
<1> QED
  BY <1>1, <1>3, PTL DEF BoundSpec

\* Counting is exact on what d4d prints, and on every other circuit.
THEOREM BoundCountsExact == BoundSpec => []CountsExact
BY ComposedInvariant, InvCounts, PTL DEF ComposedInv

\* Sampling from what d4d prints gives every model of every cube exactly once.
THEOREM BoundIdsAreModels == BoundSpec => []IdsAreModels
BY ComposedInvariant, InvIds, PTL DEF ComposedInv

\* At every step of the compilation the circuit is a d-DNNF.
THEOREM BoundIsDDNNF == BoundSpec => []AlwaysDDNNF
<1>1. D4dInv => AlwaysDDNNF
  BY SoundIsDDNNF, PlainFacts DEF D4dInv, AlwaysDDNNF
<1> QED
  BY <1>1, BoundInvariant, PTL
=============================================================================

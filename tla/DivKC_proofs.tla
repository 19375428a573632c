---------------------------- MODULE DivKC_proofs ----------------------------
(***************************************************************************)
(* Proofs about Projection, then about the scripts of DivKC that call it.  *)
(*                                                                         *)
(* Projection, for every formula, every choice of the shown variables and  *)
(* wherever project stops: the clauses that are left say of the other      *)
(* variables what the formula says, and the two files together are the     *)
(* formula.                                                                *)
(*                                                                         *)
(* DivKC, for every formula, script, partition and course of the commands: *)
(* the wrapper's status is true and it leaves no process behind; the files *)
(* compiled have together the models of the formula; the parts of the      *)
(* upper bound are independent once the shown variables have values; and   *)
(* counting over both circuits is exact.                                   *)
(***************************************************************************)
EXTENDS DivKC, CnfStore_proofs, FiniteSetTheorems, FunctionTheorems,
        SequenceTheorems, WellFoundedInduction, TLAPS

-----------------------------------------------------------------------------
(* The clause store *)

\* No slot is on the stack twice, and none that is in use.  Not all the other slots are:
\* propagation switches clauses off without freeing their slots.
StackSound ==
  /\ \A j, k \in DOMAIN available : available[j] = available[k] => j = k
  /\ \A k \in DOMAIN available : available[k] \notin ActiveIds

StoreOK == StoreTypes /\ StackSound

\* The clauses are sets of literals.
LEMMA ClauseTypes ==
  ASSUME StoreTypes
  PROVE  /\ Ids = 1 .. Len(clauses) /\ Len(clauses) \in Nat
         /\ \A id \in Ids : clauses[id] \in SUBSET Literals
BY ElementOfSeq, LenProperties DEF StoreTypes, Ids

\* rm_clause on the slots of a loop.
LEMMA RemoveFacts ==
  ASSUME StoreOK, NEW T \in SUBSET ActiveIds, NEW order \in Seq(T), SlotsOf(order) = T,
         \A j, k \in DOMAIN order : order[j] = order[k] => j = k,
         RmClauses(order)
  PROVE  /\ StoreOK' /\ clauses' = clauses /\ Ids' = Ids
         /\ ActiveIds' = ActiveIds \ T
         /\ \A l \in Literals : idx'[l] = idx[l] \ {id \in T : l \in clauses[id]}
<1>1. clauses' = clauses /\ Ids' = Ids
  BY DEF RmClauses, Ids
<1>2. /\ active' = [id \in Ids |-> active[id] /\ id \notin T]
      /\ available' = available \o order
      /\ idx' = [l \in Literals |-> idx[l] \ {id \in T : l \in clauses[id]}]
  BY DEF RmClauses, Deactivate, IdxWithout
<1>3. ActiveIds' = ActiveIds \ T
  BY <1>1, <1>2 DEF ActiveIds
<1>4. active' \in [Ids' -> BOOLEAN] /\ idx' \in [Literals -> SUBSET Ids']
  <2>1. active' \in [Ids' -> BOOLEAN]
    BY <1>1, <1>2
  <2>2. \A l \in Literals : idx[l] \subseteq Ids
    BY DEF StoreOK, StoreTypes
  <2> QED
    BY <1>1, <1>2, <2>1, <2>2
<1>5. T \subseteq Ids
  BY DEF ActiveIds
<1>6. order \in Seq(Ids) /\ Len(order) \in Nat /\ DOMAIN order = 1 .. Len(order)
  BY <1>5, SeqMonotonic, LenProperties
<1>7. available \in Seq(Ids) /\ Len(available) \in Nat
      /\ DOMAIN available = 1 .. Len(available)
  BY LenProperties DEF StoreOK, StoreTypes
<1>8. /\ available' \in Seq(Ids)
      /\ DOMAIN available' = 1 .. Len(available) + Len(order)
      /\ \A k \in DOMAIN available' :
           available'[k] = IF k <= Len(available) THEN available[k]
                           ELSE order[k - Len(available)]
  BY <1>2, <1>6, <1>7, ConcatProperties, LenProperties
<1>9. /\ \A j, k \in DOMAIN available : available[j] = available[k] => j = k
      /\ \A k \in DOMAIN available : available[k] \notin ActiveIds
  BY DEF StoreOK, StackSound
<1>10. \A k \in DOMAIN order : order[k] \in T
  BY DEF SlotsOf
<1>11. \A k \in DOMAIN available' :
         \/ k \in DOMAIN available /\ available'[k] = available[k]
         \/ k - Len(available) \in DOMAIN order /\ available'[k] = order[k - Len(available)]
  BY <1>6, <1>7, <1>8
<1>12. \A j, k \in DOMAIN available' : available'[j] = available'[k] => j = k
  <2> SUFFICES ASSUME NEW j \in DOMAIN available', NEW k \in DOMAIN available',
                      available'[j] = available'[k]
               PROVE  j = k
    OBVIOUS
  <2>1. j \in Nat /\ k \in Nat
    BY <1>6, <1>7, <1>8
  <2> QED
    BY <2>1, <1>6, <1>7, <1>9, <1>10, <1>11
<1>13. \A k \in DOMAIN available' : available'[k] \notin ActiveIds'
  BY <1>3, <1>9, <1>10, <1>11
<1>14. StoreTypes' /\ StackSound'
  BY <1>1, <1>4, <1>8, <1>12, <1>13 DEF StoreOK, StoreTypes, StackSound
<1> QED
  BY <1>1, <1>2, <1>3, <1>14 DEF StoreOK

\* A loop over the slots T in ascending order.
LEMMA AscendingFacts ==
  ASSUME StoreTypes, NEW T \in SUBSET Ids, NEW order \in Ascending(T)
  PROVE  /\ order \in Seq(T) /\ SlotsOf(order) = T /\ DOMAIN order = 1 .. Len(order)
         /\ \A j, k \in DOMAIN order : order[j] = order[k] => j = k
<1>1. IsFiniteSet(T)
  BY SlotsFinite
<1> QED
  BY <1>1, OrderFacts DEF Ascending

\* Where add_clause writes: a slot that holds no clause in use, and no other slot moves.
LEMMA NextSlotFacts ==
  ASSUME StoreOK
  PROVE  /\ NextSlot \notin ActiveIds
         /\ \E n \in Nat : Ids \cup {NextSlot} = 1 .. n
<1>1. Ids = 1 .. Len(clauses) /\ Len(clauses) \in Nat
  BY ClauseTypes DEF StoreOK
<1>2. CASE available = <<>>
  <2>1. NextSlot = Len(clauses) + 1
    BY <1>2 DEF NextSlot
  <2>2. Ids \cup {NextSlot} = 1 .. Len(clauses) + 1 /\ NextSlot \notin Ids
    BY <1>1, <2>1
  <2> QED
    BY <1>1, <2>2 DEF ActiveIds
<1>3. CASE available # <<>>
  <2>1. /\ Len(available) \in Nat \ {0}
        /\ DOMAIN available = 1 .. Len(available)
        /\ NextSlot = available[Len(available)]
        /\ \A k \in 1 .. Len(available) : available[k] \in Ids
    BY <1>3, LenProperties, EmptySeq, ElementOfSeq DEF StoreOK, StoreTypes, NextSlot
  <2>2. Len(available) \in DOMAIN available
    BY <2>1
  <2>3. NextSlot \in Ids /\ NextSlot \notin ActiveIds
    BY <2>1, <2>2 DEF StoreOK, StackSound
  <2>4. Ids \cup {NextSlot} = Ids
    BY <2>3
  <2> QED
    BY <1>1, <2>3, <2>4
<1> QED
  BY <1>2, <1>3

\* The stack after add_clause: what was on it, without the slot that was taken.
LEMMA StackPoppedFacts ==
  ASSUME StoreOK
  PROVE  /\ StackPopped \in Seq(Ids)
         /\ \A j, k \in DOMAIN StackPopped : StackPopped[j] = StackPopped[k] => j = k
         /\ \A k \in DOMAIN StackPopped :
              StackPopped[k] \notin ActiveIds /\ StackPopped[k] # NextSlot
<1>1. /\ available \in Seq(Ids) /\ Len(available) \in Nat
      /\ DOMAIN available = 1 .. Len(available)
      /\ \A k \in DOMAIN available : available[k] \in Ids
  BY LenProperties, ElementOfSeq DEF StoreOK, StoreTypes
<1>2. /\ \A j, k \in DOMAIN available : available[j] = available[k] => j = k
      /\ \A k \in DOMAIN available : available[k] \notin ActiveIds
  BY DEF StoreOK, StackSound
<1>3. CASE available = <<>>
  <2>1. StackPopped = <<>> /\ DOMAIN StackPopped = {}
    BY <1>3 DEF StackPopped
  <2>2. StackPopped \in Seq(Ids)
    BY <2>1, EmptySeq
  <2> QED
    BY <2>1, <2>2
<1>4. CASE available # <<>>
  <2> DEFINE n == Len(available)
             s == SubSeq(available, 1, n - 1)
  <2>1. n \in Nat \ {0}
    BY <1>1, <1>4, EmptySeq
  <2>2. StackPopped = s /\ NextSlot = available[n]
    BY <1>4 DEF StackPopped, NextSlot
  <2>3. \A i \in 1 .. n - 1 : available[i] \in Ids
    BY <1>1, <2>1
  <2>4. /\ s \in Seq(Ids) /\ Len(s) = IF 1 <= n - 1 THEN (n - 1) - 1 + 1 ELSE 0
        /\ \A i \in 1 .. (n - 1) - 1 + 1 : s[i] = available[1 + i - 1]
    BY <2>1, <2>3, SubSeqProperties
  <2> HIDE DEF s, n
  <2>5. /\ Len(s) = n - 1 /\ \A i \in 1 .. n - 1 : s[i] = available[i]
    BY <2>1, <2>4
  <2>6. DOMAIN s = 1 .. n - 1
    BY <2>4, <2>5, LenProperties
  <2>7. n \in 1 .. n /\ \A i \in 1 .. n - 1 : i \in 1 .. n /\ i # n
    BY <2>1
  <2>8. DOMAIN available = 1 .. n
    BY <1>1 DEF n
  <2> QED
    BY <1>2, <2>2, <2>4, <2>5, <2>6, <2>7, <2>8
<1> QED
  BY <1>3, <1>4

\* add_clause overwrites no clause in use, and the index and the stack follow.
LEMMA AddClauseFacts ==
  ASSUME StoreOK, NEW c \in SUBSET Literals, AddClause(c)
  PROVE  /\ StoreOK' /\ Ids \subseteq Ids'
         /\ NextSlot \notin ActiveIds /\ ActiveIds' = ActiveIds \cup {NextSlot}
         /\ clauses'[NextSlot] = c /\ \A id \in ActiveIds : clauses'[id] = clauses[id]
         /\ \A l \in Literals : idx'[l] = IF l \in c THEN idx[l] \cup {NextSlot} ELSE idx[l]
<1>1. /\ clauses' = [id \in Ids \cup {NextSlot} |-> IF id = NextSlot THEN c ELSE clauses[id]]
      /\ active' = [id \in Ids \cup {NextSlot} |-> id = NextSlot \/ active[id]]
      /\ idx' = [l \in Literals |-> IF l \in c THEN idx[l] \cup {NextSlot} ELSE idx[l]]
      /\ available' = StackPopped
  BY DEF AddClause
<1>2. Ids' = Ids \cup {NextSlot}
  BY <1>1 DEF Ids
<1>3. NextSlot \notin ActiveIds /\ ActiveIds \subseteq Ids
  BY NextSlotFacts DEF ActiveIds
<1>4. clauses'[NextSlot] = c /\ \A id \in ActiveIds : clauses'[id] = clauses[id]
  BY <1>1, <1>3
<1>5. ActiveIds' = ActiveIds \cup {NextSlot}
  BY <1>1, <1>2 DEF ActiveIds
<1>6. clauses' \in Seq(SUBSET Literals)
  <2>1. PICK n \in Nat : Ids \cup {NextSlot} = 1 .. n
    BY NextSlotFacts
  <2>2. \A id \in Ids : clauses[id] \in SUBSET Literals
    BY ClauseTypes DEF StoreOK
  <2>3. clauses' \in [1 .. n -> SUBSET Literals]
    BY <1>1, <2>1, <2>2
  <2> QED
    BY <2>3, SeqDef
<1>7. active' \in [Ids' -> BOOLEAN]
  <2>1. \A id \in Ids : active[id] \in BOOLEAN
    BY DEF StoreOK, StoreTypes
  <2> QED
    BY <1>1, <1>2, <2>1
<1>8. idx' \in [Literals -> SUBSET Ids']
  BY <1>1, <1>2 DEF StoreOK, StoreTypes
<1>9. available' \in Seq(Ids') /\ StackSound'
  <2>1. /\ available' \in Seq(Ids)
        /\ \A j, k \in DOMAIN available' : available'[j] = available'[k] => j = k
        /\ \A k \in DOMAIN available' :
             available'[k] \notin ActiveIds /\ available'[k] # NextSlot
    BY <1>1, StackPoppedFacts
  <2>2. available' \in Seq(Ids')
    BY <1>2, <2>1, SeqMonotonic
  <2> QED
    BY <1>5, <2>1, <2>2 DEF StackSound
<1>10. StoreOK'
  BY <1>6, <1>7, <1>8, <1>9 DEF StoreOK, StoreTypes
<1> QED
  BY <1>1, <1>2, <1>3, <1>4, <1>5, <1>10
-----------------------------------------------------------------------------
(* Least elements, which Cheapest and NextPair choose *)

LEMMA LeastNat ==
  ASSUME NEW S \in SUBSET Nat, S # {}
  PROVE  \E x \in S : \A y \in S : x <= y
<1>1. PICK x \in S : \A y \in S : ~ (<<y, x>> \in OpToRel(<, Nat))
  BY NatLessThanWellFounded, WFMin
<1>2. \A y \in S : ~ (y < x)
  BY <1>1 DEF OpToRel
<1> QED
  BY <1>2

LEMMA LeastCost ==
  ASSUME NEW S \in SUBSET Nat, S # {}, NEW cost, \A w \in S : cost[w] \in Nat
  PROVE  \E w \in S : \A o \in S :
           cost[w] < cost[o] \/ (cost[w] = cost[o] /\ w <= o)
<1> DEFINE C == {cost[w] : w \in S}
<1>1. C \in SUBSET Nat /\ C # {}
  OBVIOUS
<1>2. PICK k \in C : \A y \in C : k <= y
  BY <1>1, LeastNat
<1> DEFINE E == {w \in S : cost[w] = k}
<1>3. E \in SUBSET Nat /\ E # {}
  BY <1>2
<1>4. PICK w \in E : \A y \in E : w <= y
  BY <1>3, LeastNat
<1>5. \A o \in S : k <= cost[o] /\ (cost[o] = k => w <= o)
  BY <1>2, <1>4
<1>6. w \in S /\ cost[w] = k /\ k \in Nat
  BY <1>1, <1>4
<1> QED
  BY <1>5, <1>6

\* The first variable to forget is one of them.
LEMMA CheapestFacts ==
  ASSUME StoreTypes, frgt \in SUBSET Vars, frgt # {}
  PROVE  Cheapest \in frgt
<1>1. frgt \in SUBSET Nat
  BY StoreAssumption
<1>2. \A w \in Vars : idx[w] \in SUBSET Ids /\ idx[-w] \in SUBSET Ids
  BY DEF StoreTypes, Literals
<1>3. \A w \in Vars : Cardinality(idx[w]) \in Nat /\ Cardinality(idx[-w]) \in Nat
  BY <1>2, SlotsFinite, FS_CardinalityType
<1>4. \A w \in Vars : OccurrenceProduct(w) \in Nat
  BY <1>3 DEF OccurrenceProduct
<1> DEFINE cost == [w \in frgt |-> OccurrenceProduct(w)]
<1>5. \A w \in frgt : cost[w] \in Nat /\ cost[w] = OccurrenceProduct(w)
  BY <1>4
<1> HIDE DEF cost
<1>6. PICK w \in frgt : \A o \in frgt :
        cost[w] < cost[o] \/ (cost[w] = cost[o] /\ w <= o)
  BY <1>1, <1>5, LeastCost
<1>7. \A o \in frgt : \/ OccurrenceProduct(w) < OccurrenceProduct(o)
                      \/ OccurrenceProduct(w) = OccurrenceProduct(o) /\ w <= o
  BY <1>5, <1>6
<1> QED
  BY <1>7 DEF Cheapest

\* And so is the next pair to resolve.
LEMMA NextPairFacts ==
  ASSUME pairs \in SUBSET (Nat \X Nat), pairs # {}
  PROVE  NextPair \in pairs
<1> DEFINE F == {q[1] : q \in pairs}
<1>1. F \in SUBSET Nat /\ F # {}
  OBVIOUS
<1>2. PICK k \in F : \A y \in F : k <= y
  BY <1>1, LeastNat
<1> DEFINE E == {q[2] : q \in {r \in pairs : r[1] = k}}
<1>3. E \in SUBSET Nat /\ E # {}
  BY <1>2
<1>4. PICK j \in E : \A y \in E : j <= y
  BY <1>3, LeastNat
<1>5. PICK q \in pairs : q[1] = k /\ q[2] = j
  BY <1>4
<1>6. \A r \in pairs : r[1] \in Nat /\ r[2] \in Nat /\ k <= r[1] /\ (r[1] = k => j <= r[2])
  BY <1>2, <1>4
<1>7. k \in Nat /\ j \in Nat
  BY <1>1, <1>3
<1>8. \A r \in pairs : q[1] < r[1] \/ (q[1] = r[1] /\ q[2] <= r[2])
  BY <1>5, <1>6, <1>7
<1> QED
  BY <1>8 DEF NextPair

-----------------------------------------------------------------------------
(* Assignments that differ on a few variables *)

Var(l) == IF l > 0 THEN l ELSE -l

LEMMA VarFacts ==
  ASSUME NEW l \in Literals
  PROVE  Var(l) \in Vars /\ l \in {Var(l), -Var(l)} /\ Var(-l) = Var(l)
         /\ \A w \in Vars : Var(l) = w <=> l \in {w, -w}
BY StoreAssumption DEF Literals, Var

LEMMA LiteralsOfVars ==
  \A w \in Vars : /\ w \in Literals /\ -w \in Literals /\ w # -w /\ -(-w) = w
                  /\ Var(w) = w /\ Var(-w) = w
BY StoreAssumption DEF Literals, Var

\* The assignments agree on the variables that are not in S.
AgreeOff(m, n, S) == \A l \in Literals : Var(l) \notin S => (l \in m <=> l \in n)

LEMMA AgreeEverywhere ==
  ASSUME NEW m \in Assignments, NEW n \in Assignments
  PROVE  AgreeOff(m, n, {}) <=> m = n
BY AssignmentLiterals DEF AgreeOff

\* A variable can be given the value one likes.
LEMMA CanSet ==
  ASSUME NEW m \in Assignments, NEW w \in Vars, NEW l \in {w, -w}
  PROVE  \E n \in Assignments : l \in n /\ AgreeOff(m, n, {w})
<1>1. PICK T \in SUBSET Vars : m = {IF x \in T THEN x ELSE -x : x \in Vars}
  BY DEF Assignments
<1> DEFINE R == IF l = w THEN T \cup {w} ELSE T \ {w}
           n == {IF x \in R THEN x ELSE -x : x \in Vars}
<1>2. R \in SUBSET Vars /\ \A x \in Vars : x # w => (x \in R <=> x \in T)
  OBVIOUS
<1>3. n \in Assignments
  <2>1. \A Q \in SUBSET Vars : {IF x \in Q THEN x ELSE -x : x \in Vars} \in Assignments
    BY DEF Assignments
  <2> HIDE DEF R
  <2> QED
    BY <1>2, <2>1
<1>4. l \in n
  BY LiteralsOfVars
<1>5. \A x \in Vars : x # w => (x \in m <=> x \in n) /\ (-x \in m <=> -x \in n)
  <2> SUFFICES ASSUME NEW x \in Vars, x # w
               PROVE  (x \in m <=> x \in n) /\ (-x \in m <=> -x \in n)
    OBVIOUS
  <2> DEFINE y == IF x \in T THEN x ELSE -x
  <2>1. y \in m /\ y \in n
    BY <1>1, <1>2
  <2>2. x \in Literals /\ -x \in Literals /\ -(-x) = x
    BY LiteralsOfVars
  <2>3. /\ (x \in m) <=> (-x \notin m)
        /\ (x \in n) <=> (-x \notin n)
    BY <1>3, <2>2, AssignmentFacts
  <2> QED
    BY <2>1, <2>3
<1>6. AgreeOff(m, n, {w})
  <2> SUFFICES ASSUME NEW k \in Literals, Var(k) # w PROVE k \in m <=> k \in n
    BY DEF AgreeOff
  <2>1. Var(k) \in Vars /\ k \in {Var(k), -Var(k)}
    BY VarFacts
  <2> QED
    BY <1>5, <2>1
<1> QED
  BY <1>3, <1>4, <1>6

\* Some variables can be made true.
LEMMA CanFix ==
  ASSUME NEW n \in Assignments, NEW S \in SUBSET Vars
  PROVE  \E m \in Assignments : S \subseteq m /\ AgreeOff(m, n, S)
<1>1. PICK T \in SUBSET Vars : n = {IF x \in T THEN x ELSE -x : x \in Vars}
  BY DEF Assignments
<1> DEFINE R == T \cup S
           m == {IF x \in R THEN x ELSE -x : x \in Vars}
<1>2. R \in SUBSET Vars /\ S \subseteq R /\ \A x \in Vars : x \notin S => (x \in R <=> x \in T)
  OBVIOUS
<1>3. m \in Assignments
  <2>1. \A Q \in SUBSET Vars : {IF x \in Q THEN x ELSE -x : x \in Vars} \in Assignments
    BY DEF Assignments
  <2> HIDE DEF R
  <2> QED
    BY <1>2, <2>1
<1>4. S \subseteq m
  BY <1>2
<1>5. \A x \in Vars : x \notin S => (x \in m <=> x \in n) /\ (-x \in m <=> -x \in n)
  <2> SUFFICES ASSUME NEW x \in Vars, x \notin S
               PROVE  (x \in m <=> x \in n) /\ (-x \in m <=> -x \in n)
    OBVIOUS
  <2> DEFINE y == IF x \in T THEN x ELSE -x
  <2>1. y \in n /\ y \in m
    BY <1>1, <1>2
  <2>2. x \in Literals /\ -x \in Literals /\ -(-x) = x
    BY LiteralsOfVars
  <2>3. /\ (x \in m) <=> (-x \notin m)
        /\ (x \in n) <=> (-x \notin n)
    BY <1>3, <2>2, AssignmentFacts
  <2> QED
    BY <2>1, <2>3
<1>6. AgreeOff(m, n, S)
  <2> SUFFICES ASSUME NEW k \in Literals, Var(k) \notin S PROVE k \in m <=> k \in n
    BY DEF AgreeOff
  <2>1. Var(k) \in Vars /\ k \in {Var(k), -Var(k)}
    BY VarFacts
  <2> QED
    BY <1>5, <2>1
<1> QED
  BY <1>3, <1>4, <1>6

\* A clause says the same of two assignments that agree on its variables.
LEMMA SatisfiesAgree ==
  ASSUME NEW m, NEW n, NEW S, AgreeOff(m, n, S), NEW c \in SUBSET Literals,
         \A l \in c : Var(l) \notin S
  PROVE  Satisfies(m, c) <=> Satisfies(n, c)
BY DEF AgreeOff, Satisfies

LEMMA VarsOfFacts ==
  ASSUME NEW c, NEW S
  PROVE  (VarsOf(c) \cap S = {}) <=> \A l \in c : Var(l) \notin S
BY DEF VarsOf, Var

\* Assignments that agree off S are the same once S is left out.
LEMMA KeptEqual ==
  ASSUME NEW M \in SUBSET Assignments, NEW N \in SUBSET Assignments,
         \A m \in M : \E n \in N : AgreeOff(m, n, Gone),
         \A n \in N : \E m \in M : AgreeOff(n, m, Gone)
  PROVE  Kept(M) = Kept(N)
<1> DEFINE Cut(m) == {l \in m : VarsOf({l}) \cap Gone = {}}
<1>1. ASSUME NEW m \in Assignments, NEW n \in Assignments, AgreeOff(m, n, Gone)
      PROVE  Cut(m) = Cut(n)
  <2>1. \A l : (VarsOf({l}) \cap Gone = {}) <=> Var(l) \notin Gone
    BY VarsOfFacts
  <2>2. m \subseteq Literals /\ n \subseteq Literals
    BY AssignmentLiterals
  <2> QED
    BY <1>1, <2>1, <2>2 DEF AgreeOff
<1>2. Kept(M) = {Cut(m) : m \in M} /\ Kept(N) = {Cut(n) : n \in N}
  BY DEF Kept
<1> HIDE DEF Cut
<1> QED
  BY <1>1, <1>2

-----------------------------------------------------------------------------
(* Formulas *)

LEMMA UnitModels ==
  \A U, m : (\A c \in UnitClauses(U) : Satisfies(m, c)) <=> U \subseteq m
<1> SUFFICES ASSUME NEW U, NEW m
             PROVE  (\A c \in UnitClauses(U) : Satisfies(m, c)) <=> U \subseteq m
  OBVIOUS
<1>1. \A c : c \in UnitClauses(U) <=> \E l \in U : c = {l}
  BY DEF UnitClauses
<1>2. \A l : Satisfies(m, {l}) <=> l \in m
  BY DEF Satisfies
<1>3. ASSUME \A c \in UnitClauses(U) : Satisfies(m, c) PROVE U \subseteq m
  <2>1. \A l \in U : {l} \in UnitClauses(U)
    BY <1>1
  <2> QED
    BY <1>2, <1>3, <2>1
<1>4. ASSUME U \subseteq m PROVE \A c \in UnitClauses(U) : Satisfies(m, c)
  BY <1>1, <1>2, <1>4
<1> QED
  BY <1>3, <1>4

\* What two clauses imply that hold w and its negation.
LEMMA ResolventFollows ==
  ASSUME NEW m \in Assignments, NEW w \in Vars,
         NEW a \in SUBSET Literals, NEW b \in SUBSET Literals,
         -w \in b, ~Tautology(b), Satisfies(m, a), Satisfies(m, b)
  PROVE  Satisfies(m, (a \ {w}) \cup (b \ {w, -w}))
<1>1. w \in Literals /\ -w \in Literals /\ -(-w) = w
  BY LiteralsOfVars
<1>2. w \notin b
  BY <1>1 DEF Tautology
<1>3. w \in m <=> -w \notin m
  BY <1>1, AssignmentFacts
<1>4. PICK k \in a : k \in m
  BY DEF Satisfies
<1>5. PICK j \in b : j \in m
  BY DEF Satisfies
<1> QED
  BY <1>2, <1>3, <1>4, <1>5 DEF Satisfies

-----------------------------------------------------------------------------
(* The inductive invariant *)

Early == {"tautologies", "collect", "apply", "copy"}
Late == {"project", "resolve", "write", "done", "crashed"}

TypesInv ==
  /\ StoreOK
  /\ pc \in Early \cup Late
  /\ units \subseteq Literals /\ u \subseteq units
  /\ frgt \subseteq Vars /\ dign \subseteq Vars
  /\ pc # "apply" => u = {}
  /\ pc \in Early => dign = {}
  /\ pc \in {"resolve", "crashed"} => v \in Vars

\* idx lists the active clauses, and those of units that are still to be propagated.
Indexed == \A id \in ActiveIds, k \in Literals : k \in clauses[id] => id \in idx[k]
Pending(id, k) == k \in u /\ clauses[id] = {k}
Listed == \A k \in Literals : \A id \in idx[k] :
            k \in clauses[id] /\ (id \in ActiveIds \/ Pending(id, k))

\* A unit that has been propagated occurs no more.
Propagated == \A l \in units \ u : idx[l] = {} /\ idx[-l] = {}

NoTautology == pc # "tautologies" => \A id \in ActiveIds : ~Tautology(clauses[id])

\* The variables forgotten occur no more.
Clean == \A id \in ActiveIds : \A l \in clauses[id] : Var(l) \notin dign

PairsListed == pc = "resolve" => pairs \subseteq idx[v] \X idx[-v]

\* The splitter, which shares simplify, leaves tautologies where they are.
BaseInv == TypesInv /\ Indexed /\ Listed /\ Propagated /\ Clean /\ PairsListed
StoreInv == BaseInv /\ NoTautology

\* The assignment satisfies the clauses and the units.
Sat(m) == m \in Assignments /\ (\A id \in ActiveIds : Satisfies(m, clauses[id])) /\ units \subseteq m
TheModels == Models(Given)
SameModels == \A m : Sat(m) <=> m \in TheModels

\* Nothing but consequences of the formula that say nothing of the variables forgotten,
\* and all of them.
Sound ==
  /\ \A l \in units : Var(l) \notin dign
  /\ \A n \in TheModels, m \in Assignments : AgreeOff(m, n, dign) => Sat(m)
Whole == \A m : Sat(m) => \E n \in TheModels : AgreeOff(m, n, Gone)

\* What two clauses of v say together is a tautology, or is said by a clause, or has
\* still to be added.
Resolved ==
  pc = "resolve" =>
    /\ v \notin units /\ -v \notin units
    /\ \A a \in idx[v], b \in idx[-v] :
         \/ <<a, b>> \in pairs
         \/ Tautology(Resolvent(<<a, b>>))
         \/ \E id \in ActiveIds : clauses[id] \subseteq Resolvent(<<a, b>>)

\* The copy put aside is the formula.
UpIds == {id \in DOMAIN up.clauses : up.active[id]}
UpSat(m) == m \in Assignments /\ (\A id \in UpIds : Satisfies(m, up.clauses[id])) /\ up.units \subseteq m
UpInv ==
  pc \in Late => /\ \A id \in UpIds : up.clauses[id] \in SUBSET Literals
                 /\ \A m : UpSat(m) <=> m \in TheModels

\* Forgetting drops a unit and never looks at its negation: it is exact as long as no two
\* units contradict each other.
Consistent == ~\E l \in up.units : -l \in up.units

SemInv ==
  /\ pc \in Early => \A m : Sat(m) <=> m \in TheModels
  /\ pc \in Late /\ Consistent => Sound /\ Whole /\ Resolved
  /\ Satisfiable => pc # "crashed"

\* Of two units that contradict each other the negative one is never dropped, and the
\* positive one is only dropped for the clause that fixes its variable.
BeingForgotten(w) == pc \in {"resolve", "crashed"} /\ w = v
ClashInv ==
  pc \in Late =>
    /\ units \subseteq up.units /\ up.units \subseteq Literals
    /\ frgt \cap dign = {}
    /\ \A w \in Vars : w \in up.units /\ -w \in up.units =>
         -w \in units /\ (w \in units \cup dign \/ BeingForgotten(w))

IInv == StoreInv /\ SemInv /\ UpInv /\ ClashInv /\ SplitExact

LEMMA SatFacts ==
  \A m : m \in Models(Projected) <=> Sat(m)
<1> SUFFICES ASSUME NEW m PROVE m \in Models(Projected) <=> Sat(m)
  OBVIOUS
<1>1. m \in Models(Projected) <=> m \in Assignments /\ \A c \in Projected : Satisfies(m, c)
  BY DEF Models
<1>2. (\A c \in Projected : Satisfies(m, c)) <=>
        /\ \A id \in ActiveIds : Satisfies(m, clauses[id])
        /\ \A c \in UnitClauses(units) : Satisfies(m, c)
  BY DEF Projected
<1> QED
  BY <1>1, <1>2, UnitModels DEF Sat

\* The clauses that fix the forgotten variables are clauses of <F>.p.
LEMMA FixedFacts ==
  \A m : m \in Models(PClauses) <=> Sat(m) /\ dign \subseteq m
<1> SUFFICES ASSUME NEW m PROVE m \in Models(PClauses) <=> Sat(m) /\ dign \subseteq m
  OBVIOUS
<1>1. m \in Models(PClauses)
      <=> m \in Models(Projected) /\ \A c \in UnitClauses(dign) : Satisfies(m, c)
  BY DEF Models, PClauses
<1> QED
  BY <1>1, SatFacts, UnitModels

\* Two contradictory units leave no model.
LEMMA NoModels ==
  ASSUME NEW w \in Vars, NEW m \in Assignments, w \in m, -w \in m
  PROVE  FALSE
BY LiteralsOfVars, AssignmentFacts

LEMMA ClashVariable ==
  ASSUME up.units \subseteq Literals, ~Consistent
  PROVE  \E w \in Vars : w \in up.units /\ -w \in up.units
<1>1. PICK l \in up.units : -l \in up.units
  BY DEF Consistent
<1>2. Var(l) \in Vars /\ l \in {Var(l), -Var(l)} /\ -(-Var(l)) = Var(l)
  BY VarFacts, LiteralsOfVars
<1> QED
  BY <1>1, <1>2

LEMMA SatisfiableConsistent ==
  ASSUME pc \in Late, UpInv, ClashInv, Satisfiable
  PROVE  Consistent
<1> SUFFICES ASSUME ~Consistent PROVE FALSE
  OBVIOUS
<1>1. PICK n : n \in TheModels
  BY DEF Satisfiable, TheModels
<1>2. n \in Assignments /\ up.units \subseteq n
  BY <1>1 DEF UpInv, UpSat
<1>3. PICK w \in Vars : w \in up.units /\ -w \in up.units
  BY ClashVariable DEF ClashInv
<1> QED
  BY <1>2, <1>3, NoModels

\* Of a formula whose units agree, <F>.p says the same, although it fixes the variables
\* that are forgotten.
LEMMA KeptWhenSound ==
  ASSUME dign \subseteq Vars, Sound, Whole
  PROVE  Kept(Models(PClauses)) = Kept(Models(Given))
<1>1. Models(PClauses) \in SUBSET Assignments /\ Models(Given) \in SUBSET Assignments
  BY DEF Models
<1>2. \A m \in Models(PClauses) : \E n \in Models(Given) : AgreeOff(m, n, Gone)
  BY FixedFacts DEF Whole, TheModels
<1>3. ASSUME NEW n \in Models(Given)
      PROVE  \E m \in Models(PClauses) : AgreeOff(n, m, Gone)
  <2>1. PICK m \in Assignments : dign \subseteq m /\ AgreeOff(m, n, dign)
    BY <1>1, CanFix
  <2>2. Sat(m)
    BY <2>1 DEF Sound, TheModels
  <2>3. AgreeOff(n, m, Gone)
    BY <2>1 DEF AgreeOff, Gone
  <2> QED
    BY <2>1, <2>2, <2>3, FixedFacts
<1> QED
  BY <1>1, <1>2, <1>3, KeptEqual

\* Of one whose units do not, the file keeps a contradiction.
LEMMA KeptWhenClashing ==
  ASSUME pc \in Late \ {"resolve", "crashed"}, UpInv, ClashInv, ~Consistent
  PROVE  Models(PClauses) = {} /\ Models(Given) = {}
<1>1. PICK w \in Vars : w \in up.units /\ -w \in up.units
  BY ClashVariable DEF ClashInv
<1>2. -w \in units /\ w \in units \cup dign
  BY <1>1 DEF ClashInv, BeingForgotten
<1>3. ASSUME NEW m \in Models(PClauses) PROVE FALSE
  <2>1. m \in Assignments /\ units \subseteq m /\ dign \subseteq m
    BY FixedFacts DEF Sat
  <2> QED
    BY <1>2, <2>1, NoModels
<1>4. ASSUME NEW m \in Models(Given) PROVE FALSE
  <2>1. m \in Assignments /\ up.units \subseteq m
    BY DEF UpInv, UpSat, TheModels
  <2> QED
    BY <1>1, <2>1, NoModels
<1> QED
  BY <1>3, <1>4

\* What the invariant says of the formula.
LEMMA InvImplies ==
  ASSUME BaseInv, SemInv, UpInv, ClashInv
  PROVE  ProjectionExact
<1>1. pc \in Early \cup Late /\ dign \subseteq Vars /\ (pc \in Early => dign = {})
  BY DEF BaseInv, TypesInv
<1>2. Satisfiable => pc # "crashed"
  BY DEF SemInv
<1>3. ASSUME pc \notin {"resolve", "crashed"} \/ Satisfiable
      PROVE  Kept(Models(PClauses)) = Kept(Models(Given))
  <2>1. CASE pc \in Early
    <3>1. \A m : m \in Models(PClauses) <=> m \in Models(Given)
      BY <1>1, <2>1, FixedFacts DEF SemInv, TheModels
    <3>2. Models(PClauses) = Models(Given)
      BY <3>1 DEF Models
    <3> QED
      BY <3>2
  <2>2. CASE pc \in Late /\ Consistent
    <3>1. Sound /\ Whole
      BY <2>2 DEF SemInv
    <3> QED
      BY <1>1, <3>1, KeptWhenSound
  <2>3. CASE pc \in Late /\ ~Consistent
    <3>1. pc \in Late \ {"resolve", "crashed"}
      BY <1>3, <2>3, SatisfiableConsistent
    <3> QED
      BY <2>3, <3>1, KeptWhenClashing
  <2> QED
    BY <1>1, <2>1, <2>2, <2>3
<1>4. ASSUME Satisfiable, NEW c \in Projected PROVE VarsOf(c) \cap dign = {}
  <2>1. \A l \in units : Var(l) \notin dign
    BY <1>1, <1>4, SatisfiableConsistent DEF SemInv, Sound
  <2>2. \A l \in c : Var(l) \notin dign
    BY <2>1 DEF Projected, UnitClauses, BaseInv, Clean
  <2> QED
    BY <2>2, VarsOfFacts
<1> QED
  BY <1>2, <1>3, <1>4 DEF ProjectionExact

-----------------------------------------------------------------------------
(* The initial state and simplify *)

LEMMA SatOfModels ==
  \A m : m \in TheModels <=> m \in Assignments /\ \A c \in Given : Satisfies(m, c)
BY DEF TheModels, Models

\* A formula that was just read, by the tool when it starts or from what the splitter wrote.
Fresh ==
  /\ given \in InputFields /\ Len(given.clauses) < 2^Width
  /\ Load(given.clauses)
  /\ pc = "tautologies"
  /\ units = {} /\ u = {} /\ frgt = {} /\ dign = {} /\ pairs = {}
  /\ v = 0 /\ ina \in 0 .. 2^Width - 1

LEMMA InitFresh == Init => Fresh
<1>1. 0 \in 0 .. 2^Width - 1
  BY Sizes
<1> QED
  BY <1>1, InputsAssumption DEF Init, Fresh

LEMMA InitInv == Fresh => IInv
<1> SUFFICES ASSUME Fresh PROVE IInv
  OBVIOUS
<1>1. given.clauses \in Seq(SUBSET Literals)
  BY DEF Fresh, InputFields
<1>2. /\ clauses = given.clauses /\ Ids = DOMAIN given.clauses
      /\ active = [id \in Ids |-> TRUE]
      /\ idx = [l \in Literals |-> {id \in Ids : l \in clauses[id]}]
      /\ available = <<>>
  BY DEF Fresh, Load, Ids
<1>3. /\ pc = "tautologies" /\ units = {} /\ u = {} /\ frgt = {} /\ dign = {}
  BY DEF Fresh
<1>4. ActiveIds = Ids
  BY <1>2 DEF ActiveIds
<1>5. StoreOK
  <2>1. available \in Seq(Ids) /\ DOMAIN available = {}
    BY <1>2, EmptySeq
  <2>2. idx \in [Literals -> SUBSET Ids] /\ active \in [Ids -> BOOLEAN]
    BY <1>2
  <2> QED
    BY <1>1, <1>2, <2>1, <2>2 DEF StoreOK, StoreTypes, StackSound
<1>6. StoreInv
  <2>1. TypesInv
    BY <1>3, <1>5 DEF TypesInv, Early, Late
  <2>2. Indexed /\ Listed
    BY <1>2, <1>4 DEF Indexed, Listed
  <2>3. Propagated /\ NoTautology /\ Clean /\ PairsListed
    BY <1>3 DEF Propagated, NoTautology, Clean, PairsListed
  <2> QED
    BY <2>1, <2>2, <2>3 DEF StoreInv, BaseInv
<1>7. \A m : Sat(m) <=> m \in TheModels
  <2>1. \A m : (\A c \in Given : Satisfies(m, c)) <=> \A id \in ActiveIds : Satisfies(m, clauses[id])
    BY <1>2, <1>4 DEF Given
  <2> QED
    BY <1>3, <2>1, SatOfModels DEF Sat
<1> QED
  BY <1>3, <1>6, <1>7 DEF IInv, SemInv, UpInv, ClashInv, SplitExact, Late

LEMMA RemoveTautologiesStep ==
  ASSUME IInv, RemoveTautologies
  PROVE  IInv'
<1> DEFINE T == {id \in ActiveIds : Tautology(clauses[id])}
<1>1. /\ pc = "tautologies" /\ pc' = "collect"
      /\ UNCHANGED <<units, u, frgt, dign, given>>
  BY DEF RemoveTautologies
<1>2. StoreInv /\ \A m : Sat(m) <=> m \in TheModels
  BY <1>1 DEF IInv, SemInv, Early
<1>3. StoreOK /\ units \subseteq Literals /\ u = {} /\ dign = {}
  BY <1>1, <1>2 DEF StoreInv, BaseInv, TypesInv, Early
<1>4. T \in SUBSET ActiveIds /\ T \in SUBSET Ids
  BY DEF ActiveIds
<1>5. PICK order \in Ascending(T) : RmClauses(order)
  BY DEF RemoveTautologies
<1>6. /\ order \in Seq(T) /\ SlotsOf(order) = T
      /\ \A j, k \in DOMAIN order : order[j] = order[k] => j = k
  BY <1>3, <1>4, AscendingFacts DEF StoreOK
<1> HIDE DEF T
<1>7. /\ StoreOK' /\ clauses' = clauses /\ Ids' = Ids
      /\ ActiveIds' = ActiveIds \ T
      /\ \A l \in Literals : idx'[l] = idx[l] \ {id \in T : l \in clauses[id]}
  BY <1>3, <1>4, <1>5, <1>6, RemoveFacts
<1>8. \A id \in ActiveIds : id \in T <=> Tautology(clauses[id])
  BY DEF T
<1>9. StoreInv'
  <2>1. TypesInv'
    BY <1>1, <1>2, <1>7 DEF StoreInv, BaseInv, TypesInv, Early, Late
  <2>2. Indexed' /\ Listed'
    <3>1. Indexed'
      BY <1>2, <1>7 DEF StoreInv, BaseInv, Indexed
    <3>2. ASSUME NEW k \in Literals, NEW id \in idx'[k]
          PROVE  k \in clauses'[id] /\ id \in ActiveIds'
      <4>1. id \in idx[k] /\ ~(id \in T /\ k \in clauses[id])
        BY <1>7, <3>2
      <4>2. k \in clauses[id] /\ id \in ActiveIds
        BY <1>2, <1>3, <4>1 DEF StoreInv, BaseInv, Listed, Pending
      <4> QED
        BY <1>7, <4>1, <4>2
    <3> QED
      BY <3>1, <3>2 DEF Listed
  <2>3. Propagated'
    <3>1. \A l \in units : l \in Literals /\ -l \in Literals
      BY <1>3, LiteralFacts
    <3>2. \A l \in units \ u : idx[l] = {} /\ idx[-l] = {}
      BY <1>2 DEF StoreInv, BaseInv, Propagated
    <3>3. \A l \in units \ u : idx'[l] = {} /\ idx'[-l] = {}
      BY <1>7, <3>1, <3>2
    <3> QED
      BY <1>1, <3>3 DEF Propagated
  <2>4. NoTautology'
    BY <1>7, <1>8 DEF NoTautology
  <2>5. Clean' /\ PairsListed'
    BY <1>1, <1>2, <1>7 DEF StoreInv, BaseInv, Clean, PairsListed
  <2> QED
    BY <2>1, <2>2, <2>3, <2>4, <2>5 DEF StoreInv, BaseInv
<1>10. \A m : Sat(m)' <=> Sat(m)
  <2> SUFFICES ASSUME NEW m PROVE Sat(m)' <=> Sat(m)
    OBVIOUS
  <2>1. \A id \in ActiveIds : clauses[id] \in SUBSET Literals
    BY <1>3, ClauseTypes DEF StoreOK, ActiveIds
  <2>2. m \in Assignments => \A id \in T : Satisfies(m, clauses[id])
    BY <1>4, <1>8, <2>1, TautologySatisfied
  <2> QED
    BY <1>1, <1>7, <2>2 DEF Sat
<1>11. TheModels' = TheModels
  BY <1>1 DEF TheModels, Given
<1> QED
  <2>1. \A m : Sat(m)' <=> m \in TheModels'
    BY <1>2, <1>10, <1>11
  <2> QED
    BY <1>1, <1>9, <2>1 DEF IInv, SemInv, UpInv, ClashInv, SplitExact, Late

\* Clauses are switched off: their slots are not freed.
LEMMA SwitchOffFacts ==
  ASSUME StoreOK, NEW S, SwitchOff(S), DOMAIN clauses' = Ids, available' = available
  PROVE  /\ ActiveIds' = ActiveIds \ S /\ Ids' = Ids
         /\ active' \in [Ids' -> BOOLEAN] /\ available' \in Seq(Ids') /\ StackSound'
<1>1. active' = [id \in Ids |-> active[id] /\ id \notin S] /\ Ids' = Ids
  BY DEF SwitchOff, Ids
<1>2. ActiveIds' = ActiveIds \ S
  BY <1>1 DEF ActiveIds
<1>3. available' \in Seq(Ids') /\ StackSound'
  BY <1>1, <1>2 DEF StoreOK, StoreTypes, StackSound
<1>4. active' \in [Ids' -> BOOLEAN]
  BY <1>1
<1> QED
  BY <1>1, <1>2, <1>3, <1>4

LEMMA CollectUnitsBase ==
  ASSUME BaseInv, SameModels, CollectUnits
  PROVE  /\ BaseInv' /\ SameModels' /\ pc' \in Early \ {"tautologies"} /\ pc \in Early
         /\ NoTautology => NoTautology'
<1>1. /\ pc = "collect" /\ pc' = IF u' = {} THEN "copy" ELSE "apply"
      /\ u' = UNION {clauses[id] : id \in UnitIds} /\ units' = units \cup u'
      /\ SwitchOff(UnitIds)
      /\ UNCHANGED <<clauses, idx, available, frgt, dign, given>>
  BY DEF CollectUnits, storeRest
<1>2. BaseInv /\ \A m : Sat(m) <=> m \in TheModels
  BY DEF SameModels
<1>3. StoreOK /\ units \subseteq Literals /\ u = {} /\ dign = {}
  BY <1>1, <1>2 DEF StoreInv, BaseInv, TypesInv, Early
<1>4. \A id \in ActiveIds : clauses[id] \in SUBSET Literals
  BY <1>3, ClauseTypes DEF StoreOK, ActiveIds
<1>5. \A id \in ActiveIds : id \in UnitIds <=> \E l \in Literals : clauses[id] = {l}
  BY <1>4, UnitClause DEF UnitIds
<1>6. UnitIds \subseteq ActiveIds
  BY DEF UnitIds
<1>7. /\ ActiveIds' = ActiveIds \ UnitIds /\ Ids' = Ids
      /\ active' \in [Ids' -> BOOLEAN] /\ available' \in Seq(Ids') /\ StackSound'
  BY <1>1, <1>3, SwitchOffFacts DEF Ids
<1> HIDE DEF UnitIds
<1>8. /\ u' \subseteq Literals
      /\ \A l : l \in u' <=> \E id \in UnitIds : l \in clauses[id]
  BY <1>1, <1>4, <1>6
<1>9. StoreOK'
  BY <1>1, <1>3, <1>7 DEF StoreOK, StoreTypes
<1>10. BaseInv' /\ (NoTautology => NoTautology')
  <2>1. TypesInv'
    <3>1. pc' \in Early /\ (pc' # "apply" => u' = {})
      BY <1>1 DEF Early
    <3>2. frgt \subseteq Vars /\ dign \subseteq Vars
      BY <1>2 DEF StoreInv, BaseInv, TypesInv
    <3> QED
      BY <1>1, <1>3, <1>8, <1>9, <3>1, <3>2 DEF TypesInv, Early
  <2>2. Indexed'
    BY <1>1, <1>2, <1>7 DEF StoreInv, BaseInv, Indexed
  <2>3. Listed'
    <3> SUFFICES ASSUME NEW k \in Literals, NEW id \in idx[k]
                 PROVE  k \in clauses[id] /\ (id \in ActiveIds' \/ (k \in u' /\ clauses[id] = {k}))
      BY <1>1 DEF Listed, Pending
    <3>1. k \in clauses[id] /\ id \in ActiveIds
      BY <1>2, <1>3 DEF StoreInv, BaseInv, Listed, Pending
    <3>2. CASE id \in UnitIds
      BY <1>5, <1>8, <3>1, <3>2
    <3>3. CASE id \notin UnitIds
      BY <1>7, <3>1, <3>3
    <3> QED
      BY <3>2, <3>3
  <2>4. Propagated'
    BY <1>1, <1>2, <1>3 DEF StoreInv, BaseInv, Propagated
  <2>5. Clean' /\ PairsListed'
    BY <1>1, <1>2, <1>3, <1>7 DEF BaseInv, Clean, PairsListed
  <2>6. NoTautology => NoTautology'
    BY <1>1, <1>7 DEF NoTautology
  <2> QED
    BY <2>1, <2>2, <2>3, <2>4, <2>5, <2>6 DEF BaseInv
<1>11. ASSUME NEW m PROVE Sat(m)' <=> Sat(m)
  <2>1. (\A id \in UnitIds : Satisfies(m, clauses[id])) <=> u' \subseteq m
    <3>1. \A id \in UnitIds : \E l \in u' : clauses[id] = {l}
      BY <1>5, <1>6, <1>8
    <3>2. \A l \in u' : \E id \in UnitIds : clauses[id] = {l}
      BY <1>5, <1>6, <1>8
    <3>3. \A l : Satisfies(m, {l}) <=> l \in m
      BY DEF Satisfies
    <3>4. ASSUME \A id \in UnitIds : Satisfies(m, clauses[id]), NEW l \in u'
          PROVE  l \in m
      BY <3>2, <3>3, <3>4
    <3>5. ASSUME u' \subseteq m, NEW id \in UnitIds
          PROVE  Satisfies(m, clauses[id])
      BY <3>1, <3>3, <3>5
    <3> QED
      BY <3>4, <3>5
  <2>2. Sat(m) <=> /\ m \in Assignments
                   /\ \A id \in ActiveIds \ UnitIds : Satisfies(m, clauses[id])
                   /\ \A id \in UnitIds : Satisfies(m, clauses[id])
                   /\ units \subseteq m
    BY <1>6 DEF Sat
  <2>3. Sat(m)' <=> /\ m \in Assignments
                    /\ \A id \in ActiveIds \ UnitIds : Satisfies(m, clauses[id])
                    /\ units \subseteq m /\ u' \subseteq m
    BY <1>1, <1>7 DEF Sat
  <2> QED
    BY <2>1, <2>2, <2>3
<1>12. TheModels' = TheModels
  BY <1>1 DEF TheModels, Given
<1> QED
  BY <1>1, <1>2, <1>10, <1>11, <1>12 DEF SameModels, Early

LEMMA CollectUnitsStep ==
  ASSUME IInv, CollectUnits
  PROVE  IInv'
<1>1. pc = "collect" /\ StoreInv /\ SameModels
  BY DEF CollectUnits, IInv, SemInv, SameModels, Early
<1>2. /\ BaseInv' /\ SameModels' /\ pc' \in Early \ {"tautologies"} /\ NoTautology'
  BY <1>1, CollectUnitsBase DEF StoreInv
<1> QED
  BY <1>2 DEF IInv, StoreInv, SemInv, SameModels, UpInv, ClashInv, SplitExact, Early, Late

LEMMA ApplyUnitBase ==
  ASSUME BaseInv, SameModels, NEW l \in u, ApplyUnit(l)
  PROVE  /\ BaseInv' /\ SameModels' /\ pc' \in Early \ {"tautologies"} /\ pc \in Early
         /\ NoTautology => NoTautology'
<1> DEFINE rest == IdxWithout(idx[l])
<1>1. /\ pc = "apply" /\ pc' = IF u' = {} THEN "collect" ELSE "apply"
      /\ SwitchOff(idx[l])
      /\ clauses' = [id \in Ids |-> IF id \in rest[-l] THEN clauses[id] \ {-l} ELSE clauses[id]]
      /\ idx' = [rest EXCEPT ![-l] = {}]
      /\ u' = u \ {l}
      /\ UNCHANGED <<available, units, frgt, dign, given>>
  BY DEF ApplyUnit, PropagatedIdx
<1>2. BaseInv /\ \A m : Sat(m) <=> m \in TheModels
  BY DEF SameModels
<1>3. StoreOK /\ units \subseteq Literals /\ u \subseteq units /\ dign = {}
  BY <1>1, <1>2 DEF StoreInv, BaseInv, TypesInv, Early
<1>4. l \in Literals /\ -l \in Literals /\ l # -l /\ l \in units
  BY <1>3, LiteralFacts
<1>5. /\ rest = [k \in Literals |-> rest[k]]
      /\ \A k \in Literals : \A id : id \in rest[k] <=> id \in idx[k] /\ ~(id \in idx[l] /\ k \in clauses[id])
  BY DEF IdxWithout
<1>6. /\ DOMAIN clauses' = Ids
      /\ \A id \in Ids : clauses[id] \in SUBSET Literals
  BY <1>1, <1>3, ClauseTypes DEF StoreOK
<1>7. /\ ActiveIds' = ActiveIds \ idx[l] /\ Ids' = Ids
      /\ active' \in [Ids' -> BOOLEAN] /\ available' \in Seq(Ids') /\ StackSound'
  BY <1>1, <1>3, <1>6, SwitchOffFacts
<1> HIDE DEF rest
<1>8. \A id \in Ids : clauses'[id] = IF id \in rest[-l] THEN clauses[id] \ {-l} ELSE clauses[id]
  BY <1>1
<1>9. \A k \in Literals : idx'[k] = IF k = -l THEN {} ELSE rest[k]
  BY <1>1, <1>4, <1>5
<1>10. StoreOK'
  <2>1. clauses' \in Seq(SUBSET Literals)
    <3>1. Ids = 1 .. Len(clauses) /\ Len(clauses) \in Nat
      BY <1>3, ClauseTypes DEF StoreOK
    <3>2. \A id \in Ids : clauses'[id] \in SUBSET Literals
      BY <1>6, <1>8
    <3>3. clauses' \in [1 .. Len(clauses) -> SUBSET Literals]
      BY <1>1, <3>1, <3>2
    <3> QED
      BY <3>1, <3>3, SeqDef
  <2>2. idx' \in [Literals -> SUBSET Ids']
    <3>1. \A k \in Literals : idx[k] \subseteq Ids
      BY <1>3 DEF StoreOK, StoreTypes
    <3>2. \A k \in Literals : idx'[k] \subseteq Ids
      BY <1>5, <1>9, <3>1
    <3>3. DOMAIN idx' = Literals /\ idx' = [k \in Literals |-> idx'[k]]
      BY <1>1, <1>5
    <3> QED
      BY <1>7, <3>2, <3>3
  <2> QED
    BY <1>7, <2>1, <2>2 DEF StoreOK, StoreTypes
<1>11. /\ \A k \in Literals : \A id \in idx[k] :
            id \in Ids /\ k \in clauses[id] /\ (id \in ActiveIds \/ (k \in u /\ clauses[id] = {k}))
       /\ \A id \in ActiveIds : \A k \in Literals : k \in clauses[id] => id \in idx[k]
  BY <1>2, <1>3 DEF StoreInv, BaseInv, Listed, Pending, Indexed, StoreOK, StoreTypes
<1>12. \A id \in ActiveIds' : id \in Ids /\ clauses'[id] \subseteq clauses[id]
                              /\ -l \notin clauses'[id] /\ (clauses[id] \ {-l}) \subseteq clauses'[id]
  <2> SUFFICES ASSUME NEW id \in ActiveIds'
               PROVE  id \in Ids /\ clauses'[id] \subseteq clauses[id]
                      /\ -l \notin clauses'[id] /\ (clauses[id] \ {-l}) \subseteq clauses'[id]
    OBVIOUS
  <2>1. id \in Ids /\ id \in ActiveIds /\ id \notin idx[l]
    BY <1>7 DEF ActiveIds
  <2>2. -l \in clauses[id] => id \in rest[-l]
    BY <1>4, <1>5, <1>11, <2>1
  <2> QED
    BY <1>8, <2>1, <2>2
<1>13. Indexed'
  <2> SUFFICES ASSUME NEW id \in ActiveIds', NEW k \in Literals, k \in clauses'[id]
               PROVE  id \in idx'[k]
    BY DEF Indexed
  <2>1. id \in ActiveIds /\ id \notin idx[l] /\ k \in clauses[id] /\ k # -l
    BY <1>7, <1>12
  <2> QED
    BY <1>5, <1>9, <1>11, <2>1
<1>14. Listed'
  <2> SUFFICES ASSUME NEW k \in Literals, NEW id \in idx'[k]
               PROVE  k \in clauses'[id] /\ (id \in ActiveIds' \/ (k \in u' /\ clauses'[id] = {k}))
    BY DEF Listed, Pending
  <2>1. k # -l /\ id \in idx[k] /\ ~(id \in idx[l] /\ k \in clauses[id])
    BY <1>5, <1>9
  <2>2. id \in Ids /\ k \in clauses[id] /\ id \notin idx[l] /\ k # l
    BY <1>11, <2>1
  <2>3. k \in clauses'[id]
    BY <1>8, <2>1, <2>2
  <2>4. CASE id \in ActiveIds
    BY <1>7, <2>2, <2>3, <2>4
  <2>5. CASE k \in u /\ clauses[id] = {k}
    <3>1. clauses'[id] = {k}
      BY <1>8, <2>1, <2>2, <2>5
    <3> QED
      BY <1>1, <2>2, <2>3, <2>5, <3>1
  <2> QED
    BY <1>11, <2>1, <2>4, <2>5
<1>15. Propagated'
  <2> SUFFICES ASSUME NEW j \in units, j \notin u \ {l} PROVE idx'[j] = {} /\ idx'[-j] = {}
    BY <1>1 DEF Propagated
  <2>1. j \in Literals /\ -j \in Literals
    BY <1>3, LiteralFacts
  <2>2. CASE j = l
    <3>1. rest[l] = {}
      BY <1>4, <1>5, <1>11
    <3> QED
      BY <1>4, <1>9, <2>2, <3>1
  <2>3. CASE j # l
    <3>1. idx[j] = {} /\ idx[-j] = {}
      BY <1>2, <2>3 DEF StoreInv, BaseInv, Propagated
    <3>2. rest[j] = {} /\ rest[-j] = {}
      BY <1>5, <2>1, <3>1
    <3> QED
      BY <1>9, <2>1, <3>2
  <2> QED
    BY <2>2, <2>3
<1>16. BaseInv' /\ (NoTautology => NoTautology')
  <2>1. TypesInv'
    <3>1. pc' \in Early /\ (pc' # "apply" => u' = {})
      BY <1>1 DEF Early
    <3>2. frgt \subseteq Vars /\ dign \subseteq Vars
      BY <1>2 DEF StoreInv, BaseInv, TypesInv
    <3> QED
      BY <1>1, <1>3, <1>10, <3>1, <3>2 DEF TypesInv, Early
  <2>2. ASSUME NoTautology PROVE NoTautology'
    <3>1. \A id \in ActiveIds : ~Tautology(clauses[id])
      BY <1>1, <2>2 DEF NoTautology
    <3>2. \A id \in ActiveIds' : ~Tautology(clauses'[id])
      BY <1>7, <1>12, <3>1 DEF Tautology
    <3> QED
      BY <3>2 DEF NoTautology
  <2>3. Clean' /\ PairsListed'
    BY <1>1, <1>3 DEF Clean, PairsListed
  <2> QED
    BY <1>13, <1>14, <1>15, <2>1, <2>2, <2>3 DEF BaseInv
<1>17. ASSUME NEW m PROVE Sat(m)' <=> Sat(m)
  <2>1. CASE ~(m \in Assignments /\ units \subseteq m)
    BY <1>1, <2>1 DEF Sat
  <2>2. CASE m \in Assignments /\ units \subseteq m
    <3>1. l \in m /\ -l \notin m
      BY <1>4, <2>2, AssignmentFacts
    <3>2. \A id \in ActiveIds : id \in idx[l] => Satisfies(m, clauses[id])
      BY <1>4, <1>11, <3>1 DEF Satisfies
    <3>3. \A id \in ActiveIds' : Satisfies(m, clauses[id]) <=> Satisfies(m, clauses'[id])
      BY <1>12, <3>1 DEF Satisfies
    <3>4. (\A id \in ActiveIds : Satisfies(m, clauses[id]))
          <=> \A id \in ActiveIds' : Satisfies(m, clauses'[id])
      BY <1>7, <3>2, <3>3
    <3>5. Sat(m) <=> \A id \in ActiveIds : Satisfies(m, clauses[id])
      BY <2>2 DEF Sat
    <3>6. Sat(m)' <=> \A id \in ActiveIds' : Satisfies(m, clauses'[id])
      BY <1>1, <2>2 DEF Sat
    <3> QED
      BY <3>4, <3>5, <3>6
  <2> QED
    BY <2>1, <2>2
<1>18. TheModels' = TheModels
  BY <1>1 DEF TheModels, Given
<1> QED
  BY <1>1, <1>2, <1>16, <1>17, <1>18 DEF SameModels, Early

LEMMA ApplyUnitStep ==
  ASSUME IInv, NEW l \in u, ApplyUnit(l)
  PROVE  IInv'
<1>1. pc = "apply" /\ StoreInv /\ SameModels
  BY DEF ApplyUnit, IInv, SemInv, SameModels, Early
<1>2. /\ BaseInv' /\ SameModels' /\ pc' \in Early \ {"tautologies"} /\ NoTautology'
  BY <1>1, ApplyUnitBase DEF StoreInv
<1> QED
  BY <1>2 DEF IInv, StoreInv, SemInv, SameModels, UpInv, ClashInv, SplitExact, Early, Late

-----------------------------------------------------------------------------
(* project and forget *)

LEMMA AgreeFacts ==
  /\ \A m, S : AgreeOff(m, m, S)
  /\ \A m, n, S : AgreeOff(m, n, S) => AgreeOff(n, m, S)
  /\ \A m, n, o, S, T : AgreeOff(m, n, S) /\ AgreeOff(n, o, T) => AgreeOff(m, o, S \cup T)
  /\ \A m, n, S, T : AgreeOff(m, n, S) /\ S \subseteq T => AgreeOff(m, n, T)
BY DEF AgreeOff

\* A formula that has a model keeps one.
LEMMA HasModel ==
  ASSUME Satisfiable, Sound
  PROVE  \E n \in TheModels : Sat(n)
<1>1. PICK n \in TheModels : n \in Assignments
  BY DEF Satisfiable, TheModels, Models
<1>2. AgreeOff(n, n, dign)
  BY AgreeFacts
<1> QED
  BY <1>1, <1>2 DEF Sound

LEMMA StartProjectStep ==
  ASSUME IInv, StartProject
  PROVE  IInv'
<1>1. /\ pc = "copy" /\ pc' = "project"
      /\ up' = [clauses |-> clauses, active |-> active, units |-> units, nbActive |-> nbActive]
      /\ frgt' = Vars \ given.prj
      /\ UNCHANGED <<clauses, active, idx, available, units, u, dign, v, given>>
  BY DEF StartProject, storeVars
<1>2. StoreInv /\ \A m : Sat(m) <=> m \in TheModels
  BY <1>1 DEF IInv, SemInv, Early
<1>3. StoreOK /\ dign = {} /\ \A m \in TheModels : m \in Assignments
  BY <1>1, <1>2 DEF StoreInv, BaseInv, TypesInv, Early, TheModels, Models
<1>4. TheModels' = TheModels /\ (Satisfiable' <=> Satisfiable)
  BY <1>1 DEF TheModels, Given, Satisfiable
<1>5. ActiveIds' = ActiveIds /\ StoreOK' /\ (\A m : Sat(m)' <=> Sat(m))
  BY <1>1, <1>3 DEF ActiveIds, Ids, StoreOK, StoreTypes, StackSound, Sat
<1>6. StoreInv'
  <2>1. TypesInv'
    BY <1>1, <1>2, <1>5 DEF StoreInv, BaseInv, TypesInv, Early, Late
  <2>2. Indexed' /\ Listed' /\ Propagated'
    BY <1>1, <1>2, <1>5 DEF StoreInv, BaseInv, Indexed, Listed, Pending, Propagated
  <2>3. NoTautology' /\ Clean' /\ PairsListed'
    BY <1>1, <1>2, <1>5 DEF StoreInv, BaseInv, NoTautology, Clean, PairsListed
  <2> QED
    BY <2>1, <2>2, <2>3 DEF StoreInv, BaseInv
<1>7. Sound' /\ Whole'
  <2>1. Gone' = {} /\ dign' = {}
    BY <1>1, <1>3 DEF Gone
  <2>2. Sound'
    <3> SUFFICES ASSUME NEW n \in TheModels, NEW m \in Assignments, AgreeOff(m, n, {})
                 PROVE  Sat(m)
      BY <1>4, <1>5, <2>1 DEF Sound
    <3>1. m = n
      BY <1>3, AgreeEverywhere
    <3> QED
      BY <1>2, <3>1
  <2>3. Whole'
    <3> SUFFICES ASSUME NEW m, Sat(m) PROVE \E n \in TheModels : AgreeOff(m, n, {})
      BY <1>4, <1>5, <2>1 DEF Whole
    <3> QED
      BY <1>2, AgreeFacts
  <2> QED
    BY <2>2, <2>3
<1>8. UpInv'
  <2>1. /\ up'.clauses = clauses /\ up'.active = active /\ up'.units = units
    BY <1>1
  <2>2. UpIds' = ActiveIds
    BY <2>1 DEF UpIds, ActiveIds, Ids
  <2>3. \A id \in ActiveIds : clauses[id] \in SUBSET Literals
    BY <1>3, ClauseTypes DEF StoreOK, ActiveIds
  <2>4. \A m : UpSat(m)' <=> m \in TheModels'
    BY <1>2, <1>4, <2>1, <2>2 DEF UpSat, Sat
  <2> QED
    BY <2>1, <2>2, <2>3, <2>4 DEF UpInv
<1>9. ClashInv'
  <2>1. up'.units = units /\ units' = units /\ units \subseteq Literals /\ dign' = {}
    BY <1>1, <1>2, <1>3 DEF StoreInv, BaseInv, TypesInv
  <2> QED
    BY <2>1 DEF ClashInv
<1> QED
  BY <1>1, <1>6, <1>7, <1>8, <1>9 DEF IInv, SemInv, SplitExact, Resolved, Early

\* What every action of project leaves.
LEMMA LateFrame ==
  ASSUME IInv, pc \in Late, pc' \in Late \ {"done"}, StoreInv', ClashInv', UNCHANGED <<up, given>>,
         Consistent => Sound' /\ Whole' /\ Resolved',
         Satisfiable => pc' # "crashed"
  PROVE  IInv'
<1>1. TheModels' = TheModels /\ (Satisfiable' <=> Satisfiable) /\ (Consistent' <=> Consistent)
  BY DEF TheModels, Given, Satisfiable, Consistent
<1>2. UpInv'
  BY <1>1 DEF IInv, UpInv, UpIds, UpSat
<1> QED
  BY <1>1, <1>2 DEF IInv, SemInv, SplitExact, Early, Late

\* A step that drops no unit, of a variable not forgotten yet.
LEMMA ClashKept ==
  ASSUME IInv, pc \in Late, UNCHANGED <<up, units>>, frgt' \cap dign' = {},
         \A w \in Vars : w \in dign \/ BeingForgotten(w) => w \in dign' \/ BeingForgotten(w)'
  PROVE  ClashInv'
BY DEF IInv, ClashInv

\* While variables are forgotten idx lists exactly the active clauses.
LEMMA LateIndex ==
  ASSUME StoreInv, pc \in Late
  PROVE  /\ StoreOK /\ u = {}
         /\ \A id \in ActiveIds : id \in Ids /\ clauses[id] \in SUBSET Literals
         /\ \A k \in Literals : idx[k] = {id \in ActiveIds : k \in clauses[id]}
         /\ \A id \in ActiveIds : ~Tautology(clauses[id])
         /\ \A l \in units : l \in Literals /\ idx[l] = {} /\ idx[-l] = {}
<1>1. StoreOK /\ u = {} /\ units \subseteq Literals /\ pc # "tautologies"
  BY DEF StoreInv, BaseInv, TypesInv, Late
<1>2. \A id \in ActiveIds : id \in Ids /\ clauses[id] \in SUBSET Literals
  BY <1>1, ClauseTypes DEF StoreOK, ActiveIds
<1>3. \A k \in Literals : \A id : id \in idx[k] <=> id \in ActiveIds /\ k \in clauses[id]
  BY <1>1, <1>2 DEF StoreInv, BaseInv, Indexed, Listed, Pending
<1> QED
  BY <1>1, <1>2, <1>3 DEF StoreInv, BaseInv, NoTautology, Propagated

LEMMA StartForgettingStep ==
  ASSUME IInv, StartForgetting
  PROVE  IInv'
<1>1. /\ pc = "project" /\ pc' = "resolve" /\ frgt # {} /\ v' = Cheapest
      /\ UNCHANGED <<u, frgt, dign, up, given>>
  BY DEF StartForgetting
<1>2. StoreInv /\ pc \in Late /\ (Consistent => Sound /\ Whole) /\ ClashInv
  BY <1>1 DEF IInv, SemInv, Late
<1>3. /\ StoreOK /\ u = {} /\ \A id \in ActiveIds : id \in Ids /\ clauses[id] \in SUBSET Literals
      /\ \A k \in Literals : idx[k] = {id \in ActiveIds : k \in clauses[id]}
      /\ \A l \in units : l \in Literals /\ idx[l] = {} /\ idx[-l] = {}
  BY <1>2, LateIndex
<1>4. v' \in Vars
  <2>1. frgt \in SUBSET Vars
    BY <1>2 DEF StoreInv, BaseInv, TypesInv
  <2> QED
    BY <1>1, <1>3, <2>1, CheapestFacts DEF StoreOK
<1>5. v' \in Literals /\ -v' \in Literals /\ -(-v') = v' /\ v' # -v'
  BY <1>4, LiteralsOfVars
<1>6. Gone = dign /\ Gone' = dign \cup {v'} /\ TheModels' = TheModels
  BY <1>1 DEF Gone, TheModels, Given
<1>7. ASSUME storeVars' = storeVars, units' \subseteq units, pairs' \subseteq idx[v'] \X idx[-v']
      PROVE  StoreInv'
  <2>1. UNCHANGED <<clauses, active, idx, available, u, frgt, dign>>
    BY <1>1, <1>7 DEF storeVars
  <2>2. StoreOK' /\ ActiveIds' = ActiveIds
    BY <1>3, <2>1 DEF ActiveIds, Ids, StoreOK, StoreTypes, StackSound
  <2>3. TypesInv'
    BY <1>1, <1>2, <1>3, <1>4, <1>7, <2>1, <2>2 DEF StoreInv, BaseInv, TypesInv, Early, Late
  <2>4. Indexed' /\ Listed' /\ Propagated'
    BY <1>2, <1>7, <2>1, <2>2 DEF StoreInv, BaseInv, Indexed, Listed, Pending, Propagated
  <2>5. NoTautology' /\ Clean' /\ PairsListed'
    BY <1>1, <1>2, <1>7, <2>1, <2>2 DEF StoreInv, BaseInv, NoTautology, Clean, PairsListed
  <2> QED
    BY <2>3, <2>4, <2>5 DEF StoreInv, BaseInv
<1>8. CASE Unit(v') = {} /\ pairs' = idx[v'] \X idx[-v'] /\ UNCHANGED <<storeVars, units>>
  <2>1. v' \notin units /\ -v' \notin units
    BY <1>8 DEF Unit
  <2>2. UNCHANGED <<clauses, active, idx, units>> /\ ActiveIds' = ActiveIds
    BY <1>8 DEF storeVars, ActiveIds, Ids
  <2>3. StoreInv'
    BY <1>7, <1>8
  <2>4. \A m : Sat(m)' <=> Sat(m)
    BY <2>2 DEF Sat
  <2>5. ASSUME Consistent PROVE Sound' /\ Whole'
    <3>1. Sound'
      BY <1>1, <1>2, <1>6, <2>2, <2>4, <2>5 DEF Sound
    <3>2. \A m, n : AgreeOff(m, n, dign) => AgreeOff(m, n, dign \cup {v'})
      BY DEF AgreeOff
    <3>3. Whole'
      BY <1>2, <1>6, <2>4, <2>5, <3>2 DEF Whole
    <3> QED
      BY <3>1, <3>3
  <2>6. Resolved'
    BY <1>8, <2>1, <2>2 DEF Resolved
  <2>7. ClashInv'
    BY <1>1, <1>2, <2>2, ClashKept DEF ClashInv, BeingForgotten
  <2> QED
    BY <1>1, <1>2, <2>3, <2>5, <2>6, <2>7, LateFrame DEF Late
<1>9. ASSUME NEW l \in Unit(v'), ForgetUnit(v', l) PROVE IInv'
  <2>1. l \in units /\ l \in {v', -v'} /\ -l \in {v', -v'}
    BY <1>5 DEF Unit
  <2>2. idx[v'] = {} /\ idx[-v'] = {}
    BY <1>3, <1>5, <2>1
  <2>3. /\ units' = units \ {l} /\ pairs' = {}
        /\ clauses' = [id \in Ids |-> IF id \in idx[-l] THEN clauses[id] \ {-l} ELSE clauses[id]]
        /\ idx' = [idx EXCEPT ![-l] = {}]
        /\ UNCHANGED <<active, available, nbActive>>
    BY <1>9 DEF ForgetUnit
  <2>4. clauses' = clauses /\ idx' = idx
    <3>1. idx[-l] = {} /\ idx \in [Literals -> SUBSET Ids] /\ clauses \in Seq(SUBSET Literals)
      BY <1>3, <2>1, <2>2 DEF StoreOK, StoreTypes
    <3>2. clauses' = [id \in Ids |-> clauses[id]]
      BY <2>3, <3>1
    <3>3. clauses = [id \in Ids |-> clauses[id]]
      BY <3>1, LenProperties DEF Ids
    <3> QED
      BY <2>3, <3>1, <3>2, <3>3
  <2>5. StoreInv'
    BY <1>7, <2>3, <2>4 DEF storeVars
  <2>6. ActiveIds' = ActiveIds
    BY <2>3, <2>4 DEF ActiveIds, Ids
  <2>7. ASSUME Consistent PROVE Sound' /\ Whole' /\ Resolved'
    <3>1. Sound /\ Whole
      BY <1>2, <2>7
    <3>2. -l \notin units
      BY <1>2, <2>1, <2>7 DEF ClashInv, Consistent
    <3>3. v' \notin units' /\ -v' \notin units'
      BY <1>5, <2>1, <2>3, <3>2
    <3>4. Resolved'
      BY <2>2, <2>4, <3>3 DEF Resolved
    <3>5. Sound'
      BY <1>1, <1>6, <2>3, <2>4, <2>6, <3>1 DEF Sound, Sat
    <3>6. ASSUME NEW m, Sat(m)'
          PROVE  \E o \in TheModels : AgreeOff(m, o, dign \cup {v'})
      <4>1. /\ m \in Assignments /\ units \ {l} \subseteq m
            /\ \A id \in ActiveIds : Satisfies(m, clauses[id])
        BY <2>3, <2>4, <2>6, <3>6 DEF Sat
      <4>2. PICK o \in Assignments : l \in o /\ AgreeOff(m, o, {v'})
        BY <1>4, <2>1, <4>1, CanSet
      <4>3. \A id \in ActiveIds : Satisfies(o, clauses[id])
        <5> SUFFICES ASSUME NEW id \in ActiveIds PROVE Satisfies(o, clauses[id])
          OBVIOUS
        <5>1. \A k \in clauses[id] : k \in Literals /\ k \notin {v', -v'}
          BY <1>3, <1>5, <2>2
        <5>2. \A k \in clauses[id] : Var(k) \notin {v'}
          BY <1>4, <5>1, VarFacts
        <5> QED
          BY <1>3, <4>1, <4>2, <5>2, SatisfiesAgree
      <4>4. units \subseteq o
        <5> SUFFICES ASSUME NEW k \in units, k # l PROVE k \in o
          BY <4>2
        <5>1. k \in Literals /\ k \notin {v', -v'} /\ k \in m
          BY <1>3, <1>5, <2>1, <3>2, <4>1
        <5>2. Var(k) \notin {v'}
          BY <1>4, <5>1, VarFacts
        <5> QED
          BY <4>2, <5>1, <5>2 DEF AgreeOff
      <4>5. Sat(o)
        BY <4>3, <4>4 DEF Sat
      <4>6. PICK r \in TheModels : AgreeOff(o, r, dign)
        BY <1>6, <3>1, <4>5 DEF Whole
      <4>7. AgreeOff(m, r, {v'} \cup dign)
        BY <4>2, <4>6, AgreeFacts
      <4>8. {v'} \cup dign = dign \cup {v'}
        OBVIOUS
      <4> QED
        BY <4>7, <4>8
    <3>7. Whole'
      BY <1>6, <3>6 DEF Whole
    <3> QED
      BY <3>4, <3>5, <3>7
  <2>8. ClashInv'
    <3>1. ASSUME NEW w \in Vars, w \in up.units, -w \in up.units
          PROVE  -w \in units' /\ (w \in units' \cup dign \/ w = v')
      <4>1. -w \in units /\ w \in units \cup dign
        BY <1>1, <1>2, <3>1 DEF ClashInv, BeingForgotten
      <4>2. w \in Literals /\ -w \in Literals /\ Var(w) = w /\ Var(-w) = w /\ Var(l) = v'
        BY <1>3, <1>4, <2>1, LiteralsOfVars
      <4>3. CASE w # v'
        BY <2>3, <4>1, <4>2, <4>3
      <4>4. CASE w = v'
        <5>1. w \in frgt
          <6>1. frgt \in SUBSET Vars
            BY <1>2 DEF StoreInv, BaseInv, TypesInv
          <6> QED
            BY <1>1, <1>3, <4>4, <6>1, CheapestFacts DEF StoreOK
        <5>2. w \in units
          BY <1>2, <4>1, <5>1 DEF ClashInv
        <5>3. l = w
          BY <4>4, <5>2 DEF Unit
        <5> QED
          BY <1>5, <2>3, <4>1, <4>4, <5>3
      <4> QED
        BY <4>3, <4>4
    <3>2. units' \subseteq up.units /\ up.units \subseteq Literals /\ frgt \cap dign = {}
      BY <1>2, <2>3 DEF ClashInv
    <3> QED
      BY <1>1, <3>1, <3>2 DEF ClashInv, BeingForgotten
  <2> QED
    BY <1>1, <1>2, <2>5, <2>7, <2>8, LateFrame DEF Late
<1> QED
  BY <1>8, <1>9 DEF StartForgetting

\* The next pair is a clause of v and one of its negation.
LEMMA PairFacts ==
  ASSUME StoreInv, pc = "resolve", pairs # {}
  PROVE  NextPair \in pairs /\ \E a \in idx[v] : \E b \in idx[-v] : NextPair = <<a, b>>
<1>1. v \in Literals /\ -v \in Literals /\ pairs \subseteq idx[v] \X idx[-v]
  BY LiteralsOfVars DEF StoreInv, BaseInv, TypesInv, PairsListed
<1>2. StoreOK
  BY DEF StoreInv, BaseInv, TypesInv
<1>3. Ids \subseteq Nat
  BY <1>2, ClauseTypes DEF StoreOK
<1>4. idx[v] \subseteq Ids /\ idx[-v] \subseteq Ids
  BY <1>1, <1>2 DEF StoreOK, StoreTypes
<1>5. idx[v] \subseteq Nat /\ idx[-v] \subseteq Nat
  BY <1>3, <1>4
<1>6. pairs \in SUBSET (Nat \X Nat)
  BY <1>1, <1>5
<1>7. NextPair \in pairs
  BY <1>6, NextPairFacts
<1>8. \A q \in idx[v] \X idx[-v] : \E a \in idx[v] : \E b \in idx[-v] : q = <<a, b>>
  OBVIOUS
<1> QED
  BY <1>1, <1>7, <1>8

\* The clause two clauses of v give: they are active, and it mentions nothing new.
LEMMA ResolventFacts ==
  ASSUME StoreInv, pc = "resolve", NEW a \in idx[v], NEW b \in idx[-v]
  PROVE  LET c == Resolvent(<<a, b>>)
         IN  /\ a \in ActiveIds /\ b \in ActiveIds
             /\ c = (clauses[a] \ {v}) \cup (clauses[b] \ {v, -v})
             /\ c \in SUBSET Literals /\ v \notin c /\ -v \notin c
             /\ \A l \in c : Var(l) \notin dign
             /\ \A l \in c : idx[l] # {}
             /\ \A m : Sat(m) => Satisfies(m, c)
<1> DEFINE c == Resolvent(<<a, b>>)
<1>1. v \in Vars /\ pc \in Late
  BY DEF StoreInv, BaseInv, TypesInv, Late
<1>2. v \in Literals /\ -v \in Literals /\ -(-v) = v /\ v # -v
  BY <1>1, LiteralsOfVars
<1>3. /\ \A id \in ActiveIds : clauses[id] \in SUBSET Literals
      /\ \A k \in Literals : idx[k] = {id \in ActiveIds : k \in clauses[id]}
      /\ \A id \in ActiveIds : ~Tautology(clauses[id])
  BY <1>1, LateIndex
<1>4. a \in ActiveIds /\ b \in ActiveIds /\ v \in clauses[a] /\ -v \in clauses[b]
  BY <1>2, <1>3
<1>5. c = (clauses[a] \ {v}) \cup (clauses[b] \ {v, -v})
  BY DEF Resolvent
<1> HIDE DEF c
<1>6. -v \notin clauses[a]
  BY <1>2, <1>3, <1>4 DEF Tautology
<1>7. c \in SUBSET Literals /\ v \notin c /\ -v \notin c
  BY <1>2, <1>3, <1>4, <1>5, <1>6
<1>8. \A l \in c : l \in Literals /\ (l \in clauses[a] \/ l \in clauses[b])
  BY <1>5, <1>7
<1>9. \A l \in c : Var(l) \notin dign
  BY <1>4, <1>8 DEF StoreInv, BaseInv, Clean
<1>10. \A l \in c : idx[l] # {}
  BY <1>3, <1>4, <1>8
<1>11. ASSUME NEW m, Sat(m) PROVE Satisfies(m, c)
  <2>1. m \in Assignments /\ Satisfies(m, clauses[a]) /\ Satisfies(m, clauses[b])
    BY <1>4, <1>11 DEF Sat
  <2> QED
    BY <1>1, <1>3, <1>4, <1>5, <2>1, ResolventFollows
<1> QED
  BY <1>4, <1>5, <1>7, <1>9, <1>10, <1>11 DEF c

LEMMA ResolveStep ==
  ASSUME IInv, Resolve
  PROVE  IInv'
<1> DEFINE q == NextPair
           c == Resolvent(NextPair)
<1>1. /\ pc = "resolve" /\ pairs # {} /\ pairs' = pairs \ {q} /\ c # {}
      /\ UNCHANGED <<pc, units, u, frgt, dign, v, up, given>>
  BY DEF Resolve
<1>2. StoreInv /\ pc \in Late /\ (Consistent => Sound /\ Whole /\ Resolved)
  BY <1>1 DEF IInv, SemInv, Late
<1>3. /\ StoreOK /\ u = {} /\ \A id \in ActiveIds : id \in Ids /\ clauses[id] \in SUBSET Literals
      /\ \A k \in Literals : idx[k] = {id \in ActiveIds : k \in clauses[id]}
      /\ \A id \in ActiveIds : ~Tautology(clauses[id])
      /\ \A l \in units : l \in Literals /\ idx[l] = {} /\ idx[-l] = {}
  BY <1>2, LateIndex
<1>4. v \in Vars /\ v \in Literals /\ -v \in Literals /\ pairs \subseteq idx[v] \X idx[-v]
  BY <1>1, <1>2, LiteralsOfVars DEF StoreInv, BaseInv, TypesInv, PairsListed
<1>5. q \in pairs /\ \E a \in idx[v] : \E b \in idx[-v] : q = <<a, b>>
  BY <1>1, <1>2, PairFacts
<1>6. PICK a \in idx[v] : \E b \in idx[-v] : q = <<a, b>>
  BY <1>5
<1>7. PICK b \in idx[-v] : q = <<a, b>>
  BY <1>6
<1>8. /\ a \in ActiveIds /\ b \in ActiveIds
      /\ c \in SUBSET Literals /\ v \notin c /\ -v \notin c
      /\ \A l \in c : Var(l) \notin dign
      /\ \A l \in c : idx[l] # {}
      /\ \A m : Sat(m) => Satisfies(m, c)
  BY <1>1, <1>2, <1>7, ResolventFacts
<1>9. TheModels' = TheModels /\ Gone' = Gone
  BY <1>1 DEF TheModels, Given, Gone
<1>10. c = Resolvent(<<a, b>>)
  BY <1>7
<1>11. ClashInv'
  BY <1>1, <1>2, ClashKept DEF IInv, ClashInv, BeingForgotten
<1> HIDE DEF c, q
<1>12. CASE UNCHANGED storeVars
            /\ (Tautology(c) \/ \E id \in ActiveIds : clauses[id] \subseteq c)
  <2>1. UNCHANGED <<clauses, active, idx, available>> /\ ActiveIds' = ActiveIds
    BY <1>12 DEF storeVars, ActiveIds, Ids
  <2>2. StoreInv'
    <3>1. StoreOK'
      BY <1>3, <2>1 DEF ActiveIds, Ids, StoreOK, StoreTypes, StackSound
    <3>2. TypesInv'
      BY <1>1, <1>2, <3>1 DEF StoreInv, BaseInv, TypesInv
    <3>3. Indexed' /\ Listed' /\ Propagated'
      BY <1>1, <1>2, <2>1 DEF StoreInv, BaseInv, Indexed, Listed, Pending, Propagated
    <3>4. NoTautology' /\ Clean' /\ PairsListed'
      BY <1>1, <1>2, <1>4, <2>1 DEF StoreInv, BaseInv, NoTautology, Clean, PairsListed
    <3> QED
      BY <3>2, <3>3, <3>4 DEF StoreInv, BaseInv
  <2>3. ASSUME Consistent PROVE Sound' /\ Whole' /\ Resolved'
    <3>1. \A m : Sat(m)' <=> Sat(m)
      BY <1>1, <2>1 DEF Sat
    <3>2. Sound' /\ Whole'
      BY <1>1, <1>2, <1>9, <2>3, <3>1 DEF Sound, Whole
    <3>3. \A x, y : Resolvent(<<x, y>>)' = Resolvent(<<x, y>>)
      BY <1>1, <2>1 DEF Resolvent
    <3>4. ASSUME NEW x \in idx[v], NEW y \in idx[-v]
          PROVE  \/ <<x, y>> \in pairs'
                 \/ Tautology(Resolvent(<<x, y>>))
                 \/ \E id \in ActiveIds : clauses[id] \subseteq Resolvent(<<x, y>>)
      <4>1. CASE <<x, y>> = q
        BY <1>7, <1>10, <1>12, <4>1
      <4>2. CASE <<x, y>> # q
        BY <1>1, <1>2, <2>3, <4>2 DEF Resolved
      <4> QED
        BY <4>1, <4>2
    <3>5. v \notin units /\ -v \notin units
      BY <1>1, <1>2, <2>3 DEF Resolved
    <3>6. Resolved'
      BY <1>1, <2>1, <3>3, <3>4, <3>5 DEF Resolved
    <3> QED
      BY <3>2, <3>6
  <2> QED
    BY <1>1, <1>2, <1>11, <2>2, <2>3, LateFrame
<1>13. CASE AddClause(c) /\ ~Tautology(c)
  <2> DEFINE s == NextSlot
  <2>1. /\ StoreOK' /\ Ids \subseteq Ids'
        /\ s \notin ActiveIds /\ ActiveIds' = ActiveIds \cup {s}
        /\ clauses'[s] = c /\ \A id \in ActiveIds : clauses'[id] = clauses[id]
        /\ \A l \in Literals : idx'[l] = IF l \in c THEN idx[l] \cup {s} ELSE idx[l]
    BY <1>3, <1>8, <1>13, AddClauseFacts
  <2> HIDE DEF s
  <2>2. idx'[v] = idx[v] /\ idx'[-v] = idx[-v]
    BY <1>4, <1>8, <2>1
  <2>3. StoreInv'
    <3>1. TypesInv'
      BY <1>1, <1>2, <2>1 DEF StoreInv, BaseInv, TypesInv
    <3>2. Indexed'
      BY <1>2, <2>1 DEF StoreInv, BaseInv, Indexed
    <3>3. Listed'
      <4> SUFFICES ASSUME NEW k \in Literals, NEW id \in idx'[k]
                   PROVE  k \in clauses'[id] /\ id \in ActiveIds'
        BY DEF Listed
      <4>1. CASE id \in idx[k]
        BY <1>3, <2>1, <4>1
      <4>2. CASE id \notin idx[k]
        BY <2>1, <4>2
      <4> QED
        BY <4>1, <4>2
    <3>4. Propagated'
      <4>1. \A l \in units : -l \in Literals /\ l \notin c /\ -l \notin c
        BY <1>3, <1>8, LiteralFacts
      <4>2. \A l \in units : idx'[l] = {} /\ idx'[-l] = {}
        BY <1>3, <2>1, <4>1
      <4> QED
        BY <1>1, <4>2 DEF Propagated
    <3>5. NoTautology'
      BY <1>3, <1>13, <2>1 DEF NoTautology
    <3>6. Clean'
      BY <1>1, <1>2, <1>8, <2>1 DEF StoreInv, BaseInv, Clean
    <3>7. PairsListed'
      BY <1>1, <1>4, <2>2 DEF PairsListed
    <3> QED
      BY <3>1, <3>2, <3>3, <3>4, <3>5, <3>6, <3>7 DEF StoreInv, BaseInv
  <2>4. ASSUME Consistent PROVE Sound' /\ Whole' /\ Resolved'
    <3>1. \A m : Sat(m)' <=> Sat(m)
      <4>1. \A m : Sat(m)' <=> Sat(m) /\ Satisfies(m, c)
        BY <1>1, <2>1 DEF Sat
      <4> QED
        BY <1>8, <4>1
    <3>2. Sound' /\ Whole'
      BY <1>1, <1>2, <1>9, <2>4, <3>1 DEF Sound, Whole
    <3>3. \A x \in idx[v], y \in idx[-v] :
            x \in ActiveIds /\ y \in ActiveIds /\ Resolvent(<<x, y>>)' = Resolvent(<<x, y>>)
      <4>1. \A x \in idx[v], y \in idx[-v] : x \in ActiveIds /\ y \in ActiveIds
        BY <1>3, <1>4
      <4> QED
        BY <1>1, <2>1, <4>1 DEF Resolvent
    <3>4. ASSUME NEW x \in idx[v], NEW y \in idx[-v]
          PROVE  \/ <<x, y>> \in pairs'
                 \/ Tautology(Resolvent(<<x, y>>))
                 \/ \E id \in ActiveIds' : clauses'[id] \subseteq Resolvent(<<x, y>>)
      <4>1. CASE <<x, y>> = q
        BY <1>7, <1>10, <2>1, <4>1
      <4>2. CASE <<x, y>> # q
        BY <1>1, <1>2, <2>1, <2>4, <4>2 DEF Resolved
      <4> QED
        BY <4>1, <4>2
    <3>5. v \notin units /\ -v \notin units
      BY <1>1, <1>2, <2>4 DEF Resolved
    <3>6. Resolved'
      BY <1>1, <2>2, <3>3, <3>4, <3>5 DEF Resolved
    <3> QED
      BY <3>2, <3>6
  <2> QED
    BY <1>1, <1>2, <1>11, <2>3, <2>4, LateFrame
<1>14. \/ Tautology(c) /\ UNCHANGED storeVars
       \/ ~Tautology(c) /\ \E j \in Rarest(c) :
            IF Redundant(c, j) THEN UNCHANGED storeVars ELSE AddClause(c)
  BY DEF Resolve, c
<1>15. ASSUME NEW j \in Rarest(c), Redundant(c, j)
       PROVE  \E id \in ActiveIds : clauses[id] \subseteq c
  <2>1. j \in Literals
    BY <1>1, <1>8 DEF Rarest, c
  <2> QED
    BY <1>3, <1>15, <2>1 DEF Redundant
<1> QED
  BY <1>12, <1>13, <1>14, <1>15

\* Only a formula without models makes a resolvent empty.
LEMMA ResolveToEmptyStep ==
  ASSUME IInv, ResolveToEmpty
  PROVE  IInv'
<1>1. /\ pc = "resolve" /\ pc' = "crashed" /\ pairs # {} /\ Resolvent(NextPair) = {}
      /\ UNCHANGED <<clauses, active, idx, available, units, u, frgt, dign, v, pairs, up, given>>
  BY DEF ResolveToEmpty, storeVars
<1>2. StoreInv /\ pc \in Late /\ (Consistent => Sound /\ Whole) /\ (Satisfiable => Consistent)
  <2>1. pc \in Late
    BY <1>1 DEF Late
  <2> QED
    BY <2>1, SatisfiableConsistent DEF IInv, SemInv
<1>3. StoreOK /\ (\A k \in Literals : idx[k] = {id \in ActiveIds : k \in clauses[id]})
  BY <1>2, LateIndex
<1>4. ASSUME Satisfiable PROVE FALSE
  <2>1. PICK a \in idx[v] : \E b \in idx[-v] : NextPair = <<a, b>>
    BY <1>1, <1>2, PairFacts
  <2>2. PICK b \in idx[-v] : NextPair = <<a, b>>
    BY <2>1
  <2>3. PICK n \in TheModels : Sat(n)
    BY <1>2, <1>4, HasModel
  <2>4. Resolvent(<<a, b>>) = {}
    BY <1>1, <2>2
  <2>5. Satisfies(n, Resolvent(<<a, b>>))
    BY <1>1, <1>2, <2>3, ResolventFacts
  <2> QED
    BY <2>4, <2>5 DEF Satisfies
<1>5. StoreInv'
  <2>1. ActiveIds' = ActiveIds /\ StoreOK'
    BY <1>1, <1>3 DEF ActiveIds, Ids, StoreOK, StoreTypes, StackSound
  <2>2. TypesInv'
    BY <1>1, <1>2, <2>1 DEF StoreInv, BaseInv, TypesInv, Early, Late
  <2>3. Indexed' /\ Listed' /\ Propagated'
    BY <1>1, <1>2, <2>1 DEF StoreInv, BaseInv, Indexed, Listed, Pending, Propagated
  <2>4. NoTautology' /\ Clean' /\ PairsListed'
    BY <1>1, <1>2, <2>1 DEF StoreInv, BaseInv, NoTautology, Clean, PairsListed
  <2> QED
    BY <2>2, <2>3, <2>4 DEF StoreInv, BaseInv
<1>6. Consistent => Sound' /\ Whole' /\ Resolved'
  <2>1. Gone' = Gone /\ TheModels' = TheModels
    BY <1>1 DEF Gone, TheModels, Given
  <2>2. \A m : Sat(m)' <=> Sat(m)
    BY <1>1 DEF Sat, ActiveIds, Ids
  <2> QED
    BY <1>1, <1>2, <2>1, <2>2 DEF Sound, Whole, Resolved
<1>7. ClashInv'
  BY <1>1, <1>2, ClashKept DEF IInv, ClashInv, BeingForgotten
<1> QED
  BY <1>1, <1>2, <1>4, <1>5, <1>6, <1>7, LateFrame DEF Late

\* Once every pair is resolved, what the clauses of v say of the other variables is said
\* without them: v has a value that satisfies them all.
LEMMA VariableEliminated ==
  ASSUME StoreInv, pc = "resolve", pairs = {}, Resolved,
         NEW m \in Assignments, units \subseteq m,
         \A id \in ActiveIds \ (idx[v] \cup idx[-v]) : Satisfies(m, clauses[id])
  PROVE  \E o \in Assignments : Sat(o) /\ AgreeOff(m, o, {v})
<1>1. v \in Vars /\ pc \in Late
  BY DEF StoreInv, BaseInv, TypesInv, Late
<1>2. v \in Literals /\ -v \in Literals /\ -(-v) = v /\ v # -v
  BY <1>1, LiteralsOfVars
<1>3. /\ \A id \in ActiveIds : clauses[id] \in SUBSET Literals
      /\ \A k \in Literals : idx[k] = {id \in ActiveIds : k \in clauses[id]}
      /\ \A id \in ActiveIds : ~Tautology(clauses[id])
      /\ \A l \in units : l \in Literals
  BY <1>1, LateIndex
<1>4. v \notin units /\ -v \notin units
  BY DEF Resolved
<1>5. PICK p \in Assignments : v \in p /\ AgreeOff(m, p, {v})
  BY <1>1, CanSet
<1>6. PICK n \in Assignments : -v \in n /\ AgreeOff(m, n, {v})
  BY <1>1, CanSet
<1>7. \A k \in Literals : k \notin {v, -v} => (k \in m <=> k \in p) /\ (k \in m <=> k \in n)
  <2>1. \A k \in Literals : k \notin {v, -v} => Var(k) \notin {v}
    BY <1>1, VarFacts
  <2> QED
    BY <1>5, <1>6, <2>1 DEF AgreeOff
<1>8. units \subseteq p /\ units \subseteq n
  BY <1>3, <1>4, <1>7
<1>9. \A id \in ActiveIds : v \notin clauses[id] /\ -v \notin clauses[id] =>
        Satisfies(m, clauses[id]) /\ Satisfies(p, clauses[id]) /\ Satisfies(n, clauses[id])
  <2> SUFFICES ASSUME NEW id \in ActiveIds, v \notin clauses[id], -v \notin clauses[id]
               PROVE  Satisfies(m, clauses[id]) /\ Satisfies(p, clauses[id]) /\ Satisfies(n, clauses[id])
    OBVIOUS
  <2>1. Satisfies(m, clauses[id])
    BY <1>2, <1>3
  <2>2. \A k \in clauses[id] : k \in Literals /\ k \notin {v, -v}
    BY <1>3
  <2> QED
    BY <1>7, <2>1, <2>2 DEF Satisfies
<1>10. CASE Sat(p)
  BY <1>5, <1>10
<1>11. CASE Sat(n)
  BY <1>6, <1>11
<1>12. CASE ~Sat(p) /\ ~Sat(n)
  <2>1. PICK b \in ActiveIds : ~Satisfies(p, clauses[b])
    BY <1>5, <1>8, <1>12 DEF Sat
  <2>2. PICK a \in ActiveIds : ~Satisfies(n, clauses[a])
    BY <1>6, <1>8, <1>12 DEF Sat
  <2>3. -v \in clauses[b] /\ v \in clauses[a]
    <3>1. v \notin clauses[b] /\ -v \notin clauses[a]
      BY <1>5, <1>6, <2>1, <2>2 DEF Satisfies
    <3> QED
      BY <1>9, <2>1, <2>2, <3>1
  <2>4. a \in idx[v] /\ b \in idx[-v]
    BY <1>2, <1>3, <2>3
  <2> DEFINE c == Resolvent(<<a, b>>)
  <2>5. /\ c = (clauses[a] \ {v}) \cup (clauses[b] \ {v, -v})
        /\ c \in SUBSET Literals /\ v \notin c /\ -v \notin c
    BY <2>4, ResolventFacts
  <2>6. Tautology(c) \/ \E id \in ActiveIds : clauses[id] \subseteq c
    BY <2>4 DEF Resolved
  <2> HIDE DEF c
  <2>7. \A k \in c : k \notin m
    <3> SUFFICES ASSUME NEW k \in c, k \in m PROVE FALSE
      OBVIOUS
    <3>1. k \in Literals /\ k \in p /\ k \in n
      BY <1>7, <2>5
    <3>2. k \in clauses[a] \/ k \in clauses[b]
      BY <2>5
    <3> QED
      BY <2>1, <2>2, <3>1, <3>2 DEF Satisfies
  <2>8. CASE Tautology(c)
    <3>1. PICK k \in c : -k \in c
      BY <2>8 DEF Tautology
    <3>2. (k \in m) <=> (-k \notin m)
      BY <2>5, AssignmentFacts
    <3> QED
      BY <2>7, <3>1, <3>2
  <2>9. ASSUME NEW id \in ActiveIds, clauses[id] \subseteq c PROVE FALSE
    <3>1. v \notin clauses[id] /\ -v \notin clauses[id]
      BY <2>5, <2>9
    <3>2. Satisfies(m, clauses[id])
      BY <1>9, <3>1
    <3> QED
      BY <2>7, <2>9, <3>2 DEF Satisfies
  <2> QED
    BY <2>6, <2>8, <2>9
<1> QED
  BY <1>10, <1>11, <1>12

\* The loops over the clauses of v remove them all, once.
LEMMA ParentsFacts ==
  ASSUME StoreInv, pc = "resolve", NEW order \in Parents
  PROVE  LET T == idx[v] \cup idx[-v]
         IN  /\ T \in SUBSET ActiveIds
             /\ order \in Seq(T) /\ SlotsOf(order) = T
             /\ \A j, k \in DOMAIN order : order[j] = order[k] => j = k
<1> DEFINE T == idx[v] \cup idx[-v]
<1>1. v \in Vars /\ pc \in Late
  BY DEF StoreInv, BaseInv, TypesInv, Late
<1>2. v \in Literals /\ -v \in Literals /\ -(-v) = v
  BY <1>1, LiteralsOfVars
<1>3. /\ StoreOK
      /\ \A k \in Literals : idx[k] = {id \in ActiveIds : k \in clauses[id]}
      /\ \A id \in ActiveIds : ~Tautology(clauses[id])
  BY <1>1, LateIndex
<1>4. idx[v] \in SUBSET Ids /\ idx[-v] \in SUBSET Ids
  BY <1>2, <1>3 DEF ActiveIds
<1>5. T \in SUBSET ActiveIds
  BY <1>2, <1>3
<1>6. \A i \in idx[v], k \in idx[-v] : i # k
  BY <1>2, <1>3 DEF Tautology
<1>7. PICK f \in Ascending(idx[v]) : \E g \in Ascending(idx[-v]) : order = f \o g
  BY DEF Parents
<1>8. PICK g \in Ascending(idx[-v]) : order = f \o g
  BY <1>7
<1>9. /\ f \in Seq(idx[v]) /\ SlotsOf(f) = idx[v] /\ DOMAIN f = 1 .. Len(f)
      /\ \A j, k \in DOMAIN f : f[j] = f[k] => j = k
  BY <1>3, <1>4, AscendingFacts DEF StoreOK
<1>10. /\ g \in Seq(idx[-v]) /\ SlotsOf(g) = idx[-v] /\ DOMAIN g = 1 .. Len(g)
       /\ \A j, k \in DOMAIN g : g[j] = g[k] => j = k
  BY <1>3, <1>4, AscendingFacts DEF StoreOK
<1> HIDE DEF T
<1>11. f \in Seq(T) /\ g \in Seq(T) /\ Len(f) \in Nat /\ Len(g) \in Nat
  <2>1. idx[v] \subseteq T /\ idx[-v] \subseteq T
    BY DEF T
  <2> QED
    BY <1>9, <1>10, <2>1, SeqMonotonic, LenProperties
<1>12. /\ order \in Seq(T) /\ DOMAIN order = 1 .. Len(f) + Len(g)
       /\ \A k \in DOMAIN order : order[k] = IF k <= Len(f) THEN f[k] ELSE g[k - Len(f)]
  BY <1>8, <1>11, ConcatProperties, LenProperties
<1>13. \A k \in DOMAIN order :
         \/ k \in DOMAIN f /\ order[k] = f[k]
         \/ k - Len(f) \in DOMAIN g /\ order[k] = g[k - Len(f)] /\ k \notin DOMAIN f
  BY <1>9, <1>10, <1>11, <1>12
<1>14. /\ \A k \in DOMAIN f : k \in DOMAIN order /\ order[k] = f[k]
       /\ \A k \in DOMAIN g : k + Len(f) \in DOMAIN order /\ order[k + Len(f)] = g[k]
  <2> DEFINE a == Len(f)
             b == Len(g)
  <2>1. a \in Nat /\ b \in Nat
    BY <1>11
  <2>2. DOMAIN f = 1 .. a /\ DOMAIN g = 1 .. b /\ DOMAIN order = 1 .. a + b
    BY <1>9, <1>10, <1>12
  <2>3. \A k \in DOMAIN order : order[k] = IF k <= a THEN f[k] ELSE g[k - a]
    BY <1>12
  <2> HIDE DEF a, b
  <2>4. \A k \in 1 .. a : k \in 1 .. a + b /\ k <= a
    BY <2>1
  <2>5. \A k \in 1 .. b : k + a \in 1 .. a + b /\ ~(k + a <= a) /\ (k + a) - a = k
    BY <2>1
  <2>6. \A k \in DOMAIN f : k \in DOMAIN order /\ order[k] = f[k]
    BY <2>2, <2>3, <2>4
  <2>7. \A k \in DOMAIN g : k + a \in DOMAIN order /\ order[k + a] = g[k]
    BY <2>2, <2>3, <2>5
  <2> QED
    BY <2>6, <2>7 DEF a
<1>15. SlotsOf(order) = T
  <2>1. \A k \in DOMAIN f : f[k] \in idx[v]
    BY <1>9 DEF SlotsOf
  <2>2. \A k \in DOMAIN g : g[k] \in idx[-v]
    BY <1>10 DEF SlotsOf
  <2>3. \A k \in DOMAIN order : order[k] \in T
    BY <1>13, <2>1, <2>2 DEF T
  <2>4. \A i \in idx[v] : \E k \in DOMAIN order : order[k] = i
    BY <1>9, <1>14 DEF SlotsOf
  <2>5. \A i \in idx[-v] : \E k \in DOMAIN order : order[k] = i
    BY <1>10, <1>14 DEF SlotsOf
  <2>6. \A i \in T : \E k \in DOMAIN order : order[k] = i
    BY <2>4, <2>5 DEF T
  <2> QED
    BY <2>3, <2>6 DEF SlotsOf
<1>16. \A j, k \in DOMAIN order : order[j] = order[k] => j = k
  <2> SUFFICES ASSUME NEW j \in DOMAIN order, NEW k \in DOMAIN order, order[j] = order[k]
               PROVE  j = k
    OBVIOUS
  <2>1. j \in Nat /\ k \in Nat
    BY <1>11, <1>12
  <2>2. \A i \in DOMAIN f : f[i] \in idx[v]
    BY <1>9 DEF SlotsOf
  <2>3. \A i \in DOMAIN g : g[i] \in idx[-v]
    BY <1>10 DEF SlotsOf
  <2>4. CASE j \in DOMAIN f
    BY <1>6, <1>9, <1>13, <2>2, <2>3, <2>4
  <2>5. CASE j \notin DOMAIN f
    <3>1. j - Len(f) \in DOMAIN g /\ order[j] = g[j - Len(f)]
      BY <1>13, <2>5
    <3>2. k - Len(f) \in DOMAIN g /\ order[k] = g[k - Len(f)]
      BY <1>6, <1>13, <2>2, <2>3, <3>1
    <3>3. j - Len(f) = k - Len(f)
      BY <1>10, <3>1, <3>2
    <3> QED
      BY <1>11, <2>1, <3>3
  <2> QED
    BY <2>4, <2>5
<1> QED
  BY <1>5, <1>12, <1>15, <1>16 DEF T

LEMMA EndForgettingStep ==
  ASSUME IInv, EndForgetting
  PROVE  IInv'
<1> DEFINE T == idx[v] \cup idx[-v]
<1>1. /\ pc = "resolve" /\ pc' \in {"project", "write"} /\ pairs = {}
      /\ frgt' = frgt \ {v} /\ dign' = dign \cup {v}
      /\ UNCHANGED <<units, u, v, up, given>>
  BY DEF EndForgetting, StillToForget
<1>2. StoreInv /\ pc \in Late /\ (Consistent => Sound /\ Whole /\ Resolved)
  BY <1>1 DEF IInv, SemInv, Late
<1>3. /\ StoreOK /\ u = {} /\ \A id \in ActiveIds : id \in Ids /\ clauses[id] \in SUBSET Literals
      /\ \A k \in Literals : idx[k] = {id \in ActiveIds : k \in clauses[id]}
      /\ \A id \in ActiveIds : ~Tautology(clauses[id])
      /\ \A l \in units : l \in Literals /\ idx[l] = {} /\ idx[-l] = {}
  BY <1>2, LateIndex
<1>4. v \in Vars /\ v \in Literals /\ -v \in Literals
  BY <1>1, <1>2, LiteralsOfVars DEF StoreInv, BaseInv, TypesInv
<1>5. PICK order \in Parents : RmClauses(order)
  BY DEF EndForgetting
<1>6. /\ T \in SUBSET ActiveIds
      /\ order \in Seq(T) /\ SlotsOf(order) = T
      /\ \A j, k \in DOMAIN order : order[j] = order[k] => j = k
  BY <1>1, <1>2, ParentsFacts
<1> HIDE DEF T
<1>7. /\ StoreOK' /\ clauses' = clauses /\ Ids' = Ids
      /\ ActiveIds' = ActiveIds \ T
      /\ \A l \in Literals : idx'[l] = idx[l] \ {id \in T : l \in clauses[id]}
  BY <1>3, <1>5, <1>6, RemoveFacts
<1>8. \A id \in ActiveIds : id \in T <=> v \in clauses[id] \/ -v \in clauses[id]
  BY <1>3, <1>4 DEF T
<1>9. Gone = dign \cup {v} /\ Gone' = dign' /\ TheModels' = TheModels
  BY <1>1 DEF Gone, TheModels, Given
<1>10. \A id \in ActiveIds' : \A l \in clauses[id] : Var(l) \notin {v}
  <2> SUFFICES ASSUME NEW id \in ActiveIds', NEW l \in clauses[id] PROVE Var(l) # v
    OBVIOUS
  <2>1. l \in Literals /\ l \notin {v, -v}
    BY <1>3, <1>7, <1>8
  <2> QED
    BY <1>4, <2>1, VarFacts
<1>11. ASSUME v \notin units, -v \notin units
       PROVE  \A l \in units : Var(l) \notin {v}
  BY <1>3, <1>4, <1>11, VarFacts
<1>12. ASSUME Consistent PROVE Sound' /\ Whole'
  <2>1. Sound /\ Whole /\ Resolved
    BY <1>2, <1>12
  <2>2. \A l \in units : Var(l) \notin {v}
    BY <1>1, <1>11, <2>1 DEF Resolved
  <2>3. ASSUME NEW n \in TheModels, NEW m \in Assignments, AgreeOff(m, n, dign \cup {v})
        PROVE  Sat(m)'
    <3>1. n \in Assignments
      BY DEF TheModels, Models
    <3>2. PICK l \in {v, -v} : l \in n
      BY <1>4, <3>1, AssignmentFacts
    <3>3. PICK o \in Assignments : l \in o /\ AgreeOff(m, o, {v})
      BY <1>4, CanSet
    <3>4. AgreeOff(o, n, dign)
      <4> SUFFICES ASSUME NEW k \in Literals, Var(k) \notin dign PROVE k \in o <=> k \in n
        BY DEF AgreeOff
      <4>1. CASE Var(k) = v
        <5>1. k \in {v, -v} /\ -(-v) = v
          BY <1>4, <4>1, VarFacts, LiteralsOfVars
        <5>2. /\ (v \in o) <=> (-v \notin o)
              /\ (v \in n) <=> (-v \notin n)
          BY <1>4, <3>1, <3>3, AssignmentFacts
        <5> QED
          BY <3>2, <3>3, <5>1, <5>2
      <4>2. CASE Var(k) # v
        BY <2>3, <3>3, <4>2 DEF AgreeOff
      <4> QED
        BY <4>1, <4>2
    <3>5. Sat(o)
      BY <2>1, <3>3, <3>4 DEF Sound
    <3>6. \A id \in ActiveIds' : Satisfies(m, clauses[id])
      BY <1>3, <1>7, <1>10, <3>3, <3>5, SatisfiesAgree DEF Sat
    <3>7. units \subseteq m
      BY <1>3, <2>2, <3>3, <3>5 DEF Sat, AgreeOff
    <3> QED
      BY <1>1, <1>7, <3>6, <3>7 DEF Sat
  <2>4. Sound'
    <3>1. \A l \in units : Var(l) \notin dign \cup {v}
      BY <2>1, <2>2 DEF Sound
    <3> QED
      BY <1>1, <1>9, <2>3, <3>1 DEF Sound
  <2>5. ASSUME NEW m, Sat(m)'
        PROVE  \E n \in TheModels : AgreeOff(m, n, dign \cup {v})
    <3>1. /\ m \in Assignments /\ units \subseteq m
          /\ \A id \in ActiveIds \ T : Satisfies(m, clauses[id])
      BY <1>1, <1>7, <2>5 DEF Sat
    <3>2. PICK o \in Assignments : Sat(o) /\ AgreeOff(m, o, {v})
      BY <1>1, <1>2, <2>1, <3>1, VariableEliminated DEF T
    <3>3. PICK n \in TheModels : AgreeOff(o, n, dign \cup {v})
      BY <1>9, <2>1, <3>2 DEF Whole
    <3>4. AgreeOff(m, n, {v} \cup (dign \cup {v}))
      BY <3>2, <3>3, AgreeFacts
    <3>5. {v} \cup (dign \cup {v}) = dign \cup {v}
      OBVIOUS
    <3> QED
      BY <3>4, <3>5
  <2>6. Whole'
    BY <1>1, <1>9, <2>5 DEF Whole
  <2> QED
    BY <2>4, <2>6
<1>13. StoreInv'
  <2>1. TypesInv'
    BY <1>1, <1>2, <1>4, <1>7 DEF StoreInv, BaseInv, TypesInv, Early, Late
  <2>2. Indexed'
    BY <1>2, <1>7 DEF StoreInv, BaseInv, Indexed
  <2>3. Listed'
    BY <1>3, <1>7 DEF Listed
  <2>4. Propagated'
    BY <1>1, <1>3, <1>7, LiteralFacts DEF Propagated
  <2>5. NoTautology' /\ PairsListed'
    BY <1>1, <1>3, <1>7 DEF NoTautology, PairsListed
  <2>6. Clean'
    BY <1>1, <1>2, <1>7, <1>10 DEF StoreInv, BaseInv, Clean
  <2> QED
    BY <2>1, <2>2, <2>3, <2>4, <2>5, <2>6 DEF StoreInv, BaseInv
<1>14. Resolved'
  BY <1>1 DEF Resolved
<1>15. ClashInv'
  BY <1>1, <1>2, ClashKept DEF IInv, ClashInv, BeingForgotten
<1> QED
  BY <1>1, <1>2, <1>12, <1>13, <1>14, <1>15, LateFrame DEF Late

LEMMA NothingLeftStep ==
  ASSUME IInv, NothingLeft
  PROVE  IInv'
<1>1. /\ pc = "project" /\ pc' = "write"
      /\ UNCHANGED <<clauses, active, idx, available, units, u, frgt, dign, v, pairs, up, given>>
  BY DEF NothingLeft, storeVars
<1>2. StoreInv /\ pc \in Late /\ (Consistent => Sound /\ Whole)
  BY <1>1 DEF IInv, SemInv, Late
<1>3. StoreOK
  BY <1>2, LateIndex
<1>4. ActiveIds' = ActiveIds /\ StoreOK' /\ (\A m : Sat(m)' <=> Sat(m))
  BY <1>1, <1>3 DEF ActiveIds, Ids, StoreOK, StoreTypes, StackSound, Sat
<1>5. StoreInv'
  <2>1. TypesInv'
    BY <1>1, <1>2, <1>4 DEF StoreInv, BaseInv, TypesInv, Early, Late
  <2>2. Indexed' /\ Listed' /\ Propagated'
    BY <1>1, <1>2, <1>4 DEF StoreInv, BaseInv, Indexed, Listed, Pending, Propagated
  <2>3. NoTautology' /\ Clean' /\ PairsListed'
    BY <1>1, <1>2, <1>4 DEF StoreInv, BaseInv, NoTautology, Clean, PairsListed
  <2> QED
    BY <2>1, <2>2, <2>3 DEF StoreInv, BaseInv
<1>6. Consistent => Sound' /\ Whole' /\ Resolved'
  <2>1. Gone' = Gone /\ TheModels' = TheModels
    BY <1>1 DEF Gone, TheModels, Given
  <2> QED
    BY <1>1, <1>2, <1>4, <2>1 DEF Sound, Whole, Resolved
<1>7. ClashInv'
  BY <1>1, <1>2, ClashKept DEF IInv, ClashInv, BeingForgotten
<1> QED
  BY <1>1, <1>2, <1>5, <1>6, <1>7, LateFrame DEF Late

-----------------------------------------------------------------------------
(* The files *)

\* The clauses left out of <F>.pup mention no forgotten variable: <F>.p implies them.
LEMMA WriteFilesStep ==
  ASSUME IInv, WriteFiles
  PROVE  IInv'
<1> DEFINE removed == {id \in DOMAIN up.clauses : InProjection(up.clauses[id])}
           left == {id \in DOMAIN up.clauses \ removed : up.active[id]}
<1>1. /\ pc = "write" /\ pc' = "done"
      /\ pup'.clauses = {up.clauses[id] : id \in left} \cup UnitClauses(up.units)
      /\ UNCHANGED <<clauses, active, idx, available, units, u, frgt, dign, v, pairs, up, given>>
  BY DEF WriteFiles, storeVars
<1>2. StoreInv /\ pc \in Late /\ (Consistent => Sound /\ Whole) /\ UpInv /\ ClashInv
  BY <1>1 DEF IInv, SemInv, Late
<1>3. StoreOK /\ dign \subseteq Vars
  BY <1>2, LateIndex DEF StoreInv, BaseInv, TypesInv
<1>4. ActiveIds' = ActiveIds /\ StoreOK' /\ (\A m : Sat(m)' <=> Sat(m))
  BY <1>1, <1>3 DEF ActiveIds, Ids, StoreOK, StoreTypes, StackSound, Sat
<1>5. StoreInv'
  <2>1. TypesInv'
    BY <1>1, <1>2, <1>4 DEF StoreInv, BaseInv, TypesInv, Early, Late
  <2>2. Indexed' /\ Listed' /\ Propagated'
    BY <1>1, <1>2, <1>4 DEF StoreInv, BaseInv, Indexed, Listed, Pending, Propagated
  <2>3. NoTautology' /\ Clean' /\ PairsListed'
    BY <1>1, <1>2, <1>4 DEF StoreInv, BaseInv, NoTautology, Clean, PairsListed
  <2> QED
    BY <2>1, <2>2, <2>3 DEF StoreInv, BaseInv
<1>6. /\ TheModels' = TheModels /\ (Satisfiable' <=> Satisfiable)
      /\ (Consistent' <=> Consistent) /\ Gone = dign /\ Gone' = dign
  BY <1>1 DEF Gone, TheModels, Given, Satisfiable, Consistent
<1>7. Consistent => Sound' /\ Whole' /\ Resolved'
  BY <1>1, <1>2, <1>4, <1>6 DEF Sound, Whole, Resolved
<1>8. /\ \A id \in UpIds : up.clauses[id] \in SUBSET Literals
      /\ \A m : UpSat(m) <=> m \in TheModels
  BY <1>2 DEF UpInv
<1>9. UpInv'
  BY <1>1, <1>6, <1>8 DEF UpInv, UpIds, UpSat
<1>10. \A id \in UpIds : id \in left \/ \A l \in up.clauses[id] : Var(l) \notin dign
  <2> SUFFICES ASSUME NEW id \in UpIds, id \notin left, NEW l \in up.clauses[id]
               PROVE  Var(l) \notin dign
    OBVIOUS
  <2>1. InProjection(up.clauses[id])
    BY DEF UpIds
  <2>2. Var(l) \in VarsOf(up.clauses[id])
    BY DEF VarsOf, Var
  <2> QED
    BY <2>1, <2>2 DEF InProjection, TrueProjection
<1>11. left \subseteq UpIds
  BY DEF UpIds
<1> HIDE DEF left
<1>12. ASSUME Consistent
       PROVE  \A m : m \in Models(Projected \cup pup'.clauses) <=> m \in TheModels
  <2>1. Sound /\ Whole
    BY <1>2, <1>12
  <2> SUFFICES ASSUME NEW m PROVE m \in Models(Projected \cup pup'.clauses) <=> m \in TheModels
    OBVIOUS
  <2>2. m \in Models(Projected) <=> Sat(m)
    BY SatFacts
  <2>3. (\A c \in pup'.clauses : Satisfies(m, c))
        <=> (\A id \in left : Satisfies(m, up.clauses[id])) /\ up.units \subseteq m
    <3>1. (\A c \in pup'.clauses : Satisfies(m, c))
          <=> /\ \A id \in left : Satisfies(m, up.clauses[id])
              /\ \A c \in UnitClauses(up.units) : Satisfies(m, c)
      BY <1>1
    <3> QED
      BY <3>1, UnitModels
  <2>4. m \in Models(Projected \cup pup'.clauses)
        <=> m \in Models(Projected) /\ \A c \in pup'.clauses : Satisfies(m, c)
    BY DEF Models
  <2>5. ASSUME Sat(m), \A id \in left : Satisfies(m, up.clauses[id]), up.units \subseteq m
        PROVE  m \in TheModels
    <3>1. PICK n \in TheModels : AgreeOff(m, n, dign)
      BY <1>6, <2>1, <2>5 DEF Whole
    <3>2. \A id \in UpIds : Satisfies(n, up.clauses[id])
      BY <1>8 DEF UpSat
    <3>3. \A id \in UpIds \ left : Satisfies(m, up.clauses[id])
      BY <1>8, <1>10, <3>1, <3>2, SatisfiesAgree
    <3>4. UpSat(m)
      BY <2>5, <3>3 DEF UpSat, Sat
    <3> QED
      BY <1>8, <3>4
  <2>6. ASSUME m \in TheModels
        PROVE  Sat(m) /\ (\A id \in left : Satisfies(m, up.clauses[id])) /\ up.units \subseteq m
    <3>1. UpSat(m)
      BY <1>8, <2>6
    <3>2. m \in Assignments /\ AgreeOff(m, m, dign)
      BY <3>1, AgreeFacts DEF UpSat
    <3> QED
      BY <1>11, <2>1, <2>6, <3>1, <3>2 DEF UpSat, Sound
  <2> QED
    BY <2>2, <2>3, <2>4, <2>5, <2>6
<1>13. ASSUME ~Consistent
       PROVE  Models(Projected \cup pup'.clauses) = {} /\ TheModels = {}
  <2>1. PICK w \in Vars : w \in up.units /\ -w \in up.units
    BY <1>2, <1>13, ClashVariable DEF ClashInv
  <2>2. UnitClauses(up.units) \subseteq pup'.clauses
    BY <1>1
  <2>3. ASSUME NEW m \in Models(Projected \cup pup'.clauses) PROVE FALSE
    <3>1. m \in Assignments /\ \A c \in UnitClauses(up.units) : Satisfies(m, c)
      BY <2>2 DEF Models
    <3>2. up.units \subseteq m
      BY <3>1, UnitModels
    <3> QED
      BY <2>1, <3>1, <3>2, NoModels
  <2>4. ASSUME NEW m \in TheModels PROVE FALSE
    <3>1. m \in Assignments /\ up.units \subseteq m
      BY <1>8 DEF UpSat
    <3> QED
      BY <2>1, <3>1, NoModels
  <2> QED
    BY <2>3, <2>4
<1>14. SplitExact'
  <2>1. Projected' = Projected /\ Models(Given)' = TheModels
    BY <1>1, <1>4, <1>6 DEF Projected, TheModels
  <2>2. Models(Projected \cup pup'.clauses) = TheModels
    BY <1>12, <1>13
  <2>3. Models(Projected \cup pup.clauses)' = Models(Projected \cup pup'.clauses)
    BY <2>1 DEF Models, Assignments, Satisfies
  <2> QED
    BY <2>1, <2>2, <2>3 DEF SplitExact
<1>15. ClashInv'
  BY <1>1, <1>2, ClashKept DEF IInv, ClashInv, BeingForgotten
<1> QED
  BY <1>1, <1>5, <1>6, <1>7, <1>9, <1>14, <1>15 DEF IInv, SemInv, Early, Late

-----------------------------------------------------------------------------
(* The counter, and the types of what is not the store *)

CountInv ==
  /\ CounterExact
  /\ ina \in 0 .. 2^Width - 1
  /\ v \in Vars \cup {0} /\ frgt \cap dign = {}
  /\ pairs \subseteq Ids \X Ids
  /\ pc \in Early => pairs = {} /\ v = 0 /\ frgt = {}
  /\ given \in InputFields

LEMMA CounterRange ==
  ASSUME StoreTypes, CounterExact
  PROVE  nbActive \in 0 .. 2^Width - 1
BY ActiveFinite, WrapFacts DEF CounterExact

\* The counter after reading clauses that fit.
LEMMA LoadCounts ==
  ASSUME NEW F \in Seq(SUBSET Literals), Len(F) < 2^Width,
         DOMAIN F = ActiveIds, nbActive = Len(F)
  PROVE  CounterExact
<1>1. Len(F) \in Nat /\ DOMAIN F = 1 .. Len(F)
  BY LenProperties
<1>2. Cardinality(ActiveIds) = Len(F)
  BY <1>1, IntervalCount
<1> QED
  BY <1>1, <1>2, WrapSmall DEF CounterExact

LEMMA InitCount == Fresh => CountInv
<1> SUFFICES ASSUME Fresh PROVE CountInv
  OBVIOUS
<1>1. given.clauses \in Seq(SUBSET Literals)
  BY DEF Fresh, InputFields
<1>2. DOMAIN given.clauses = ActiveIds /\ nbActive = Len(given.clauses)
  BY DEF Fresh, Load, ActiveIds, Ids
<1>3. CounterExact
  BY <1>1, <1>2, LoadCounts DEF Fresh
<1> QED
  BY <1>3 DEF Fresh, CountInv

\* A step that changes no clause from active to inactive or back.
LEMMA CountKept ==
  ASSUME CountInv, ActiveIds' = ActiveIds, nbActive' = nbActive
  PROVE  CounterExact'
BY DEF CountInv, CounterExact

LEMMA RemoveTautologiesCount ==
  ASSUME StoreInv, CountInv, RemoveTautologies
  PROVE  CountInv'
<1> DEFINE T == {id \in ActiveIds : Tautology(clauses[id])}
<1>1. /\ pc = "tautologies" /\ pc' = "collect"
      /\ UNCHANGED <<frgt, dign, v, pairs, ina, given>>
  BY DEF RemoveTautologies
<1>2. PICK order \in Ascending(T) : RmClauses(order)
  BY DEF RemoveTautologies
<1>3. StoreTypes /\ T \in SUBSET ActiveIds /\ T \in SUBSET Ids
  BY DEF StoreInv, BaseInv, TypesInv, StoreOK, ActiveIds
<1> HIDE DEF T
<1>4. /\ order \in Seq(T) /\ SlotsOf(order) = T
      /\ \A j, k \in DOMAIN order : order[j] = order[k] => j = k
  BY <1>2, <1>3, AscendingFacts
<1>5. Deactivate(order) /\ Ids' = Ids
  BY <1>2 DEF RmClauses, Ids
<1>6. CounterExact'
  BY <1>3, <1>4, <1>5, DeactivateCounts DEF CountInv
<1> QED
  BY <1>1, <1>5, <1>6 DEF CountInv, Early

\* Clauses that are switched off are counted, those that were off already are not.
LEMMA SwitchOffCount ==
  ASSUME StoreTypes, CounterExact, NEW S, SwitchOff(S), Ids' = Ids
  PROVE  CounterExact'
<1>1. ActiveIds' = ActiveIds \ S
  BY DEF SwitchOff, ActiveIds
<1>2. ActiveIds' = ActiveIds \ (S \cap ActiveIds)
  BY <1>1
<1>3. S \cap ActiveIds \in SUBSET ActiveIds
  OBVIOUS
<1>4. Wrap(nbActive - Cardinality(S \cap ActiveIds)) = Wrap(Cardinality(ActiveIds \ (S \cap ActiveIds)))
  BY <1>3, CounterMinus
<1> QED
  BY <1>2, <1>4 DEF SwitchOff, CounterExact

LEMMA CollectUnitsCount ==
  ASSUME StoreTypes, CountInv, CollectUnits
  PROVE  CountInv'
<1>1. /\ pc = "collect" /\ pc' \in {"copy", "apply"} /\ SwitchOff(UnitIds)
      /\ UNCHANGED <<clauses, frgt, dign, v, pairs, ina, given>>
  BY DEF CollectUnits
<1>2. Ids' = Ids
  BY <1>1 DEF Ids
<1>3. CounterExact'
  BY <1>1, <1>2, SwitchOffCount DEF CountInv
<1> QED
  BY <1>1, <1>2, <1>3 DEF CountInv, Early

LEMMA ApplyUnitCount ==
  ASSUME StoreTypes, CountInv, NEW l, ApplyUnit(l)
  PROVE  CountInv'
<1>1. /\ pc = "apply" /\ pc' \in {"collect", "apply"} /\ SwitchOff(idx[l])
      /\ UNCHANGED <<frgt, dign, v, pairs, ina, given>>
  BY DEF ApplyUnit
<1>2. Ids' = Ids
  BY DEF ApplyUnit, Ids
<1>3. CounterExact'
  BY <1>1, <1>2, SwitchOffCount DEF CountInv
<1> QED
  BY <1>1, <1>2, <1>3 DEF CountInv, Early

LEMMA StartProjectCount ==
  ASSUME StoreInv, CountInv, StartProject
  PROVE  CountInv'
<1>1. /\ pc = "copy" /\ pc' = "project" /\ ina' = nbActive /\ frgt' = Vars \ given.prj
      /\ UNCHANGED <<clauses, active, nbActive, dign, v, pairs, given>>
  BY DEF StartProject, storeVars
<1>2. dign = {} /\ StoreTypes
  BY <1>1 DEF StoreInv, BaseInv, TypesInv, StoreOK, Early
<1>3. Ids' = Ids /\ ActiveIds' = ActiveIds
  BY <1>1 DEF Ids, ActiveIds
<1>4. nbActive \in 0 .. 2^Width - 1
  BY <1>2, CounterRange DEF CountInv
<1> QED
  BY <1>1, <1>2, <1>3, <1>4, CountKept DEF CountInv, Early

LEMMA StartForgettingCount ==
  ASSUME StoreInv, CountInv, StartForgetting
  PROVE  CountInv'
<1>1. /\ pc = "project" /\ pc' = "resolve" /\ frgt # {} /\ v' = Cheapest
      /\ UNCHANGED <<frgt, dign, ina, given>>
  BY DEF StartForgetting
<1>2. StoreTypes /\ frgt \in SUBSET Vars
  BY DEF StoreInv, BaseInv, TypesInv, StoreOK
<1>3. v' \in Vars
  BY <1>1, <1>2, CheapestFacts
<1>4. /\ Ids' = Ids /\ ActiveIds' = ActiveIds /\ nbActive' = nbActive
      /\ pairs' \subseteq Ids \X Ids
  <2>1. CASE pairs' = idx[v'] \X idx[-v'] /\ UNCHANGED <<storeVars, units>>
    <3>1. v' \in Literals /\ -v' \in Literals
      BY <1>3, LiteralsOfVars
    <3>2. idx[v'] \subseteq Ids /\ idx[-v'] \subseteq Ids
      BY <1>2, <3>1 DEF StoreTypes
    <3> QED
      BY <2>1, <3>2 DEF storeVars, Ids, ActiveIds
  <2>2. CASE \E l \in Unit(v') : ForgetUnit(v', l)
    BY <2>2 DEF ForgetUnit, Ids, ActiveIds
  <2> QED
    BY <2>1, <2>2 DEF StartForgetting
<1> QED
  BY <1>1, <1>3, <1>4, CountKept DEF CountInv, Early

LEMMA ResolveCount ==
  ASSUME StoreInv, CountInv, Resolve
  PROVE  CountInv'
<1>1. /\ pc = "resolve" /\ pc' = pc /\ pairs' \subseteq pairs
      /\ UNCHANGED <<frgt, dign, v, ina, given>>
  BY DEF Resolve
<1>2. CASE UNCHANGED storeVars
  BY <1>1, <1>2, CountKept DEF storeVars, Ids, ActiveIds, CountInv, Early
<1>3. CASE \E c : AddClause(c)
  <2>1. PICK c : AddClause(c)
    BY <1>3
  <2>2. StoreTypes /\ NextSlot \notin ActiveIds
    BY NextSlotFacts DEF StoreInv, BaseInv, TypesInv, StoreOK
  <2>3. CounterExact'
    BY <2>1, <2>2, AddClauseCounts DEF CountInv
  <2>4. Ids \subseteq Ids'
    BY <2>1 DEF AddClause, Ids
  <2> QED
    BY <1>1, <2>3, <2>4 DEF CountInv, Early
<1> QED
  BY <1>2, <1>3 DEF Resolve

LEMMA EndForgettingCount ==
  ASSUME IInv, CountInv, EndForgetting
  PROVE  CountInv'
<1> DEFINE T == idx[v] \cup idx[-v]
<1>1. /\ pc = "resolve" /\ pc' \in {"project", "write"}
      /\ frgt' = frgt \ {v} /\ dign' = dign \cup {v}
      /\ UNCHANGED <<v, pairs, ina, given>>
  BY DEF EndForgetting, StillToForget
<1>2. PICK order \in Parents : RmClauses(order)
  BY DEF EndForgetting
<1>3. StoreInv /\ StoreTypes
  BY DEF IInv, StoreInv, BaseInv, TypesInv, StoreOK
<1>4. /\ T \in SUBSET ActiveIds
      /\ order \in Seq(T) /\ SlotsOf(order) = T
      /\ \A j, k \in DOMAIN order : order[j] = order[k] => j = k
  BY <1>1, <1>2, <1>3, ParentsFacts
<1> HIDE DEF T
<1>5. Deactivate(order) /\ Ids' = Ids
  BY <1>2 DEF RmClauses, Ids
<1>6. CounterExact'
  BY <1>3, <1>4, <1>5, DeactivateCounts DEF CountInv
<1> QED
  BY <1>1, <1>5, <1>6 DEF CountInv, Early

LEMMA OtherCount ==
  ASSUME CountInv, ResolveToEmpty \/ NothingLeft \/ WriteFiles \/ UNCHANGED vars
  PROVE  CountInv'
<1>1. /\ UNCHANGED <<clauses, active, nbActive, frgt, dign, v, pairs, ina, given>>
      /\ pc' \in Late \/ pc' = pc
  BY DEF ResolveToEmpty, NothingLeft, WriteFiles, vars, storeVars, Late
<1>2. Ids' = Ids /\ ActiveIds' = ActiveIds
  BY <1>1 DEF Ids, ActiveIds
<1>3. pc' \in Early => pc \in Early
  BY <1>1 DEF Early, Late
<1> QED
  BY <1>1, <1>2, <1>3, CountKept DEF CountInv

LEMMA CountStep ==
  ASSUME IInv, CountInv, [Next]_vars
  PROVE  CountInv'
<1>1. StoreInv /\ StoreTypes
  BY DEF IInv, StoreInv, BaseInv, TypesInv, StoreOK
<1>2. CASE RemoveTautologies
  BY <1>1, <1>2, RemoveTautologiesCount
<1>3. CASE CollectUnits
  BY <1>1, <1>3, CollectUnitsCount
<1>4. CASE \E l \in u : ApplyUnit(l)
  BY <1>1, <1>4, ApplyUnitCount
<1>5. CASE StartProject
  BY <1>1, <1>5, StartProjectCount
<1>6. CASE StartForgetting
  BY <1>1, <1>6, StartForgettingCount
<1>7. CASE Resolve
  BY <1>1, <1>7, ResolveCount
<1>8. CASE EndForgetting
  BY <1>8, EndForgettingCount
<1>9. CASE ResolveToEmpty \/ NothingLeft \/ WriteFiles \/ UNCHANGED vars
  BY <1>9, OtherCount
<1> QED
  BY <1>2, <1>3, <1>4, <1>5, <1>6, <1>7, <1>8, <1>9 DEF Next

\* Whether the slots are so few that a size_t counts them, as it counts those of a vector.
SlotsFit == Len(clauses) < 2^Width

LEMMA StoreIsConsistent ==
  ASSUME BaseInv, pc \in Late => StoreInv, CountInv, SlotsFit
  PROVE  StoreConsistent
<1>1. StoreTypes /\ StackSound /\ units \subseteq Literals /\ u \subseteq Literals
  BY DEF StoreInv, BaseInv, TypesInv, StoreOK
<1>2. nbActive \in 0 .. 2^Width - 1
  BY <1>1, CounterRange DEF CountInv
<1>3. StoreTypeOK
  BY <1>1, <1>2 DEF StoreTypeOK, StoreTypes
<1>4. TypeOK
  <2>1. frgt \subseteq Vars /\ dign \subseteq Vars
    BY DEF StoreInv, BaseInv, TypesInv
  <2>2. pc \in {"tautologies", "collect", "apply", "copy", "project", "resolve", "write",
            "done", "crashed"}
    BY DEF StoreInv, BaseInv, TypesInv, Early, Late
  <2> QED
    BY <1>1, <1>3, <2>1, <2>2 DEF TypeOK, CountInv
<1>5. nbActive = Cardinality(ActiveIds)
  <2>1. Ids = 1 .. Len(clauses) /\ Len(clauses) \in Nat
    BY <1>1, ClauseTypes
  <2>2. IsFiniteSet(Ids) /\ Cardinality(Ids) = Len(clauses)
    BY <2>1, IntervalCount
  <2>3. Cardinality(ActiveIds) <= Len(clauses) /\ Cardinality(ActiveIds) \in Nat
    <3>1. ActiveIds \in SUBSET Ids
      BY DEF ActiveIds
    <3> QED
      BY <2>2, <3>1, FS_Subset, FS_CardinalityType
  <2>4. Cardinality(ActiveIds) < 2^Width
    BY <2>1, <2>3, Sizes DEF SlotsFit
  <2> QED
    BY <2>3, <2>4, WrapSmall DEF CountInv, CounterExact
<1>6. pc \in {"project", "resolve", "write", "done"} => IdxLists(ActiveIds)
  BY LateIndex DEF IdxLists, Late
<1>7. \A k \in DOMAIN available : ~active[available[k]]
  <2>1. \A k \in DOMAIN available : available[k] \in Ids
    BY <1>1, ElementOfSeq, LenProperties DEF StoreTypes
  <2> QED
    BY <1>1, <2>1 DEF StackSound, ActiveIds
<1> QED
  BY <1>1, <1>4, <1>5, <1>6, <1>7 DEF StoreConsistent, StackSound

-----------------------------------------------------------------------------
(* Where the clauses come from *)

\* The clauses of the copy that <F>.pup keeps.
UpLeft == {id \in UpIds : ~InProjection(up.clauses[id])}

\* Propagation only shortens the clauses that were read, and only what need not be shown
\* is forgotten.
OriginInv ==
  /\ pc \in Early => \A id \in ActiveIds : \E g \in Given : clauses[id] \subseteq g
  /\ pc \in Late => \A id \in UpIds : \E g \in Given : up.clauses[id] \subseteq g
  /\ frgt \subseteq Vars \ given.prj /\ dign \subseteq Vars \ given.prj
  /\ pc = "resolve" => v \in frgt
  /\ pc = "done" => pup.clauses = {up.clauses[id] : id \in UpLeft} \cup UnitClauses(up.units)

LEMMA InitOrigin == Fresh => OriginInv
<1> SUFFICES ASSUME Fresh PROVE OriginInv
  OBVIOUS
<1>1. clauses = given.clauses
  BY DEF Fresh, Load
<1>2. \A id \in ActiveIds : clauses[id] \in Given
  BY <1>1 DEF ActiveIds, Ids, Given
<1> QED
  BY <1>2 DEF Fresh, OriginInv, Late

\* A step of simplify: clauses lose literals, and none becomes active.
LEMMA ShortenedOrigin ==
  ASSUME OriginInv, pc \in Early, pc' \in Early, UNCHANGED <<frgt, dign, given>>,
         ActiveIds' \subseteq ActiveIds, \A id \in ActiveIds' : clauses'[id] \subseteq clauses[id]
  PROVE  OriginInv'
<1>1. Given' = Given
  BY DEF Given
<1>2. \A id \in ActiveIds' : \E g \in Given : clauses'[id] \subseteq g
  <2> SUFFICES ASSUME NEW id \in ActiveIds' PROVE \E g \in Given : clauses'[id] \subseteq g
    OBVIOUS
  <2>1. PICK g \in Given : clauses[id] \subseteq g
    BY DEF OriginInv
  <2> QED
    BY <2>1
<1>3. pc' \notin Late /\ pc' # "resolve" /\ pc' # "done"
  BY DEF Early, Late
<1> QED
  BY <1>1, <1>2, <1>3 DEF OriginInv

\* A step of project: the copy stays as it is.
LEMMA ForgetOrigin ==
  ASSUME OriginInv, pc \in Late, pc' \in Late \ {"done"}, UNCHANGED <<up, given>>,
         frgt' \subseteq frgt, dign' \subseteq dign \cup frgt, pc' = "resolve" => v' \in frgt'
  PROVE  OriginInv'
<1>1. Given' = Given /\ UpIds' = UpIds
  BY DEF Given, UpIds
<1>2. pc' \notin Early
  BY DEF Early, Late
<1>3. \A id \in UpIds : \E g \in Given : up.clauses[id] \subseteq g
  BY DEF OriginInv
<1>4. frgt' \subseteq Vars \ given.prj /\ dign' \subseteq Vars \ given.prj
  BY DEF OriginInv
<1> QED
  BY <1>1, <1>2, <1>3, <1>4 DEF OriginInv

LEMMA PropagationOrigin ==
  ASSUME StoreOK, OriginInv, CollectUnits \/ \E l \in u : ApplyUnit(l)
  PROVE  OriginInv'
<1>1. CASE CollectUnits
  <2>1. /\ pc = "collect" /\ pc' \in {"copy", "apply"}
        /\ UNCHANGED <<clauses, frgt, dign, given>> /\ SwitchOff(UnitIds)
    BY <1>1 DEF CollectUnits
  <2>2. ActiveIds' \subseteq ActiveIds
    BY <2>1 DEF SwitchOff, ActiveIds, Ids
  <2> QED
    BY <2>1, <2>2, ShortenedOrigin DEF Early
<1>2. CASE \E l \in u : ApplyUnit(l)
  <2>1. PICK l \in u : ApplyUnit(l)
    BY <1>2
  <2>2. /\ pc = "apply" /\ pc' \in {"collect", "apply"} /\ UNCHANGED <<frgt, dign, given>>
        /\ SwitchOff(idx[l])
        /\ clauses' = [id \in Ids |-> IF id \in IdxWithout(idx[l])[-l]
                                      THEN clauses[id] \ {-l} ELSE clauses[id]]
    BY <2>1 DEF ApplyUnit
  <2>3. Ids' = Ids /\ \A id \in Ids : clauses'[id] \subseteq clauses[id]
    BY <2>2 DEF Ids
  <2>4. ActiveIds' \subseteq ActiveIds /\ ActiveIds' \subseteq Ids
    BY <2>2, <2>3 DEF SwitchOff, ActiveIds
  <2> QED
    BY <2>2, <2>3, <2>4, ShortenedOrigin DEF Early
<1> QED
  BY <1>1, <1>2

LEMMA RemoveTautologiesOrigin ==
  ASSUME OriginInv, RemoveTautologies
  PROVE  OriginInv'
<1>1. /\ pc = "tautologies" /\ pc' = "collect" /\ UNCHANGED <<clauses, frgt, dign, given>>
      /\ \E order : Deactivate(order)
  BY DEF RemoveTautologies, RmClauses
<1>2. ActiveIds' \subseteq ActiveIds
  BY <1>1 DEF Deactivate, ActiveIds, Ids
<1> QED
  BY <1>1, <1>2, ShortenedOrigin DEF Early

LEMMA StartProjectOrigin ==
  ASSUME TypesInv, OriginInv, StartProject
  PROVE  OriginInv'
<1>1. /\ pc = "copy" /\ pc' = "project"
      /\ up' = [clauses |-> clauses, active |-> active, units |-> units, nbActive |-> nbActive]
      /\ frgt' = Vars \ given.prj
      /\ UNCHANGED <<dign, given>>
  BY DEF StartProject
<1>2. Given' = Given /\ pc \in Early /\ pc' \notin Early
  BY <1>1 DEF Given, Early
<1>3. up'.clauses = clauses /\ up'.active = active
  BY <1>1
<1>4. UpIds' = ActiveIds
  BY <1>3 DEF UpIds, ActiveIds, Ids
<1>5. \A id \in ActiveIds : \E g \in Given : clauses[id] \subseteq g
  BY <1>2 DEF OriginInv
<1> QED
  BY <1>1, <1>2, <1>3, <1>4, <1>5 DEF OriginInv

LEMMA WriteFilesOrigin ==
  ASSUME OriginInv, WriteFiles
  PROVE  OriginInv'
<1> DEFINE removed == {id \in DOMAIN up.clauses : InProjection(up.clauses[id])}
           left == {id \in DOMAIN up.clauses \ removed : up.active[id]}
<1>1. /\ pc = "write" /\ pc' = "done" /\ UNCHANGED <<frgt, dign, v, up, given>>
      /\ pup'.clauses = {up.clauses[id] : id \in left} \cup UnitClauses(up.units)
  BY DEF WriteFiles
<1>2. left = UpLeft
  BY DEF UpLeft, UpIds
<1> HIDE DEF left
<1>3. Given' = Given /\ UpIds' = UpIds /\ UpLeft' = UpLeft
  BY <1>1 DEF Given, UpIds, UpLeft, InProjection, TrueProjection
<1>4. pup'.clauses = {up.clauses[id] : id \in UpLeft} \cup UnitClauses(up.units)
  BY <1>1, <1>2
<1>5. pc \in Late /\ pc' \notin Early
  BY <1>1 DEF Late, Early
<1> QED
  BY <1>1, <1>3, <1>4, <1>5 DEF OriginInv

LEMMA OriginStep ==
  ASSUME IInv, OriginInv, [Next]_vars
  PROVE  OriginInv'
<1>1. StoreOK /\ TypesInv /\ StoreTypes
  BY DEF IInv, StoreInv, BaseInv, TypesInv, StoreOK
<1>2. CASE RemoveTautologies
  BY <1>2, RemoveTautologiesOrigin
<1>3. CASE CollectUnits \/ \E l \in u : ApplyUnit(l)
  BY <1>1, <1>3, PropagationOrigin
<1>4. CASE StartProject
  BY <1>1, <1>4, StartProjectOrigin
<1>5. CASE StartForgetting
  <2>1. /\ pc = "project" /\ pc' = "resolve" /\ frgt # {} /\ v' = Cheapest
        /\ UNCHANGED <<frgt, dign, up, given>>
    BY <1>5 DEF StartForgetting
  <2>2. frgt \in SUBSET Vars
    BY <1>1 DEF TypesInv
  <2>3. v' \in frgt
    BY <1>1, <2>1, <2>2, CheapestFacts
  <2> QED
    BY <2>1, <2>3, ForgetOrigin DEF Late
<1>6. CASE Resolve
  <2>1. pc = "resolve" /\ UNCHANGED <<pc, frgt, dign, v, up, given>>
    BY <1>6 DEF Resolve
  <2> QED
    BY <2>1, ForgetOrigin DEF Late, OriginInv
<1>7. CASE ResolveToEmpty \/ NothingLeft
  <2>1. pc \in {"resolve", "project"} /\ pc' \in {"crashed", "write"}
        /\ UNCHANGED <<frgt, dign, v, up, given>>
    BY <1>7 DEF ResolveToEmpty, NothingLeft
  <2> QED
    BY <2>1, ForgetOrigin DEF Late
<1>8. CASE EndForgetting
  <2>1. /\ pc = "resolve" /\ pc' \in {"project", "write"}
        /\ frgt' = frgt \ {v} /\ dign' = dign \cup {v} /\ UNCHANGED <<up, given>>
    BY <1>8 DEF EndForgetting, StillToForget
  <2>2. v \in frgt
    BY <2>1 DEF OriginInv
  <2> QED
    BY <2>1, <2>2, ForgetOrigin DEF Late
<1>9. CASE WriteFiles
  BY <1>9, WriteFilesOrigin
<1>10. CASE UNCHANGED vars
  <2>1. UNCHANGED <<clauses, active, pc, frgt, dign, v, up, pup, given>>
    BY <1>10 DEF vars, storeVars
  <2>2. Given' = Given /\ UpIds' = UpIds /\ UpLeft' = UpLeft /\ ActiveIds' = ActiveIds
    BY <2>1 DEF Given, UpIds, UpLeft, InProjection, TrueProjection, ActiveIds, Ids
  <2> QED
    BY <2>1, <2>2 DEF OriginInv
<1> QED
  BY <1>2, <1>3, <1>4, <1>5, <1>6, <1>7, <1>8, <1>9, <1>10 DEF Next

-----------------------------------------------------------------------------
(* The theorems about Projection *)

LEMMA StutterStep ==
  ASSUME IInv, UNCHANGED vars
  PROVE  IInv'
<1>1. UNCHANGED <<clauses, active, idx, available, pc, units, u, frgt, dign, v, pairs, up, pup, given>>
  BY DEF vars, storeVars
<1>2. /\ ActiveIds' = ActiveIds /\ TheModels' = TheModels /\ Gone' = Gone
      /\ (Satisfiable' <=> Satisfiable) /\ (Consistent' <=> Consistent)
      /\ Projected' = Projected /\ UpIds' = UpIds
  BY <1>1 DEF ActiveIds, Ids, TheModels, Given, Gone, Satisfiable, Consistent, Projected, UpIds
<1>3. StoreInv'
  <2>1. TypesInv'
    BY <1>1, <1>2 DEF IInv, StoreInv, BaseInv, TypesInv, StoreOK, StoreTypes, StackSound, Ids
  <2>2. Indexed' /\ Listed' /\ Propagated'
    BY <1>1, <1>2 DEF IInv, StoreInv, BaseInv, Indexed, Listed, Pending, Propagated
  <2>3. NoTautology' /\ Clean' /\ PairsListed'
    BY <1>1, <1>2 DEF IInv, StoreInv, BaseInv, NoTautology, Clean, PairsListed
  <2> QED
    BY <2>1, <2>2, <2>3 DEF StoreInv, BaseInv
<1>4. (\A m : Sat(m)' <=> Sat(m)) /\ (\A m : UpSat(m)' <=> UpSat(m))
  BY <1>1, <1>2 DEF Sat, UpSat
<1>5. Resolved' <=> Resolved
  <2>1. \A q : Resolvent(q)' = Resolvent(q)
    BY <1>1 DEF Resolvent
  <2> QED
    BY <1>1, <1>2, <2>1 DEF Resolved
<1>6. SemInv'
  BY <1>1, <1>2, <1>4, <1>5 DEF IInv, SemInv, Sound, Whole
<1>7. UpInv' /\ SplitExact'
  BY <1>1, <1>2, <1>4 DEF IInv, UpInv, SplitExact, TheModels
<1>8. ClashInv'
  BY <1>1 DEF IInv, ClashInv, BeingForgotten
<1> QED
  BY <1>3, <1>6, <1>7, <1>8 DEF IInv

LEMMA InvStep ==
  ASSUME IInv, [Next]_vars
  PROVE  IInv'
<1>1. CASE RemoveTautologies
  BY <1>1, RemoveTautologiesStep
<1>2. CASE CollectUnits
  BY <1>2, CollectUnitsStep
<1>3. CASE \E l \in u : ApplyUnit(l)
  BY <1>3, ApplyUnitStep
<1>4. CASE StartProject
  BY <1>4, StartProjectStep
<1>5. CASE StartForgetting
  BY <1>5, StartForgettingStep
<1>6. CASE Resolve
  BY <1>6, ResolveStep
<1>7. CASE ResolveToEmpty
  BY <1>7, ResolveToEmptyStep
<1>8. CASE EndForgetting
  BY <1>8, EndForgettingStep
<1>9. CASE NothingLeft
  BY <1>9, NothingLeftStep
<1>10. CASE WriteFiles
  BY <1>10, WriteFilesStep
<1>11. CASE UNCHANGED vars
  BY <1>11, StutterStep
<1> QED
  BY <1>1, <1>2, <1>3, <1>4, <1>5, <1>6, <1>7, <1>8, <1>9, <1>10, <1>11 DEF Next

\* The argument the theorems below rest on: what the invariant says of the clauses, the
\* index and the copy, it says after every step of simplify, project and forget
\* (CNF.cpp:301-357,529-668).
THEOREM Invariance == Spec => []IInv
<1>1. Init => IInv
  BY InitFresh, InitInv
<1>2. IInv /\ [Next]_vars => IInv'
  BY InvStep
<1> QED
  BY <1>1, <1>2, PTL DEF Spec

\* Forgetting is exact for every formula, whatever is forgotten and wherever project
\* stops: the file says of the other variables what the formula says, also of one whose
\* units contradict each other.  Of a satisfiable formula the clauses left mention no
\* forgotten variable and no resolvent is empty, so that forget never reads the first
\* literal of nothing (CNF.cpp:270-290,301-357,489-496,529-634).
THEOREM ProjectionAlwaysExact == Spec => []ProjectionExact
<1>1. IInv => ProjectionExact
  BY InvImplies DEF IInv, StoreInv
<1> QED
  BY <1>1, Invariance, PTL

\* The two files together always are the formula, whether or not it has a model
\* (CNF.cpp:636-668, projection.cpp:84-107).
THEOREM FilesAlwaysSplit == Spec => []SplitExact
<1>1. IInv => SplitExact
  BY DEF IInv
<1> QED
  BY <1>1, Invariance, PTL

\* While variables are forgotten idx lists exactly the active clauses, and add_clause
\* overwrites none: no slot is on the stack twice, or while it is in use
\* (CNF.cpp:328-355,465-487,515-522).
THEOREM StoreAlwaysSound ==
  Spec => [](pc \in Late => IdxLists(ActiveIds) /\ StackSound)
<1>1. IInv => (pc \in Late => IdxLists(ActiveIds) /\ StackSound)
  BY LateIndex DEF IInv, IdxLists, StoreOK
<1> QED
  BY <1>1, Invariance, PTL

\* The counter that stops project is exact modulo the size of a size_t, and exact as long
\* as the vector has fewer slots than a size_t can count: then the store is consistent.
THEOREM StoreAlwaysConsistent == Spec => [](CounterExact /\ (SlotsFit => StoreConsistent))
<1>1. Init => CountInv
  BY InitFresh, InitCount
<1>2. IInv /\ CountInv /\ [Next]_vars => CountInv'
  BY CountStep
<1>3. IInv /\ CountInv => CounterExact /\ (SlotsFit => StoreConsistent)
  BY StoreIsConsistent DEF IInv, StoreInv, CountInv
<1> QED
  BY <1>1, <1>2, <1>3, Invariance, PTL DEF Spec

-----------------------------------------------------------------------------
(* The wrapper *)

\* Where the child stands in every phase of the wrapper, and what its end says of the
\* circuit.  A child that is gone while the wrapper still looks for it was reaped by
\* nobody but the kernel.
ChildInv ==
  /\ wpc = "fork" => child = "none"
  /\ wpc = "idle" => child \in {"none", "gone"}
  /\ wpc \in {"read", "poll", "check"} => child # "none"
  /\ wpc = "wait" => child \in {"zombie", "gone"}
  /\ wpc \in {"read", "poll", "check", "wait"} /\ child = "gone" => setup.autoreap
  /\ child \in {"none", "forked", "running"} => fate = "none"
  /\ child = "zombie" => fate # "none"
  /\ fate = "success" => file = "complete"
  /\ fate = "interrupted" => wpc \notin {"fork", "read", "poll", "check"}

\* The readings are never ahead of the facts, and one of them sent the signal.
ReadingInv ==
  /\ seen => big
  /\ due => late
  /\ wpc = "wait" => seen \/ due

WInv == WrapperSound /\ ChildInv /\ ReadingInv

-----------------------------------------------------------------------------
(* The wrapper's own steps *)

LEMMA WrapperInitInv == WrapperInit => WInv
<1> SUFFICES ASSUME WrapperInit PROVE WInv
  OBVIOUS
<1>1. setup \in Setups
  BY DEF WrapperInit, Setups
<1>2. WrapperTypeOK
  BY <1>1 DEF WrapperInit, WrapperTypeOK
<1>3. StatusTrue
  BY DEF WrapperInit, StatusTrue
<1>4. ChildInv
  BY DEF WrapperInit, ChildInv
<1>5. ReadingInv
  BY DEF WrapperInit, ReadingInv
<1> QED
  BY <1>2, <1>3, <1>4, <1>5 DEF WInv, WrapperSound

LEMMA StartInv == ASSUME NEW s \in Setups, StartWrapper(s) PROVE WInv'
BY DEF StartWrapper, WInv, WrapperSound, WrapperTypeOK, StatusTrue, ChildInv, ReadingInv

\* What the child does and what the clock does, at any point of the loop.
LEMMA ChildStepInv == WInv /\ (ChildStep \/ TimePasses) => WInv'
<1> SUFFICES ASSUME WInv, ChildStep \/ TimePasses PROVE WInv'
  OBVIOUS
<1> USE DEF WInv, WrapperSound, WrapperTypeOK, StatusTrue, ChildInv, ReadingInv
<1>1. CASE Exec
  <2>1. WrapperTypeOK'
    BY <1>1 DEF Exec
  <2>2. StatusTrue'
    BY <1>1 DEF Exec
  <2>3. ChildInv'
    BY <1>1 DEF Exec
  <2>4. ReadingInv'
    BY <1>1 DEF Exec
  <2> QED
    BY <2>1, <2>2, <2>3, <2>4 DEF WrapperSound
<1>2. CASE ExecFails
  <2>1. WrapperTypeOK'
    BY <1>2 DEF ExecFails, ChildEnds
  <2>2. StatusTrue'
    BY <1>2 DEF ExecFails, ChildEnds
  <2>3. ChildInv'
    BY <1>2 DEF ExecFails, ChildEnds
  <2>4. ReadingInv'
    BY <1>2 DEF ExecFails, ChildEnds
  <2> QED
    BY <2>1, <2>2, <2>3, <2>4 DEF WrapperSound
<1>3. CASE Grow
  <2>1. WrapperTypeOK'
    BY <1>3 DEF Grow
  <2>2. StatusTrue'
    BY <1>3 DEF Grow
  <2>3. ChildInv'
    BY <1>3 DEF Grow
  <2>4. ReadingInv'
    BY <1>3 DEF Grow
  <2> QED
    BY <2>1, <2>2, <2>3, <2>4 DEF WrapperSound
<1>4. CASE WriteCircuit
  <2>1. WrapperTypeOK'
    BY <1>4 DEF WriteCircuit
  <2>2. StatusTrue'
    BY <1>4 DEF WriteCircuit
  <2>3. ChildInv'
    BY <1>4 DEF WriteCircuit
  <2>4. ReadingInv'
    BY <1>4 DEF WriteCircuit
  <2> QED
    BY <2>1, <2>2, <2>3, <2>4 DEF WrapperSound
<1>5. CASE ChildReturns
  <2>1. WrapperTypeOK'
    BY <1>5 DEF ChildReturns, ChildEnds
  <2>2. StatusTrue'
    BY <1>5 DEF ChildReturns, ChildEnds
  <2>3. ChildInv'
    BY <1>5 DEF ChildReturns, ChildEnds
  <2>4. ReadingInv'
    BY <1>5 DEF ChildReturns, ChildEnds
  <2> QED
    BY <2>1, <2>2, <2>3, <2>4 DEF WrapperSound
<1>6. CASE TimePasses
  <2>1. WrapperTypeOK'
    BY <1>6 DEF TimePasses
  <2>2. StatusTrue'
    BY <1>6 DEF TimePasses
  <2>3. ChildInv'
    BY <1>6 DEF TimePasses
  <2>4. ReadingInv'
    BY <1>6 DEF TimePasses
  <2> QED
    BY <2>1, <2>2, <2>3, <2>4 DEF WrapperSound
<1> QED
  BY <1>1, <1>2, <1>3, <1>4, <1>5, <1>6 DEF ChildStep

LEMMA LoopStepInv == WInv /\ LoopStep => WInv'
<1> SUFFICES ASSUME WInv, LoopStep PROVE WInv'
  OBVIOUS
<1> USE DEF WInv, WrapperSound, WrapperTypeOK, StatusTrue, ChildInv, ReadingInv
<1>1. CASE Fork
  <2>1. WrapperTypeOK'
    BY <1>1 DEF Fork
  <2>2. StatusTrue'
    BY <1>1 DEF Fork
  <2>3. ChildInv'
    BY <1>1 DEF Fork
  <2>4. ReadingInv'
    BY <1>1 DEF Fork
  <2> QED
    BY <2>1, <2>2, <2>3, <2>4 DEF WrapperSound
<1>2. CASE ReadMem
  <2>1. WrapperTypeOK'
    BY <1>2 DEF ReadMem
  <2>2. StatusTrue'
    BY <1>2 DEF ReadMem
  <2>3. ChildInv'
    BY <1>2 DEF ReadMem
  <2>4. ReadingInv'
    BY <1>2 DEF ReadMem
  <2> QED
    BY <2>1, <2>2, <2>3, <2>4 DEF WrapperSound
<1>3. CASE Poll
  <2>1. WrapperTypeOK'
    BY <1>3 DEF Poll, Exited
  <2>2. StatusTrue'
    <3>1. CASE child = "zombie" /\ fate \in {"success", "exec failed"}
      BY <1>3, <3>1 DEF Poll, Exited
    <3>2. CASE child = "zombie" /\ fate \notin {"success", "exec failed"} /\ setup.strict
      BY <1>3, <3>2 DEF Poll, Exited
    <3>3. CASE child = "zombie" /\ fate \notin {"success", "exec failed"} /\ ~setup.strict
      BY <1>3, <3>3 DEF Poll, Exited
    <3>4. CASE child # "zombie"
      BY <1>3, <3>4 DEF Poll
    <3> QED
      BY <3>1, <3>2, <3>3, <3>4
  <2>3. ChildInv'
    BY <1>3 DEF Poll, Exited
  <2>4. ReadingInv'
    BY <1>3 DEF Poll, Exited
  <2> QED
    BY <2>1, <2>2, <2>3, <2>4 DEF WrapperSound
<1>4. CASE Check
  <2>1. WrapperTypeOK'
    BY <1>4 DEF Check, Interrupt, ChildEnds, Alive
  <2>2. StatusTrue'
    BY <1>4 DEF Check, Interrupt, ChildEnds, Alive
  <2>3. ChildInv'
    BY <1>4 DEF Check, Interrupt, ChildEnds, Alive
  <2>4. ReadingInv'
    BY <1>4 DEF Check, Interrupt, ChildEnds, Alive
  <2> QED
    BY <2>1, <2>2, <2>3, <2>4 DEF WrapperSound
<1>5. CASE Wait
  <2>1. WrapperTypeOK'
    BY <1>5 DEF Wait
  <2>2. StatusTrue'
    BY <1>5 DEF Wait
  <2>3. ChildInv'
    BY <1>5 DEF Wait
  <2>4. ReadingInv'
    BY <1>5 DEF Wait
  <2> QED
    BY <2>1, <2>2, <2>3, <2>4 DEF WrapperSound
<1> QED
  BY <1>1, <1>2, <1>3, <1>4, <1>5 DEF LoopStep

\* The script takes the circuit and goes on to the next call.
LEMMA ReturnInv == WInv /\ WrapperReturns => WInv'
<1> SUFFICES ASSUME WInv, WrapperReturns PROVE WInv'
  OBVIOUS
<1> USE DEF WInv, WrapperSound, WrapperReturns
<1>1. WrapperTypeOK'
  <2>1. (big \in BOOLEAN /\ late \in BOOLEAN /\ seen \in BOOLEAN /\ due \in BOOLEAN)'
    BY Zenon DEF WrapperTypeOK
  <2> QED
    BY <2>1 DEF WrapperTypeOK
<1>2. StatusTrue'
  BY DEF StatusTrue
<1>3. ChildInv'
  BY DEF StatusTrue, ChildInv
<1>4. ReadingInv'
  BY DEF ReadingInv
<1> QED
  BY <1>1, <1>2, <1>3, <1>4

\* Nothing else touches the wrapper.
LEMMA StutterInv == WInv /\ UNCHANGED wrapperVars => WInv'
<1> SUFFICES ASSUME WInv, UNCHANGED wrapperVars PROVE WInv'
  OBVIOUS
<1>1. /\ setup' = setup /\ wpc' = wpc /\ child' = child /\ fate' = fate /\ file' = file
      /\ report' = report
  BY DEF wrapperVars
<1>2. big' = big /\ late' = late /\ seen' = seen /\ due' = due
  BY DEF wrapperVars
<1>3. WrapperTypeOK'
  <2>1. (big \in BOOLEAN /\ late \in BOOLEAN /\ seen \in BOOLEAN /\ due \in BOOLEAN)'
    BY <1>2, Zenon DEF WInv, WrapperSound, WrapperTypeOK
  <2> QED
    BY <1>1, <2>1, Zenon DEF WInv, WrapperSound, WrapperTypeOK
<1>4. StatusTrue'
  BY <1>1, <1>2, Zenon DEF WInv, WrapperSound, StatusTrue
<1>5. ChildInv'
  BY <1>1, Zenon DEF WInv, ChildInv
<1>6. ReadingInv'
  BY <1>1, <1>2, Zenon DEF WInv, ReadingInv
<1> QED
  BY <1>3, <1>4, <1>5, <1>6 DEF WInv, WrapperSound

LEMMA WrapperStepInv ==
  ASSUME WInv, [DivKCNext]_divkcVars
  PROVE  WInv'
<1>1. CASE UNCHANGED wrapperVars
  BY <1>1, StutterInv
<1>2. CASE CallWrapper
  BY <1>2, StartInv DEF CallWrapper
<1>3. CASE Wrapped
  BY <1>3, ChildStepInv, LoopStepInv DEF Wrapped, WrapperStep
<1>4. CASE WrapperReturns
  BY <1>4, ReturnInv
<1>5. CASE SplitterPropagates \/ Split \/ Project \/ StartD4 \/ CompileNatively
  BY <1>1, <1>5 DEF SplitterPropagates, Split, Project, StartD4, CompileNatively
<1>6. CASE UNCHANGED divkcVars
  BY <1>1, <1>6 DEF divkcVars
<1> QED
  BY <1>2, <1>3, <1>4, <1>5, <1>6 DEF DivKCNext

\* Whichever script calls it and whatever the command does, the wrapper returns with no
\* process left behind, and `done', `err', `mem' and `timeout' mean what they say.
\* (main.cpp:68-117)
THEOREM WrapperAlwaysSound == DivKCSpec => []WrapperSound
<1>1. DivKCInit => WInv
  BY WrapperInitInv DEF DivKCInit
<1>2. WInv /\ [DivKCNext]_divkcVars => WInv'
  BY WrapperStepInv
<1>3. WInv => WrapperSound
  BY DEF WInv
<1> QED
  BY <1>1, <1>2, <1>3, PTL DEF DivKCSpec

-----------------------------------------------------------------------------
(* The files the splitter writes *)

JobFormula == {job.input.clauses[id] : id \in DOMAIN job.input.clauses}

LEMMA PrintedFacts ==
  ASSUME NEW T, IsFiniteSet(T), NEW order \in Orders(T)
  PROVE  /\ order \in Seq(T) /\ DOMAIN order = 1 .. Len(order)
         /\ Len(order) = Cardinality(T) /\ Cardinality(T) \in Nat
         /\ {order[k] : k \in DOMAIN order} = T
<1>1. /\ order \in Seq(T) /\ DOMAIN order = 1 .. Len(order) /\ SlotsOf(order) = T
      /\ \A j, k \in DOMAIN order : order[j] = order[k] => j = k
  BY OrderFacts
<1>2. Len(order) = Cardinality(T)
  BY <1>1, OrderLength
<1> QED
  BY <1>1, <1>2, FS_CardinalityType DEF SlotsOf

\* Its clauses are those of the formula it has propagated.
LEMMA LinesFacts ==
  ASSUME StoreTypes, units \subseteq Literals,
         NEW order \in Ascending(ActiveIds), NEW us \in Printed(units), NEW lines, lines = Lines(order, us)
  PROVE  /\ lines \in Seq(SUBSET Literals)
         /\ Len(lines) = Cardinality(ActiveIds) + Cardinality(units)
         /\ SlotsOf(lines) = Projected
<1>1. lines = [k \in DOMAIN order |-> clauses[order[k]]] \o [k \in DOMAIN us |-> {us[k]}]
  BY DEF Lines
<1> DEFINE s == [k \in DOMAIN order |-> clauses[order[k]]]
           t == [k \in DOMAIN us |-> {us[k]}]
<1>2. IsFiniteSet(ActiveIds) /\ IsFiniteSet(units)
  BY ActiveFinite, ClauseFinite
<1>3. order \in Orders(ActiveIds) /\ us \in Orders(units)
  BY DEF Ascending, Printed
<1>4. /\ order \in Seq(ActiveIds) /\ DOMAIN order = 1 .. Len(order)
      /\ Len(order) = Cardinality(ActiveIds) /\ Cardinality(ActiveIds) \in Nat
      /\ {order[k] : k \in DOMAIN order} = ActiveIds
  BY <1>2, <1>3, PrintedFacts
<1>5. /\ us \in Seq(units) /\ DOMAIN us = 1 .. Len(us)
      /\ Len(us) = Cardinality(units) /\ Cardinality(units) \in Nat
      /\ {us[k] : k \in DOMAIN us} = units
  BY <1>2, <1>3, PrintedFacts
<1>6. \A id \in ActiveIds : clauses[id] \in SUBSET Literals
  BY ClauseTypes DEF ActiveIds
<1>7. /\ s \in Seq(SUBSET Literals) /\ Len(s) = Cardinality(ActiveIds)
      /\ SlotsOf(s) = {clauses[id] : id \in ActiveIds}
  <2>1. \A k \in 1 .. Len(order) : order[k] \in ActiveIds /\ s[k] = clauses[order[k]]
    BY <1>4
  <2>2. s \in [1 .. Len(order) -> SUBSET Literals]
    BY <1>4, <1>6, <2>1
  <2>3. s \in Seq(SUBSET Literals) /\ Len(s) = Len(order) /\ DOMAIN s = 1 .. Len(order)
    BY <1>4, <2>2, IsASeq, LenProperties
  <2> HIDE DEF s
  <2>4. SlotsOf(s) = {clauses[id] : id \in ActiveIds}
    BY <1>4, <2>1, <2>3 DEF SlotsOf
  <2> QED
    BY <1>4, <2>3, <2>4
<1>8. /\ t \in Seq(SUBSET Literals) /\ Len(t) = Cardinality(units)
      /\ SlotsOf(t) = UnitClauses(units)
  <2>1. \A k \in 1 .. Len(us) : us[k] \in units /\ t[k] = {us[k]}
    BY <1>5
  <2>2. t \in [1 .. Len(us) -> SUBSET Literals]
    BY <1>5, <2>1
  <2>3. t \in Seq(SUBSET Literals) /\ Len(t) = Len(us) /\ DOMAIN t = 1 .. Len(us)
    BY <1>5, <2>2, IsASeq, LenProperties
  <2> HIDE DEF t
  <2>4. SlotsOf(t) = UnitClauses(units)
    BY <1>5, <2>1, <2>3 DEF UnitClauses, SlotsOf
  <2> QED
    BY <1>5, <2>3, <2>4
<1> HIDE DEF s, t
<1>9. lines = s \o t
  BY <1>1 DEF s, t
<1>10. /\ lines \in Seq(SUBSET Literals) /\ Len(lines) = Len(s) + Len(t)
       /\ SlotsOf(lines) = SlotsOf(s) \cup SlotsOf(t)
  <2>1. /\ lines \in Seq(SUBSET Literals) /\ Len(lines) = Len(s) + Len(t)
        /\ \A k \in 1 .. Len(s) + Len(t) : lines[k] = IF k <= Len(s) THEN s[k] ELSE t[k - Len(s)]
    BY <1>7, <1>8, <1>9, ConcatProperties
  <2>2. /\ Len(s) \in Nat /\ DOMAIN s = 1 .. Len(s) /\ Len(t) \in Nat /\ DOMAIN t = 1 .. Len(t)
        /\ DOMAIN lines = 1 .. Len(s) + Len(t)
    BY <2>1, LenProperties
  <2>3. ASSUME NEW k \in DOMAIN lines
        PROVE  lines[k] \in {s[j] : j \in DOMAIN s} \cup {t[j] : j \in DOMAIN t}
    <3>1. CASE k <= Len(s)
      <4>1. k \in DOMAIN s /\ lines[k] = s[k]
        BY <2>1, <2>2, <3>1
      <4> QED
        BY <4>1
    <3>2. CASE ~(k <= Len(s))
      <4>1. k - Len(s) \in DOMAIN t /\ lines[k] = t[k - Len(s)]
        BY <2>1, <2>2, <3>2
      <4> QED
        BY <4>1
    <3> QED
      BY <3>1, <3>2
  <2>4. \A j \in DOMAIN s : j \in DOMAIN lines /\ lines[j] = s[j]
    BY <2>1, <2>2
  <2>5. ASSUME NEW j \in DOMAIN t
        PROVE  t[j] \in {lines[k] : k \in DOMAIN lines}
    <3>1. j + Len(s) \in 1 .. Len(s) + Len(t) /\ ~(j + Len(s) <= Len(s)) /\ (j + Len(s)) - Len(s) = j
      BY <2>2
    <3>2. j + Len(s) \in DOMAIN lines /\ lines[j + Len(s)] = t[j]
      BY <2>1, <2>2, <3>1
    <3> QED
      BY <3>2
  <2>6. {lines[k] : k \in DOMAIN lines} = {s[k] : k \in DOMAIN s} \cup {t[k] : k \in DOMAIN t}
    <3>1. \A k \in DOMAIN lines : lines[k] \in {s[j] : j \in DOMAIN s} \cup {t[j] : j \in DOMAIN t}
      BY <2>3
    <3>2. \A j \in DOMAIN s : s[j] \in {lines[k] : k \in DOMAIN lines}
      BY <2>4
    <3>3. \A j \in DOMAIN t : t[j] \in {lines[k] : k \in DOMAIN lines}
      BY <2>5
    <3>4. {lines[k] : k \in DOMAIN lines} \subseteq {s[k] : k \in DOMAIN s} \cup {t[k] : k \in DOMAIN t}
      BY <3>1
    <3>5. {s[k] : k \in DOMAIN s} \cup {t[k] : k \in DOMAIN t} \subseteq {lines[k] : k \in DOMAIN lines}
      BY <3>2, <3>3
    <3> QED
      BY <3>4, <3>5
  <2> QED
    BY <2>1, <2>6 DEF SlotsOf
<1>11. SlotsOf(lines) = Projected
  <2>1. SlotsOf(lines) = {clauses[id] : id \in ActiveIds} \cup UnitClauses(units)
    BY <1>7, <1>8, <1>10, Zenon
  <2> QED
    BY <2>1 DEF Projected
<1>12. Len(lines) = Cardinality(ActiveIds) + Cardinality(units)
  BY <1>7, <1>8, <1>10
<1> QED
  BY <1>10, <1>11, <1>12

\* A clause the partition does not cut is in one part.
LEMMA OnePart ==
  ASSUME NEW p \in [Vars -> Nat], NEW c \in SUBSET Literals, ~(Cardinality(Parts(p, c)) > 1)
  PROVE  \E k : \A w \in VarsOf(c) : p[w] = k
<1>1. VarsOf(c) \subseteq Vars
  BY VarFacts DEF VarsOf, Var
<1>2. IsFiniteSet(VarsOf(c))
  BY <1>1, StoreAssumption, FS_Subset
<1> DEFINE q == [w \in VarsOf(c) |-> p[w]]
<1>3. q \in Surjection(VarsOf(c), Parts(p, c))
  BY DEF Parts, Surjection
<1>4. IsFiniteSet(Parts(p, c))
  BY <1>2, <1>3, FS_Surjection
<1>5. Cardinality(Parts(p, c)) = 0 \/ Cardinality(Parts(p, c)) = 1
  BY <1>4, FS_CardinalityType
<1>6. Parts(p, c) = {} \/ \E k : Parts(p, c) = {k}
  BY <1>4, <1>5, FS_EmptySet, FS_Singleton
<1> QED
  BY <1>6 DEF Parts

-----------------------------------------------------------------------------
(* The invariant of the scripts *)

ScriptInv ==
  /\ FileTypeOK
  /\ job.script = "capkc" => pnnf = "none" /\ stage \in {"compile unnf", "over"}
  /\ stage \in {"compile pnnf", "compile unnf", "over"} => pc = "done" \/ job.script = "capkc"
  /\ Models(Given) = Models(JobFormula)

\* What the splitter prints fits: every unit comes from a clause that is switched off.
SplitterInv ==
  /\ BaseInv /\ SameModels /\ pc \in Early
  /\ Cardinality(ActiveIds) + Cardinality(units) < 2^Width

\* The clauses that are in several parts are over the shown variables.
CutShown ==
  \A g \in Given : VarsOf(g) \subseteq given.prj \/ \E k : \A w \in VarsOf(g) : part[w] = k

DInv ==
  /\ ScriptInv /\ CountInv /\ OriginInv
  /\ stage = "split" => SplitterInv
  /\ stage # "split" => IInv
  /\ stage # "split" /\ job.script = "compile_formula" => CutShown

LEMMA JobFields ==
  ASSUME job \in Jobs
  PROVE  /\ job.script \in Scripts /\ job.input \in InputFields /\ job.nb \in Nat \ {0}
         /\ Len(job.input.clauses) < 2^Width
BY JobsAssumption, InputsAssumption

LEMMA DivKCInitInv == DivKCInit => DInv
<1> SUFFICES ASSUME DivKCInit PROVE DInv
  OBVIOUS
<1>1. job \in Jobs /\ given = job.input /\ Fresh
  BY InitFresh DEF DivKCInit
<1>2. IInv /\ CountInv /\ OriginInv
  BY <1>1, InitInv, InitCount, InitOrigin
<1>3. /\ job.script = "capkc" => stage = "compile unnf"
      /\ job.script = "projection" => stage = "project"
      /\ job.script \in {"compile_formula", "docker_compile_formula"} => stage = "split"
  BY DEF DivKCInit
<1>4. job.script \in Scripts /\ job.nb \in Nat \ {0}
  BY <1>1, JobFields
<1>5. /\ part \in [Vars -> 0 .. job.nb - 1] /\ pnnf = "none" /\ unnf = "none"
  <2>1. 0 \in 0 .. job.nb - 1
    BY <1>4
  <2> QED
    BY <2>1 DEF DivKCInit
<1>6. Models(Given) = Models(JobFormula)
  BY <1>1 DEF Given, JobFormula
<1>7. ScriptInv
  BY <1>1, <1>3, <1>4, <1>5, <1>6 DEF ScriptInv, FileTypeOK, Scripts
<1>8. SplitterInv
  <2>1. BaseInv /\ SameModels /\ pc \in Early
    BY <1>1, <1>2 DEF IInv, StoreInv, SemInv, SameModels, Fresh, Early
  <2>2. ActiveIds = DOMAIN given.clauses /\ units = {}
    BY <1>1 DEF Fresh, Load, ActiveIds, Ids
  <2>3. given.clauses \in Seq(SUBSET Literals) /\ Len(given.clauses) < 2^Width
    BY <1>1 DEF Fresh, InputFields
  <2>4. Len(given.clauses) \in Nat /\ DOMAIN given.clauses = 1 .. Len(given.clauses)
    BY <2>3, LenProperties
  <2>5. Cardinality(ActiveIds) = Len(given.clauses)
    BY <2>2, <2>4, IntervalCount
  <2>6. Cardinality(units) = 0
    BY <2>2, FS_EmptySet
  <2>7. Cardinality(ActiveIds) + Cardinality(units) < 2^Width
    BY <2>3, <2>4, <2>5, <2>6, Sizes
  <2> QED
    BY <2>1, <2>7 DEF SplitterInv
<1> QED
  BY <1>2, <1>3, <1>7, <1>8 DEF DInv

\* A step of the splitter.
LEMMA UnitCount ==
  ASSUME StoreTypes, units \subseteq Literals, CollectUnits
  PROVE  Cardinality(ActiveIds') + Cardinality(units')
           <= Cardinality(ActiveIds) + Cardinality(units)
<1>1. /\ SwitchOff(UnitIds) /\ clauses' = clauses
      /\ u' = UNION {clauses[id] : id \in UnitIds} /\ units' = units \cup u'
  BY DEF CollectUnits
<1>2. IsFiniteSet(ActiveIds) /\ Cardinality(ActiveIds) \in Nat
  BY ActiveFinite
<1>3. UnitIds \subseteq ActiveIds /\ \A id \in UnitIds : \E l \in Literals : clauses[id] = {l}
  <2>1. \A id \in ActiveIds : clauses[id] \in SUBSET Literals
    BY ClauseTypes DEF ActiveIds
  <2> QED
    BY <2>1, UnitClause DEF UnitIds
<1> HIDE DEF UnitIds
<1>4. IsFiniteSet(UnitIds) /\ Cardinality(UnitIds) \in Nat
  BY <1>2, <1>3, FS_Subset, FS_CardinalityType
<1>5. ActiveIds' = ActiveIds \ UnitIds
  BY <1>1, <1>3 DEF SwitchOff, ActiveIds, Ids
<1>6. Cardinality(ActiveIds') = Cardinality(ActiveIds) - Cardinality(UnitIds)
  <2>1. ActiveIds \cap UnitIds = UnitIds
    BY <1>3
  <2>2. Cardinality(ActiveIds \ UnitIds)
          = Cardinality(ActiveIds) - Cardinality(ActiveIds \cap UnitIds)
    BY <1>2, <1>4, FS_Difference
  <2> QED
    BY <1>5, <2>1, <2>2
<1>7. IsFiniteSet(u') /\ Cardinality(u') <= Cardinality(UnitIds) /\ Cardinality(u') \in Nat
  <2> DEFINE f == [id \in UnitIds |-> CHOOSE l \in Literals : clauses[id] = {l}]
  <2>1. \A id \in UnitIds : clauses[id] = {f[id]}
    BY <1>3
  <2>2. f \in [UnitIds -> u']
    BY <1>1, <2>1
  <2>3. \A l \in u' : \E id \in UnitIds : f[id] = l
    BY <1>1, <2>1
  <2> HIDE DEF f
  <2>4. f \in Surjection(UnitIds, u')
    BY <2>2, <2>3 DEF Surjection
  <2> QED
    BY <1>4, <2>4, FS_Surjection, FS_CardinalityType
<1>8. IsFiniteSet(units) /\ Cardinality(units) \in Nat
  BY ClauseFinite, FS_CardinalityType
<1>9. Cardinality(units') <= Cardinality(units) + Cardinality(u') /\ Cardinality(units') \in Nat
  <2>1. /\ IsFiniteSet(units')
        /\ Cardinality(units') = Cardinality(units) + Cardinality(u') - Cardinality(units \cap u')
    BY <1>1, <1>7, <1>8, FS_Union
  <2>2. IsFiniteSet(units \cap u') /\ Cardinality(units \cap u') \in Nat
    BY <1>8, FS_Intersection, FS_CardinalityType
  <2> QED
    BY <1>7, <1>8, <2>1, <2>2, FS_CardinalityType
<1> QED
  BY <1>2, <1>4, <1>6, <1>7, <1>8, <1>9

LEMMA FormulaSizes ==
  StoreTypes /\ units \subseteq Literals =>
    Cardinality(ActiveIds) \in Nat /\ Cardinality(units) \in Nat
BY ActiveFinite, ClauseFinite, FS_CardinalityType

LEMMA ActiveShrinks ==
  ASSUME StoreTypes, NEW S, SwitchOff(S), Ids' = Ids
  PROVE  Cardinality(ActiveIds') <= Cardinality(ActiveIds)
         /\ Cardinality(ActiveIds) \in Nat /\ Cardinality(ActiveIds') \in Nat
<1>1. ActiveIds' \subseteq ActiveIds
  BY DEF SwitchOff, ActiveIds
<1> QED
  BY <1>1, ActiveFinite, FS_Subset, FS_CardinalityType

\* A step that leaves the splitter's formula alone.
LEMMA SplitterKept ==
  ASSUME SplitterInv, CountInv, OriginInv, pc' = pc \/ (pc = "tautologies" /\ pc' = "collect"),
         UNCHANGED <<storeVars, units, u, frgt, dign, v, pairs, ina, up, pup, given>>
  PROVE  SplitterInv' /\ CountInv' /\ OriginInv'
<1>1. /\ UNCHANGED <<clauses, active, idx, available, nbActive>>
      /\ UNCHANGED <<units, u, frgt, dign, v, pairs, ina, up, pup, given>>
  BY DEF storeVars
<1>2. /\ ActiveIds' = ActiveIds /\ Ids' = Ids /\ Given' = Given
  BY <1>1 DEF ActiveIds, Ids, Given
<1>3. BaseInv /\ SameModels /\ pc \in Early /\ pc' \in Early /\ StoreOK
  BY DEF SplitterInv, BaseInv, TypesInv, Early
<1>4. StoreOK'
  BY <1>1, <1>2, <1>3 DEF StoreOK, StoreTypes, StackSound
<1>5. TypesInv'
  BY <1>1, <1>3, <1>4 DEF BaseInv, TypesInv, Early, Late
<1>6. Indexed' /\ Listed' /\ Propagated'
  BY <1>1, <1>2, <1>3 DEF BaseInv, Indexed, Listed, Pending, Propagated
<1>7. Clean' /\ PairsListed'
  BY <1>1, <1>2, <1>3 DEF BaseInv, Clean, PairsListed, Early
<1>8. SameModels'
  BY <1>1, <1>2, <1>3 DEF SameModels, Sat, TheModels
<1>9. CountInv'
  BY <1>1, <1>2, <1>3 DEF CountInv, CounterExact
<1>10. OriginInv'
  BY <1>1, <1>2, <1>3, ShortenedOrigin
<1> QED
  BY <1>1, <1>2, <1>3, <1>5, <1>6, <1>7, <1>8, <1>9, <1>10 DEF SplitterInv, BaseInv

LEMMA SplitterStep ==
  ASSUME DInv, SplitterPropagates
  PROVE  DInv'
<1>1. stage = "split" /\ UNCHANGED <<job, stage, part, pnnf, unnf>>
  BY DEF SplitterPropagates, scriptVars
<1>2. /\ SplitterInv /\ CountInv /\ OriginInv /\ ScriptInv
      /\ BaseInv /\ SameModels /\ pc \in Early /\ StoreOK /\ StoreTypes /\ units \subseteq Literals
  BY <1>1 DEF DInv, SplitterInv, BaseInv, TypesInv, StoreOK
<1>3. SplitterInv' /\ CountInv' /\ OriginInv' /\ given' = given
  <2>1. CASE /\ pc = "tautologies" /\ pc' = "collect"
             /\ UNCHANGED <<storeVars, units, u, frgt, dign, v, pairs, ina, up, pup, given>>
    BY <1>2, <2>1, SplitterKept
  <2>2. CASE CollectUnits
    <3>1. BaseInv' /\ SameModels' /\ pc' \in Early
      BY <1>2, <2>2, CollectUnitsBase
    <3>2. CountInv' /\ OriginInv'
      BY <1>2, <2>2, CollectUnitsCount, PropagationOrigin
    <3>3. Cardinality(ActiveIds') + Cardinality(units')
            <= Cardinality(ActiveIds) + Cardinality(units)
      BY <1>2, <2>2, UnitCount
    <3>4. StoreTypes' /\ (units \subseteq Literals)'
      BY <3>1 DEF BaseInv, TypesInv, StoreOK
    <3>5. /\ Cardinality(ActiveIds) \in Nat /\ Cardinality(units) \in Nat
          /\ (Cardinality(ActiveIds) \in Nat)' /\ (Cardinality(units) \in Nat)'
      <4>1. (StoreTypes /\ units \subseteq Literals =>
              Cardinality(ActiveIds) \in Nat /\ Cardinality(units) \in Nat)'
        BY FormulaSizes, PTL
      <4> QED
        BY <1>2, <3>4, <4>1, FormulaSizes
    <3>6. (Cardinality(ActiveIds) + Cardinality(units) < 2^Width)'
      BY <1>2, <3>3, <3>5, Sizes DEF SplitterInv
    <3> QED
      BY <2>2, <3>1, <3>2, <3>6 DEF SplitterInv, CollectUnits
  <2>3. CASE \E l \in u : ApplyUnit(l)
    <3>1. PICK l \in u : ApplyUnit(l)
      BY <2>3
    <3>2. BaseInv' /\ SameModels' /\ pc' \in Early
      BY <1>2, <3>1, ApplyUnitBase
    <3>3. CountInv' /\ OriginInv'
      BY <1>2, <2>3, <3>1, ApplyUnitCount, PropagationOrigin
    <3>4. SwitchOff(idx[l]) /\ Ids' = Ids /\ units' = units /\ given' = given
      BY <3>1 DEF ApplyUnit, Ids
    <3>5. /\ Cardinality(ActiveIds') <= Cardinality(ActiveIds)
          /\ Cardinality(ActiveIds) \in Nat /\ Cardinality(ActiveIds') \in Nat
      BY <1>2, <3>4, ActiveShrinks
    <3>6. Cardinality(units) \in Nat
      BY <1>2, ClauseFinite, FS_CardinalityType
    <3>7. (Cardinality(ActiveIds) + Cardinality(units) < 2^Width)'
      BY <1>2, <3>4, <3>5, <3>6, Sizes DEF SplitterInv
    <3> QED
      BY <3>2, <3>3, <3>4, <3>7 DEF SplitterInv
  <2> QED
    BY <2>1, <2>2, <2>3 DEF SplitterPropagates
<1>4. ScriptInv'
  <2>1. Given' = Given /\ JobFormula' = JobFormula
    BY <1>1, <1>3 DEF Given, JobFormula
  <2> QED
    BY <1>1, <1>2, <2>1 DEF ScriptInv, FileTypeOK
<1> QED
  BY <1>1, <1>3, <1>4 DEF DInv

\* The projection tool is given what the splitter wrote, or the formula itself.
LEMMA SplitStep ==
  ASSUME DInv, Split
  PROVE  DInv'
<1>1. /\ stage = "split" /\ pc = "copy" /\ stage' = "project"
      /\ UNCHANGED <<job, pnnf, unnf, frgt, dign, v, pairs, ina>>
  BY DEF Split
<1>2. /\ SplitterInv /\ CountInv /\ ScriptInv /\ BaseInv /\ SameModels /\ pc \in Early
      /\ StoreTypes /\ units \subseteq Literals /\ job \in Jobs
  BY <1>1 DEF DInv, SplitterInv, BaseInv, TypesInv, StoreOK, ScriptInv, FileTypeOK
<1>3. /\ job.script \in Scripts /\ job.input \in InputFields /\ job.nb \in Nat \ {0}
      /\ Len(job.input.clauses) < 2^Width
  BY <1>2, JobFields
<1>4. PICK p \in [Vars -> 0 .. job.nb - 1], order \in Ascending(ActiveIds), us \in Printed(units) :
        /\ part' = p
        /\ Read(IF job.script = "compile_formula"
                THEN [clauses |-> Lines(order, us), prj |-> ShownBy(p)]
                ELSE job.input)
  BY DEF Split
<1> DEFINE f == given'
           lines == Lines(order, us)
<1>5. /\ f = (IF job.script = "compile_formula"
              THEN [clauses |-> lines, prj |-> ShownBy(p)] ELSE job.input)
      /\ Load(given.clauses)' /\ pc' = "tautologies" /\ units' = {} /\ u' = {}
  BY <1>4 DEF Read, Load
<1>6. /\ lines \in Seq(SUBSET Literals) /\ SlotsOf(lines) = Projected
      /\ Len(lines) = Cardinality(ActiveIds) + Cardinality(units)
  BY <1>2, LinesFacts
<1> HIDE DEF lines
<1>7. ShownBy(p) \in SUBSET Vars
  <2>1. \A id \in ActiveIds : clauses[id] \in SUBSET Literals
    BY <1>2, ClauseTypes DEF ActiveIds
  <2>2. \A id \in ActiveIds : VarsOf(clauses[id]) \subseteq Vars
    BY <2>1, VarFacts DEF VarsOf, Var
  <2> QED
    BY <2>2 DEF ShownBy, CutBy
<1>8. f \in InputFields /\ Len(f.clauses) < 2^Width
  <2>1. CASE job.script = "compile_formula"
    <3>1. f = [clauses |-> lines, prj |-> ShownBy(p)]
      BY <1>5, <2>1
    <3>2. Len(lines) < 2^Width
      BY <1>2, <1>6 DEF SplitterInv
    <3> QED
      BY <1>6, <1>7, <3>1, <3>2 DEF InputFields
  <2>2. CASE job.script # "compile_formula"
    BY <1>3, <1>5, <2>2
  <2> QED
    BY <2>1, <2>2
<1>9. Fresh'
  <2>1. /\ frgt' = {} /\ dign' = {} /\ pairs' = {} /\ v' = 0 /\ ina' \in 0 .. 2^Width - 1
    BY <1>1, <1>2 DEF CountInv, BaseInv, TypesInv
  <2>2. (Len(given.clauses) < 2^Width)' /\ (given \in InputFields)'
    BY <1>8
  <2> QED
    BY <1>5, <2>1, <2>2 DEF Fresh
<1>10. IInv' /\ CountInv' /\ OriginInv'
  <2>1. (Fresh => IInv)' /\ (Fresh => CountInv)' /\ (Fresh => OriginInv)'
    BY InitInv, InitCount, InitOrigin, PTL
  <2> QED
    BY <1>9, <2>1
<1>11. Given' = SlotsOf(f.clauses) /\ JobFormula' = JobFormula
  BY <1>1 DEF Given, SlotsOf, JobFormula
<1>12. job.script = "compile_formula" => Given' = Projected /\ given'.prj = ShownBy(p)
  BY <1>5, <1>6, <1>11
<1>13. Models(Given)' = Models(JobFormula)'
  <2>1. \A C : Models(C)' = Models(C)
    BY DEF Models, Assignments, Satisfies
  <2>2. CASE job.script = "compile_formula"
    <3>1. \A m : m \in Models(Projected) <=> m \in Models(Given)
      BY <1>2, SatFacts DEF SameModels, TheModels
    <3>2. Models(Projected) = Models(JobFormula)
      BY <1>2, <3>1 DEF ScriptInv
    <3> QED
      BY <1>11, <1>12, <2>2, <3>2 DEF Models, Assignments, Satisfies
  <2>3. CASE job.script # "compile_formula"
    <3>1. Given' = JobFormula
      BY <1>5, <1>11, <2>3 DEF SlotsOf, JobFormula
    <3> QED
      BY <1>11, <3>1 DEF Models, Assignments, Satisfies
  <2> QED
    BY <2>2, <2>3
<1>14. ScriptInv'
  <2>1. FileTypeOK'
    BY <1>1, <1>2, <1>4 DEF ScriptInv, FileTypeOK
  <2>2. job.script # "capkc"
    BY <1>1, <1>2 DEF ScriptInv
  <2> QED
    BY <1>1, <1>13, <2>1, <2>2 DEF ScriptInv
<1>15. job.script = "compile_formula" => CutShown'
  <2> SUFFICES ASSUME job.script = "compile_formula", NEW g \in Projected
               PROVE  VarsOf(g) \subseteq ShownBy(p) \/ \E k : \A w \in VarsOf(g) : p[w] = k
    BY <1>4, <1>12 DEF CutShown, VarsOf
  <2>1. CASE \E l \in units : g = {l}
    BY <2>1 DEF VarsOf
  <2>2. CASE \E id \in ActiveIds : g = clauses[id]
    <3>1. PICK id \in ActiveIds : g = clauses[id]
      BY <2>2
    <3>2. g \in SUBSET Literals /\ p \in [Vars -> Nat]
      BY <1>2, <1>3, <3>1, ClauseTypes DEF ActiveIds
    <3>3. CASE Cardinality(Parts(p, g)) > 1
      BY <3>1, <3>3 DEF ShownBy, CutBy
    <3>4. CASE ~(Cardinality(Parts(p, g)) > 1)
      BY <3>2, <3>4, OnePart
    <3> QED
      BY <3>3, <3>4
  <2> QED
    BY <2>1, <2>2 DEF Projected, UnitClauses
<1> QED
  BY <1>1, <1>10, <1>14, <1>15 DEF DInv

-----------------------------------------------------------------------------
(* The projection tool and D4 *)

LEMMA ProjectStep ==
  ASSUME DInv, Project
  PROVE  DInv'
<1>1. stage = "project" /\ [Next]_vars /\ UNCHANGED <<job, stage, part, pnnf, unnf>>
  BY DEF Project, scriptVars
<1>2. IInv /\ CountInv /\ OriginInv /\ ScriptInv
  BY <1>1 DEF DInv
<1>3. IInv' /\ CountInv' /\ OriginInv'
  BY <1>1, <1>2, InvStep, CountStep, OriginStep
<1>4. given' = given
  BY DEF Project, Next, RemoveTautologies, CollectUnits, ApplyUnit, StartProject, StartForgetting,
         Resolve, ResolveToEmpty, EndForgetting, NothingLeft, WriteFiles
<1>5. Given' = Given /\ JobFormula' = JobFormula
  BY <1>1, <1>4 DEF Given, JobFormula
<1>6. ScriptInv'
  BY <1>1, <1>2, <1>5 DEF ScriptInv, FileTypeOK
<1>7. job.script = "compile_formula" => CutShown'
  BY <1>1, <1>4, <1>5 DEF DInv, CutShown
<1> QED
  BY <1>1, <1>3, <1>6, <1>7 DEF DInv

\* What a step that leaves the formula alone leaves.
LEMMA FormulaKept ==
  ASSUME DInv, UNCHANGED vars, UNCHANGED <<job, part>>, stage' = "split" <=> stage = "split"
  PROVE  /\ CountInv' /\ OriginInv' /\ Models(Given)' = Models(JobFormula)'
         /\ stage' = "split" => SplitterInv'
         /\ stage' # "split" => IInv'
         /\ stage' # "split" /\ job.script = "compile_formula" => CutShown'
<1>1. UNCHANGED <<storeVars, pc, units, u, frgt, dign, v, pairs, ina, up, pup, given>>
  BY DEF vars
<1>2. Given' = Given /\ JobFormula' = JobFormula
  BY <1>1 DEF Given, JobFormula
<1>3. CASE stage = "split"
  BY <1>1, <1>2, <1>3, SplitterKept DEF DInv, ScriptInv
<1>4. CASE stage # "split"
  <2>1. IInv /\ CountInv /\ OriginInv /\ [Next]_vars
    BY <1>4 DEF DInv
  <2>2. IInv' /\ CountInv' /\ OriginInv'
    BY <2>1, InvStep, CountStep, OriginStep
  <2>3. job.script = "compile_formula" => CutShown'
    BY <1>1, <1>2, <1>4 DEF DInv, CutShown
  <2> QED
    BY <1>2, <1>4, <2>2, <2>3 DEF DInv, ScriptInv
<1> QED
  BY <1>3, <1>4

LEMMA CompileStep ==
  ASSUME DInv, WInv, StartD4 \/ CompileNatively \/ CallWrapper \/ Wrapped \/ WrapperReturns
  PROVE  DInv'
<1>1. UNCHANGED vars /\ UNCHANGED <<job, part>>
  BY DEF StartD4, CompileNatively, CallWrapper, Wrapped, WrapperReturns, scriptVars
<1>2. (stage' = "split" <=> stage = "split") /\ pc' = pc
  BY <1>1 DEF StartD4, CompileNatively, CallWrapper, Wrapped, WrapperReturns, scriptVars, vars
<1>3. ScriptInv
  BY DEF DInv
<1>4. Models(Given)' = Models(JobFormula)'
  BY <1>1, <1>2, FormulaKept
<1>5. ScriptInv'
  <2>1. CASE StartD4
    BY <1>1, <1>2, <1>3, <1>4, <2>1 DEF StartD4, ScriptInv, FileTypeOK
  <2>2. CASE CompileNatively
    BY <1>1, <1>2, <1>3, <1>4, <2>2 DEF CompileNatively, ScriptInv, FileTypeOK
  <2>3. CASE CallWrapper \/ Wrapped
    <3>1. UNCHANGED <<stage, pnnf, unnf>>
      BY <2>3 DEF CallWrapper, Wrapped, scriptVars
    <3> QED
      BY <1>1, <1>2, <1>3, <1>4, <3>1 DEF ScriptInv, FileTypeOK
  <2>4. CASE WrapperReturns
    <3>1. file \in {"none", "partial", "complete"}
      BY DEF WInv, WrapperSound, WrapperTypeOK
    <3> QED
      BY <1>1, <1>2, <1>3, <1>4, <2>4, <3>1 DEF WrapperReturns, ScriptInv, FileTypeOK
  <2> QED
    BY <2>1, <2>2, <2>3, <2>4
<1> QED
  BY <1>1, <1>2, <1>5, FormulaKept DEF DInv

-----------------------------------------------------------------------------
(* The parts *)

\* Taking the variables of a part from one assignment and the others from another.
Mixed(m, n, k) == {l \in m : part[IF l > 0 THEN l ELSE -l] = k} \cup
                  {l \in n : part[IF l > 0 THEN l ELSE -l] # k}

LEMMA MixedFacts ==
  ASSUME NEW m \in Assignments, NEW n \in Assignments, NEW k
  PROVE  /\ Mixed(m, n, k) \in Assignments
         /\ \A l \in Literals : l \in Mixed(m, n, k) <=>
              (part[Var(l)] = k /\ l \in m) \/ (part[Var(l)] # k /\ l \in n)
<1> DEFINE x == Mixed(m, n, k)
<1>1. \A l : l \in x <=> (part[Var(l)] = k /\ l \in m) \/ (part[Var(l)] # k /\ l \in n)
  BY DEF Mixed, Var
<1> HIDE DEF x
<1>2. m \subseteq Literals /\ n \subseteq Literals
  BY AssignmentLiterals
<1>3. x \in SUBSET Literals
  BY <1>1, <1>2
<1>4. ASSUME NEW w \in Vars PROVE w \in x <=> -w \notin x
  <2>1. w \in Literals /\ -w \in Literals /\ Var(w) = w /\ Var(-w) = w
    BY LiteralsOfVars
  <2>2. (w \in m <=> -w \notin m) /\ (w \in n <=> -w \notin n)
    BY <2>1, AssignmentFacts
  <2> QED
    BY <1>1, <2>1, <2>2
<1>5. x \in Assignments
  BY <1>3, <1>4, AssignmentIntro
<1> QED
  BY <1>1, <1>5 DEF x

\* What the models of <F>.pup are.
LEMMA PupModels ==
  ASSUME OriginInv, pc = "done", NEW m
  PROVE  m \in Models(pup.clauses) <=>
           /\ m \in Assignments /\ up.units \subseteq m
           /\ \A id \in UpLeft : Satisfies(m, up.clauses[id])
<1>1. pup.clauses = {up.clauses[id] : id \in UpLeft} \cup UnitClauses(up.units)
  BY DEF OriginInv
<1>2. (\A c \in pup.clauses : Satisfies(m, c)) <=>
        /\ \A id \in UpLeft : Satisfies(m, up.clauses[id])
        /\ \A c \in UnitClauses(up.units) : Satisfies(m, c)
  BY <1>1
<1> QED
  BY <1>2, UnitModels DEF Models

\* A clause that <F>.pup keeps is in one part, or its variables would all be shown.
LEMMA KeptInOnePart ==
  ASSUME IInv, OriginInv, CutShown, pc = "done", NEW id \in UpLeft
  PROVE  /\ up.clauses[id] \in SUBSET Literals
         /\ \E k : \A l \in up.clauses[id] : part[Var(l)] = k
<1> DEFINE c == up.clauses[id]
<1>1. id \in UpIds /\ ~InProjection(c)
  BY DEF UpLeft
<1>2. c \in SUBSET Literals
  BY <1>1 DEF IInv, UpInv, Late
<1>3. PICK g \in Given : c \subseteq g
  BY <1>1 DEF OriginInv, Late
<1> HIDE DEF c
<1>4. \A l \in c : Var(l) \in VarsOf(c) /\ Var(l) \in VarsOf(g)
  BY <1>3 DEF VarsOf, Var
<1>5. CASE VarsOf(g) \subseteq given.prj
  <2>1. VarsOf(c) \subseteq given.prj /\ VarsOf(c) \subseteq Vars
    BY <1>2, <1>3, <1>5, VarFacts DEF VarsOf, Var
  <2>2. given.prj \cap dign = {}
    BY DEF OriginInv
  <2>3. InProjection(c)
    BY <2>1, <2>2 DEF InProjection, TrueProjection
  <2> QED
    BY <1>1, <2>3 DEF c
<1>6. CASE \E k : \A w \in VarsOf(g) : part[w] = k
  BY <1>2, <1>4, <1>6 DEF c
<1> QED
  BY <1>5, <1>6 DEF CutShown

LEMMA DoneFacts ==
  ASSUME DInv, pc = "done"
  PROVE  IInv /\ CountInv /\ OriginInv /\ SplitExact /\ ProjectionExact
         /\ Models(Given) = Models(JobFormula)
<1>1. stage # "split"
  BY DEF DInv, SplitterInv, Early
<1> QED
  BY <1>1, InvImplies DEF DInv, IInv, StoreInv, ScriptInv

LEMMA InvPartsIndependent == DInv => PartsIndependent
<1> SUFFICES ASSUME DInv, stage \in {"project", "over"}, pc = "done",
                    job.script = "compile_formula",
                    NEW m \in Models(pup.clauses), NEW n \in Models(pup.clauses),
                    NEW k \in 0 .. job.nb - 1
             PROVE  Mixed(m, n, k) \in Models(pup.clauses)
  BY DEF PartsIndependent, Mixed
<1>1. IInv /\ OriginInv /\ CutShown
  BY DoneFacts DEF DInv
<1>2. /\ m \in Assignments /\ up.units \subseteq m
      /\ n \in Assignments /\ up.units \subseteq n
      /\ \A id \in UpLeft : Satisfies(m, up.clauses[id]) /\ Satisfies(n, up.clauses[id])
  BY <1>1, PupModels
<1>3. /\ Mixed(m, n, k) \in Assignments
      /\ \A l \in Literals : l \in Mixed(m, n, k) <=>
              (part[Var(l)] = k /\ l \in m) \/ (part[Var(l)] # k /\ l \in n)
  BY <1>2, MixedFacts
<1>4. up.units \subseteq Mixed(m, n, k)
  BY <1>2, <1>3, AssignmentLiterals
<1>5. ASSUME NEW id \in UpLeft PROVE Satisfies(Mixed(m, n, k), up.clauses[id])
  <2>1. up.clauses[id] \in SUBSET Literals
        /\ \E j : \A l \in up.clauses[id] : part[Var(l)] = j
    BY <1>1, KeptInOnePart
  <2>2. PICK j : \A l \in up.clauses[id] : part[Var(l)] = j
    BY <2>1
  <2>3. CASE j = k
    <3>1. PICK l \in up.clauses[id] : l \in m
      BY <1>2 DEF Satisfies
    <3> QED
      BY <1>3, <2>1, <2>2, <2>3, <3>1 DEF Satisfies
  <2>4. CASE j # k
    <3>1. PICK l \in up.clauses[id] : l \in n
      BY <1>2 DEF Satisfies
    <3> QED
      BY <1>3, <2>1, <2>2, <2>4, <3>1 DEF Satisfies
  <2> QED
    BY <2>3, <2>4
<1> QED
  BY <1>1, <1>3, <1>4, <1>5, PupModels

-----------------------------------------------------------------------------
(* The count *)

LEMMA AssignmentsFinite == IsFiniteSet(Assignments)
<1>1. Literals \in SUBSET Literals
  OBVIOUS
<1>2. IsFiniteSet(SUBSET Literals)
  BY <1>1, ClauseFinite, FS_SUBSET
<1>3. Assignments \in SUBSET (SUBSET Literals)
  BY AssignmentLiterals
<1> QED
  BY <1>2, <1>3, FS_Subset

\* What an assignment says of the variables that were not forgotten.
Shown(m) == {l \in m : VarsOf({l}) \cap dign = {}}

LEMMA ShownFacts ==
  ASSUME NEW m \in Assignments, NEW n \in Assignments
  PROVE  /\ Shown(m) \subseteq m
         /\ Shown(n) \subseteq m => AgreeOff(m, n, dign)
         /\ AgreeOff(m, n, dign) => Shown(m) = Shown(n)
<1>1. \A l : (VarsOf({l}) \cap dign = {}) <=> Var(l) \notin dign
  BY VarsOfFacts
<1>2. m \subseteq Literals /\ n \subseteq Literals
  BY AssignmentLiterals
<1>3. ASSUME Shown(n) \subseteq m, NEW l \in Literals, Var(l) \notin dign
      PROVE  l \in m <=> l \in n
  <2>1. -l \in Literals /\ Var(-l) = Var(l)
    BY LiteralFacts, VarFacts
  <2>2. (l \in m <=> -l \notin m) /\ (l \in n <=> -l \notin n)
    BY AssignmentFacts
  <2>3. (l \in n => l \in Shown(n)) /\ (-l \in n => -l \in Shown(n))
    BY <1>1, <1>3, <2>1 DEF Shown
  <2> QED
    BY <1>3, <2>2, <2>3
<1>4. AgreeOff(m, n, dign) => Shown(m) = Shown(n)
  BY <1>1, <1>2 DEF Shown, AgreeOff
<1> QED
  BY <1>3, <1>4 DEF Shown, AgreeOff

\* The models of <F>.pup under a path of the circuit of <F>.p are the models of the
\* formula that say so of the variables not forgotten.
LEMMA UnderPath ==
  ASSUME DInv, pc = "done", NEW path \in Kept(Models(PClauses))
  PROVE  {m \in Models(pup.clauses) : path \subseteq m} = {m \in TheModels : Shown(m) = path}
<1>1. /\ SplitExact /\ ProjectionExact /\ IInv
  BY DoneFacts
<1>2. /\ Models(Projected \cup pup.clauses) = TheModels
      /\ \A c \in Projected : VarsOf(c) \cap dign = {}
  <2>1. path \in Kept(Models(Given))
    BY <1>1 DEF ProjectionExact
  <2>2. Satisfiable
    BY <2>1 DEF Kept, Satisfiable
  <2> QED
    BY <1>1, <2>2 DEF SplitExact, ProjectionExact, TheModels
<1>3. \A m : m \in TheModels <=> m \in Models(Projected) /\ m \in Models(pup.clauses)
  BY <1>2 DEF Models
<1>4. \A m \in Models(Projected) \cup Models(pup.clauses) : m \in Assignments
  BY DEF Models
<1>5. PICK n \in Models(Projected) : path = Shown(n)
  <2>1. PICK n \in Models(PClauses) : path = Shown(n)
    BY DEF Kept, Gone, Shown
  <2>2. n \in Models(Projected)
    BY DEF Models, PClauses
  <2> QED
    BY <2>1, <2>2
<1>6. ASSUME NEW m \in Models(pup.clauses), path \subseteq m
      PROVE  m \in TheModels /\ Shown(m) = path
  <2>1. m \in Assignments /\ n \in Assignments
    BY <1>4
  <2>2. AgreeOff(m, n, dign) /\ Shown(m) = Shown(n)
    BY <1>5, <1>6, <2>1, ShownFacts
  <2>3. ASSUME NEW c \in Projected PROVE Satisfies(m, c)
    <3>1. \A l \in c : Var(l) \notin dign
      BY <1>2, VarsOfFacts
    <3>2. c \in SUBSET Literals
      BY <1>1, ClauseTypes DEF Projected, UnitClauses, IInv, StoreInv, BaseInv, TypesInv,
                               StoreOK, ActiveIds
    <3>3. Satisfies(n, c)
      BY DEF Models
    <3> QED
      BY <2>2, <3>1, <3>2, <3>3, SatisfiesAgree
  <2>4. m \in Models(Projected)
    BY <2>1, <2>3 DEF Models
  <2> QED
    BY <1>3, <1>5, <2>2, <2>4
<1>7. ASSUME NEW m \in TheModels, Shown(m) = path
      PROVE  m \in Models(pup.clauses) /\ path \subseteq m
  BY <1>3, <1>7 DEF Shown
<1> QED
  BY <1>6, <1>7

\* Every model is counted under one path.
LEMMA CountedOnce ==
  ASSUME DInv, pc = "done"
  PROVE  ExactCount = Cardinality(TheModels)
<1> DEFINE K == Kept(Models(PClauses))
           Under(path) == {m \in Models(pup.clauses) : path \subseteq m}
           With(s) == {m \in TheModels : Shown(m) \in s}
           pick(s) == CHOOSE x \in s : TRUE
           f == CHOOSE it : it = [s \in SUBSET K |-> IF s = {} THEN 0
                  ELSE Cardinality(Under(pick(s))) + it[s \ {pick(s)}]]
           g == [s \in SUBSET K |-> Cardinality(With(s))]
           h == [path \in K |-> Cardinality(Under(path))]
<1>1. ExactCount = f[K]
  BY DEF ExactCount, MapThenSumSet, MapThenFoldSet
<1>2. IsFiniteSet(TheModels)
  <2>1. TheModels \in SUBSET Assignments
    BY DEF TheModels, Models
  <2> QED
    BY <2>1, AssignmentsFinite, FS_Subset
<1>3. K = {Shown(m) : m \in TheModels}
  <2>1. K = Kept(TheModels)
    BY DoneFacts DEF ProjectionExact, TheModels
  <2>2. Gone = dign
    BY DEF Gone
  <2>3. Kept(TheModels) = {Shown(m) : m \in TheModels}
    BY <2>2 DEF Kept, Shown
  <2> QED
    BY <2>1, <2>3
<1>4. IsFiniteSet(K)
  <2> DEFINE q == [m \in TheModels |-> Shown(m)]
  <2> HIDE DEF K
  <2>1. \A m \in TheModels : q[m] \in K
    BY <1>3
  <2>2. \A path \in K : \E m \in TheModels : q[m] = path
    BY <1>3
  <2>3. q \in Surjection(TheModels, K)
    BY <2>1, <2>2 DEF Surjection
  <2> QED
    BY <1>2, <2>3, FS_Surjection
<1>5. \A path \in K : Under(path) = {m \in TheModels : Shown(m) = path}
  BY UnderPath
<1>6. \A s \in SUBSET K : s # {} => pick(s) \in s
  OBVIOUS
<1> HIDE DEF K, Under, pick, f
<1>7. ASSUME NEW s \in SUBSET K, s # {}
      PROVE  Cardinality(With(s)) = Cardinality(Under(pick(s))) + Cardinality(With(s \ {pick(s)}))
  <2> DEFINE A == Under(pick(s))
             B == With(s \ {pick(s)})
  <2>1. pick(s) \in s /\ pick(s) \in K
    BY <1>6, <1>7
  <2>2. With(s) = A \cup B /\ A \cap B = {} /\ A \subseteq TheModels /\ B \subseteq TheModels
    BY <1>5, <2>1
  <2> HIDE DEF A, B, With
  <2>3. IsFiniteSet(A) /\ IsFiniteSet(B)
    BY <1>2, <2>2, FS_Subset
  <2>4. Cardinality(A \cup B) = Cardinality(A) + Cardinality(B) - Cardinality(A \cap B)
    BY <2>3, FS_Union
  <2>5. Cardinality(A) \in Nat /\ Cardinality(B) \in Nat /\ Cardinality(A \cap B) = 0
    BY <2>2, <2>3, FS_CardinalityType, FS_EmptySet
  <2>6. Cardinality(With(s)) = Cardinality(A) + Cardinality(B)
    BY <2>2, <2>4, <2>5
  <2> QED
    BY <2>6 DEF A, B
<1>8. Cardinality(With({})) = 0
  <2>1. With({}) = {}
    OBVIOUS
  <2> QED
    BY <2>1, FS_EmptySet
<1>9. \A s \in SUBSET K : g[s] = IF s = {} THEN 0
        ELSE Cardinality(Under(pick(s))) + g[s \ {pick(s)}]
  BY <1>7, <1>8
<1>10. g = [s \in SUBSET K |-> IF s = {} THEN 0
         ELSE Cardinality(Under(pick(s))) + g[s \ {pick(s)}]]
  <2> HIDE DEF With
  <2>1. \A s \in SUBSET K : g[s] = Cardinality(With(s))
    OBVIOUS
  <2>2. [s \in SUBSET K |-> Cardinality(With(s))] = [s \in SUBSET K |-> IF s = {} THEN 0
         ELSE Cardinality(Under(pick(s))) + g[s \ {pick(s)}]]
    BY <1>9, <2>1
  <2> QED
    BY <2>2
<1>11. f = [s \in SUBSET K |-> IF s = {} THEN 0
         ELSE Cardinality(Under(pick(s))) + f[s \ {pick(s)}]]
  <2> HIDE DEF g
  <2> QED
    BY <1>10 DEF f
<1>12. \A s \in SUBSET K : f[s] = g[s]
  <2> HIDE DEF g
  <2>1. \A s \in SUBSET K : s # {} => h[pick(s)] = Cardinality(Under(pick(s)))
    BY <1>6
  <2> HIDE DEF h
  <2>2. \A s \in SUBSET K : f[s] = IF s = {} THEN 0 ELSE h[pick(s)] + f[s \ {pick(s)}]
    BY <1>11, <2>1
  <2>3. \A s \in SUBSET K : g[s] = IF s = {} THEN 0 ELSE h[pick(s)] + g[s \ {pick(s)}]
    BY <1>9, <2>1
  <2>4. AddsUp(f, h, K) /\ AddsUp(g, h, K)
    BY <2>2, <2>3 DEF AddsUp, pick
  <2> QED
    BY <1>4, <2>4, SumUnique
<1>13. With(K) = TheModels
  BY <1>3
<1> QED
  BY <1>1, <1>12, <1>13

LEMMA InvCountExact == DInv => CountExact
<1> SUFFICES ASSUME DInv PROVE CountExact
  OBVIOUS
<1>1. FileTypeOK
  BY DEF DInv, ScriptInv
<1>2. ASSUME stage = "over", pnnf = "complete"
      PROVE  ExactCount = Cardinality(Models(JobFormula))
  <2>1. pc = "done"
    BY <1>2 DEF DInv, ScriptInv
  <2>2. Models(Given) = Models(JobFormula)
    BY <2>1, DoneFacts
  <2> QED
    BY <2>1, <2>2, CountedOnce DEF TheModels
<1> QED
  BY <1>1, <1>2 DEF CountExact, JobFormula

-----------------------------------------------------------------------------
(* The theorems about what the scripts compile *)

\* The argument the theorems below rest on: what is known of the splitter's copy of the
\* formula while it propagates, of the file the projection tool reads, and of the
\* projection tool's store after that, survives every step of every script.
THEOREM ScriptInvariance == DivKCSpec => [](DInv /\ WInv)
<1>1. DivKCInit => DInv /\ WInv
  BY DivKCInitInv, WrapperInitInv DEF DivKCInit
<1>2. DInv /\ WInv /\ [DivKCNext]_divkcVars => (DInv /\ WInv)'
  <2> SUFFICES ASSUME DInv, WInv, [DivKCNext]_divkcVars PROVE DInv' /\ WInv'
    OBVIOUS
  <2>1. WInv'
    BY WrapperStepInv
  <2>2. CASE SplitterPropagates
    BY <2>1, <2>2, SplitterStep
  <2>3. CASE Split
    BY <2>1, <2>3, SplitStep
  <2>4. CASE Project
    BY <2>1, <2>4, ProjectStep
  <2>5. CASE StartD4 \/ CompileNatively \/ CallWrapper \/ Wrapped \/ WrapperReturns
    BY <2>1, <2>5, CompileStep
  <2>6. CASE UNCHANGED divkcVars
    <3>1. UNCHANGED vars /\ UNCHANGED <<job, stage, part, pnnf, unnf>>
      BY <2>6 DEF divkcVars, scriptVars
    <3>2. /\ CountInv' /\ OriginInv' /\ Models(Given)' = Models(JobFormula)'
          /\ stage' = "split" => SplitterInv'
          /\ stage' # "split" => IInv'
          /\ stage' # "split" /\ job.script = "compile_formula" => CutShown'
      BY <3>1, FormulaKept
    <3>3. pc' = pc
      BY <3>1 DEF vars
    <3>4. ScriptInv'
      BY <3>1, <3>2, <3>3 DEF DInv, ScriptInv, FileTypeOK
    <3> QED
      BY <2>1, <3>1, <3>2, <3>4 DEF DInv
  <2> QED
    BY <2>2, <2>3, <2>4, <2>5, <2>6 DEF DivKCNext
<1> QED
  BY <1>1, <1>2, PTL DEF DivKCSpec

\* The sum over the paths of the first circuit of the models of the second one under the
\* path is the number of models of the formula the script was called with, through the
\* splitter's propagation and partition, the projection stopped anywhere, and the
\* container's script, which loses the splitter's choice: for every formula
\* (compile_formula.sh:3-7, docker_compile_formula.sh:3-8, pdac.cpp:345-370).
THEOREM CountAlwaysExact == DivKCSpec => []CountExact
BY ScriptInvariance, InvCountExact, PTL

\* Whatever partition PaToH gives, the upper bound falls apart into its parts: exchanging
\* a part of two of its models gives a model (splitter.cpp:157-175).
THEOREM PartsAlwaysIndependent == DivKCSpec => []PartsIndependent
BY ScriptInvariance, InvPartsIndependent, PTL

\* What the projection tool promises, it also keeps on the files of the splitter.
THEOREM CompiledFilesExact == DivKCSpec => [](ProjectionExact /\ SplitExact)
<1>1. DInv => ProjectionExact /\ SplitExact
  <2> SUFFICES ASSUME DInv PROVE ProjectionExact /\ SplitExact
    OBVIOUS
  <2>1. CASE stage = "split"
    <3>1. SplitterInv /\ BaseInv /\ SameModels /\ pc \in Early
      BY <2>1 DEF DInv, SplitterInv
    <3>2. SemInv /\ UpInv /\ ClashInv
      BY <3>1 DEF SemInv, UpInv, ClashInv, SameModels, Early, Late
    <3> QED
      BY <3>1, <3>2, InvImplies DEF SplitExact, Early
  <2>2. CASE stage # "split"
    BY <2>2, InvImplies DEF DInv, IInv, StoreInv
  <2> QED
    BY <2>1, <2>2
<1> QED
  BY <1>1, ScriptInvariance, PTL

\* And so does the store, the splitter's copy of it included.
THEOREM CompiledStoreConsistent ==
  DivKCSpec => [](CounterExact /\ (SlotsFit => StoreConsistent))
<1>1. DInv => CounterExact /\ (SlotsFit => StoreConsistent)
  <2> SUFFICES ASSUME DInv PROVE CounterExact /\ (SlotsFit => StoreConsistent)
    OBVIOUS
  <2>1. CountInv
    BY DEF DInv
  <2>2. BaseInv /\ (pc \in Late => StoreInv)
    <3>1. CASE stage = "split"
      BY <3>1 DEF DInv, SplitterInv, Early, Late
    <3>2. CASE stage # "split"
      BY <3>2 DEF DInv, IInv, StoreInv
    <3> QED
      BY <3>1, <3>2
  <2> QED
    BY <2>1, <2>2, StoreIsConsistent DEF CountInv
<1> QED
  BY <1>1, ScriptInvariance, PTL
=============================================================================

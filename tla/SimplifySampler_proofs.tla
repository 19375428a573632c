----------------------- MODULE SimplifySampler_proofs -----------------------
(***************************************************************************)
(* Proofs about Simplify, for every finite set of variables and every      *)
(* formula: preprocessing keeps the models, the index and the free slots   *)
(* stay exact, propagation reaches its fixpoint and subsumption leaves no  *)
(* redundant clause.                                                       *)
(*                                                                         *)
(* Then about Sampler, for every formula, every upper bound, every team    *)
(* and all values of the options: the numbers and sets of unsatisfied      *)
(* clauses that are carried along are what a recount gives, what is        *)
(* printed are models and as many as counted, chains are burnt in, and the *)
(* tries of the rejection sampler are accounted for.                       *)
(***************************************************************************)
EXTENDS Simplify, Sampler, CnfStore_proofs, FiniteSetTheorems, FunctionTheorems,
        SequenceTheorems, TLAPS

-----------------------------------------------------------------------------
(* The clause store *)

SimplifyStoreInv == StoreTypes /\ IdxExact /\ SlotsSound /\ Used \subseteq Ids

\* The slots freed by a loop over T join the stack.
LEMMA DeactivateFrees ==
  ASSUME StoreTypes, SlotsSound, Used \subseteq Ids,
         NEW T \in SUBSET Used, NEW order \in Orders(T), Deactivate(order),
         Ids' = Ids, Used' = Used \ T
  PROVE  SlotsSound' /\ available' \in Seq(Ids) /\ active' \in [Ids -> BOOLEAN]
<1>1. /\ order \in Seq(T)
      /\ DOMAIN order = 1 .. Len(order)
      /\ SlotsOf(order) = T
      /\ \A j, k \in DOMAIN order : order[j] = order[k] => j = k
  BY SlotsFinite, OrderFacts
<1>2. order \in Seq(Ids)
  BY <1>1, SeqMonotonic
<1>3. available \in Seq(Ids) /\ Len(available) \in Nat /\ Len(order) \in Nat
      /\ DOMAIN available = 1 .. Len(available)
  BY <1>2, LenProperties DEF StoreTypes
<1>4. available' = available \o order
  BY DEF Deactivate
<1>5. /\ available' \in Seq(Ids)
      /\ DOMAIN available' = 1 .. Len(available) + Len(order)
      /\ \A k \in DOMAIN available' :
           available'[k] = IF k <= Len(available) THEN available[k]
                           ELSE order[k - Len(available)]
  BY <1>2, <1>3, <1>4, ConcatProperties, LenProperties
<1>6. /\ \A j, k \in DOMAIN available : available[j] = available[k] => j = k
      /\ {available[k] : k \in DOMAIN available} = Ids \ Used
  BY DEF SlotsSound, SlotsFree
<1>7. \A k \in DOMAIN available : available[k] \in Ids \ Used
  BY <1>6
<1>8. \A k \in DOMAIN order : order[k] \in T
  BY <1>1 DEF SlotsOf
<1>9. \A k \in DOMAIN available' :
        \/ k \in DOMAIN available /\ available'[k] = available[k]
        \/ k - Len(available) \in DOMAIN order /\ available'[k] = order[k - Len(available)]
  BY <1>1, <1>3, <1>5
<1>10. \A j, k \in DOMAIN available' : available'[j] = available'[k] => j = k
  <2>1. SUFFICES ASSUME NEW j \in DOMAIN available', NEW k \in DOMAIN available',
                        available'[j] = available'[k]
                 PROVE  j = k
    OBVIOUS
  <2>2. j \in Nat /\ k \in Nat
    BY <1>3, <1>5
  <2> QED
    BY <2>1, <2>2, <1>1, <1>3, <1>6, <1>7, <1>8, <1>9
<1>11. {available'[k] : k \in DOMAIN available'} = Ids \ Used'
  <2>1. ASSUME NEW k \in DOMAIN available' PROVE available'[k] \in Ids \ Used'
    BY <1>7, <1>8, <1>9
  <2>2. ASSUME NEW id \in Ids \ Used' PROVE \E k \in DOMAIN available' : available'[k] = id
    <3>1. CASE id \in T
      <4>1. PICK k \in DOMAIN order : order[k] = id
        BY <3>1, <1>1 DEF SlotsOf
      <4>2. k + Len(available) \in DOMAIN available' /\ ~(k + Len(available) <= Len(available))
            /\ (k + Len(available)) - Len(available) = k
        BY <1>1, <1>3, <1>5
      <4> QED
        BY <4>1, <4>2, <1>5
    <3>2. CASE id \notin T
      <4>1. PICK k \in DOMAIN available : available[k] = id
        BY <2>2, <3>2, <1>6
      <4> QED
        BY <4>1, <1>3, <1>5
    <3> QED
      BY <3>1, <3>2
  <2> QED
    BY <2>1, <2>2
<1>12. active' \in [Ids -> BOOLEAN]
  BY DEF Deactivate, StoreTypes
<1> QED
  BY <1>5, <1>10, <1>11, <1>12 DEF SlotsSound, SlotsFree

\* rm_clause in a loop over the slots T: they are out of the index and on the stack.
LEMMA RmClausesFacts ==
  ASSUME SimplifyStoreInv, NEW T \in SUBSET Used, NEW order \in Orders(T), RmClauses(order),
         Used' = Used \ T
  PROVE  SimplifyStoreInv' /\ clauses' = clauses
<1>1. clauses' = clauses /\ Ids' = Ids
  BY DEF RmClauses, Ids
<1>2. SlotsOf(order) = T
  BY SlotsFinite, OrderFacts DEF SimplifyStoreInv
<1>3. SlotsSound' /\ available' \in Seq(Ids) /\ active' \in [Ids -> BOOLEAN]
  BY <1>1, DeactivateFrees DEF SimplifyStoreInv, RmClauses
<1>4. \A l \in Literals : idx[l] = {id \in Used : l \in clauses[id]}
  BY DEF SimplifyStoreInv, IdxExact, IdxLists
<1>5. idx' = [l \in Literals |-> idx[l] \ {id \in T : l \in clauses[id]}]
  BY <1>2 DEF RmClauses, IdxWithout
<1>6. \A l \in Literals : idx'[l] = {id \in Used' : l \in clauses'[id]}
  BY <1>1, <1>4, <1>5
<1>7. idx' \in [Literals -> SUBSET Ids]
  BY <1>5 DEF SimplifyStoreInv, StoreTypes
<1> QED
  BY <1>1, <1>3, <1>6, <1>7 DEF SimplifyStoreInv, StoreTypes, IdxExact, IdxLists

\* Where add_clause writes: a slot that holds no clause in use, and no other slot moves.
LEMMA NextSlotFacts ==
  ASSUME SimplifyStoreInv
  PROVE  /\ NextSlot \notin Used
         /\ NextSlot \in Nat \ {0}
         /\ \E n \in Nat : Ids \cup {NextSlot} = 1 .. n
<1>1. Ids = 1 .. Len(clauses) /\ Len(clauses) \in Nat
  BY LenProperties DEF SimplifyStoreInv, StoreTypes, Ids
<1>2. CASE available = <<>>
  <2>1. NextSlot = Len(clauses) + 1
    BY <1>2 DEF NextSlot
  <2>2. Ids \cup {NextSlot} = 1 .. Len(clauses) + 1 /\ NextSlot \notin Ids
    BY <1>1, <2>1
  <2> QED
    BY <1>1, <2>1, <2>2 DEF SimplifyStoreInv
<1>3. CASE available # <<>>
  <2>1. /\ Len(available) \in Nat \ {0}
        /\ DOMAIN available = 1 .. Len(available)
        /\ NextSlot = available[Len(available)]
    BY <1>3, LenProperties, EmptySeq DEF SimplifyStoreInv, StoreTypes, NextSlot
  <2>2. Len(available) \in DOMAIN available
    BY <2>1
  <2>3. NextSlot \in Ids \ Used
    BY <2>1, <2>2 DEF SimplifyStoreInv, SlotsSound, SlotsFree
  <2>4. Ids \cup {NextSlot} = 1 .. Len(clauses)
    BY <1>1, <2>3
  <2> QED
    BY <1>1, <2>3, <2>4
<1> QED
  BY <1>2, <1>3

\* The stack after add_clause: the free slots without the one that was taken.
LEMMA StackPoppedFacts ==
  ASSUME SimplifyStoreInv
  PROVE  /\ StackPopped \in Seq(Ids)
         /\ \A j, k \in DOMAIN StackPopped : StackPopped[j] = StackPopped[k] => j = k
         /\ {StackPopped[k] : k \in DOMAIN StackPopped} = (Ids \cup {NextSlot}) \ (Used \cup {NextSlot})
<1>1. /\ available \in Seq(Ids) /\ Len(available) \in Nat
      /\ DOMAIN available = 1 .. Len(available)
      /\ \A k \in DOMAIN available : available[k] \in Ids
  BY LenProperties, ElementOfSeq DEF SimplifyStoreInv, StoreTypes
<1>2. /\ \A j, k \in DOMAIN available : available[j] = available[k] => j = k
      /\ {available[k] : k \in DOMAIN available} = Ids \ Used
  BY DEF SimplifyStoreInv, SlotsSound, SlotsFree
<1>3. CASE available = <<>>
  <2>1. StackPopped = <<>> /\ DOMAIN StackPopped = {} /\ Ids \ Used = {}
    BY <1>2, <1>3 DEF StackPopped
  <2>2. StackPopped \in Seq(Ids)
    BY <2>1, EmptySeq
  <2> QED
    BY <2>1, <2>2
<1>4. CASE available # <<>>
  <2> DEFINE n == Len(available)
  <2>1. n \in Nat \ {0}
    BY <1>1, <1>4, EmptySeq
  <2>2. StackPopped = SubSeq(available, 1, n - 1) /\ NextSlot = available[n]
    BY <1>4 DEF StackPopped, NextSlot
  <2>3. 1 \in Int /\ n - 1 \in Int /\ \A i \in 1 .. n - 1 : available[i] \in Ids
    BY <1>1, <2>1
  <2>4. /\ StackPopped \in Seq(Ids)
        /\ Len(StackPopped) = n - 1
        /\ \A i \in 1 .. n - 1 : StackPopped[i] = available[i]
    <3>1. Len(SubSeq(available, 1, n - 1)) = IF 1 <= n - 1 THEN (n - 1) - 1 + 1 ELSE 0
      BY <2>3, SubSeqProperties
    <3>2. \A i \in 1 .. (n - 1) - 1 + 1 : SubSeq(available, 1, n - 1)[i] = available[1 + i - 1]
      BY <2>3, SubSeqProperties
    <3>3. SubSeq(available, 1, n - 1) \in Seq(Ids)
      BY <2>3, SubSeqProperties
    <3> HIDE DEF n
    <3>4. \A i \in 1 .. n - 1 : i \in 1 .. (n - 1) - 1 + 1 /\ 1 + i - 1 = i
      BY <2>1
    <3>5. (IF 1 <= n - 1 THEN (n - 1) - 1 + 1 ELSE 0) = n - 1
      BY <2>1
    <3> QED
      BY <2>2, <3>1, <3>2, <3>3, <3>4, <3>5
  <2>5. DOMAIN StackPopped = 1 .. n - 1
    BY <2>4, LenProperties
  <2> HIDE DEF n
  <2>6. DOMAIN available = 1 .. n
    BY <1>1 DEF n
  <2>7. \A k \in 1 .. n : k \in 1 .. n - 1 <=> k # n
    BY <2>1
  <2>8. \A k \in 1 .. n - 1 : k \in 1 .. n
    BY <2>1
  <2>9. n \in 1 .. n
    BY <2>1
  <2>10. \A j, k \in DOMAIN StackPopped : StackPopped[j] = StackPopped[k] => j = k
    BY <1>2, <2>4, <2>5, <2>6, <2>8
  <2>11. {StackPopped[k] : k \in DOMAIN StackPopped} = (Ids \ Used) \ {NextSlot}
    BY <1>2, <2>2, <2>4, <2>5, <2>6, <2>7, <2>8, <2>9
  <2> QED
    BY <2>4, <2>10, <2>11
<1> QED
  BY <1>3, <1>4

\* add_clause overwrites no clause in use, and the index and the stack follow.
LEMMA AddClauseFacts ==
  ASSUME SimplifyStoreInv, NEW c \in SUBSET Literals, AddClause(c), Used' = Used \cup {NextSlot}
  PROVE  /\ SimplifyStoreInv'
         /\ clauses'[NextSlot] = c
         /\ \A id \in Used : clauses'[id] = clauses[id]
         /\ Ids \subseteq Ids'
<1>1. /\ clauses' = [id \in Ids \cup {NextSlot} |-> IF id = NextSlot THEN c ELSE clauses[id]]
      /\ active' = [id \in Ids \cup {NextSlot} |-> id = NextSlot \/ active[id]]
      /\ idx' = [l \in Literals |-> IF l \in c THEN idx[l] \cup {NextSlot} ELSE idx[l]]
      /\ available' = StackPopped
  BY DEF AddClause
<1>2. Ids' = Ids \cup {NextSlot}
  BY <1>1 DEF Ids
<1>3. NextSlot \notin Used /\ Used \subseteq Ids
  BY NextSlotFacts DEF SimplifyStoreInv
<1>4. clauses'[NextSlot] = c /\ \A id \in Used : clauses'[id] = clauses[id]
  BY <1>1, <1>3
<1>5. clauses' \in Seq(SUBSET Literals)
  <2>1. PICK n \in Nat : Ids \cup {NextSlot} = 1 .. n
    BY NextSlotFacts
  <2>2. \A id \in Ids : clauses[id] \in SUBSET Literals
    BY ElementOfSeq, LenProperties DEF SimplifyStoreInv, StoreTypes, Ids
  <2>3. clauses' \in [1 .. n -> SUBSET Literals]
    BY <1>1, <2>1, <2>2
  <2> QED
    BY <2>3, SeqDef
<1>6. active' \in [Ids' -> BOOLEAN]
  BY <1>1, <1>2 DEF SimplifyStoreInv, StoreTypes
<1>7. idx' \in [Literals -> SUBSET Ids']
  BY <1>1, <1>2 DEF SimplifyStoreInv, StoreTypes
<1>8. available' \in Seq(Ids') /\ SlotsSound'
  <2>1. /\ available' \in Seq(Ids)
        /\ \A j, k \in DOMAIN available' : available'[j] = available'[k] => j = k
        /\ {available'[k] : k \in DOMAIN available'} = Ids' \ Used'
    BY <1>1, <1>2, StackPoppedFacts
  <2>2. available' \in Seq(Ids')
    BY <1>2, <2>1, SeqMonotonic
  <2> QED
    BY <2>1, <2>2 DEF SlotsSound, SlotsFree
<1>9. IdxExact'
  <2>1. \A l \in Literals : idx[l] = {id \in Used : l \in clauses[id]}
    BY DEF SimplifyStoreInv, IdxExact, IdxLists
  <2>2. \A l \in Literals : idx'[l] = {id \in Used' : l \in clauses'[id]}
    BY <1>1, <1>3, <1>4, <2>1
  <2> QED
    BY <2>2 DEF IdxExact, IdxLists
<1>10. Used' \subseteq Ids'
  BY <1>2, <1>3
<1> QED
  BY <1>2, <1>4, <1>5, <1>6, <1>7, <1>8, <1>9, <1>10 DEF SimplifyStoreInv, StoreTypes

\* Propagating a unit: its clauses are gone, its negation is out of those that are left.
LEMMA ApplyUnitFacts ==
  ASSUME SimplifyStoreInv, NEW l \in Literals, ApplyUnit(l), Used' = Used \ idx[l]
  PROVE  /\ SimplifyStoreInv' /\ Ids' = Ids
         /\ \A id \in Used' : clauses'[id] = clauses[id] \ {-l}
         /\ \A id \in Used : id \in Used' <=> l \notin clauses[id]
<1>1. -l \in Literals /\ -l # l
  BY LiteralFacts
<1>2. \A k \in Literals : idx[k] = {id \in Used : k \in clauses[id]}
  BY DEF SimplifyStoreInv, IdxExact, IdxLists
<1>3. clauses' = [id \in Ids |-> IF id \in IdxWithout(idx[l])[-l]
                                 THEN clauses[id] \ {-l} ELSE clauses[id]]
  BY DEF ApplyUnit
<1>4. Ids' = Ids
  BY <1>3 DEF Ids
<1>5. \A k \in Literals : IdxWithout(idx[l])[k] = {id \in Used' : k \in clauses[id]}
  BY <1>2 DEF IdxWithout
<1>6. Used \subseteq Ids /\ Used' \subseteq Ids'
  BY <1>4 DEF SimplifyStoreInv
<1>7. \A id \in Used' : clauses'[id] = clauses[id] \ {-l}
  BY <1>1, <1>3, <1>4, <1>5, <1>6
<1>8. \A id \in Used : id \in Used' <=> l \notin clauses[id]
  BY <1>2
<1>9. idx' = [k \in Literals |-> IF k = -l THEN {} ELSE IdxWithout(idx[l])[k]]
  BY DEF ApplyUnit, StrippedIdx, IdxWithout
<1>10. \A k \in Literals : idx'[k] = {id \in Used' : k \in clauses'[id]}
  BY <1>5, <1>7, <1>9
<1>11. idx' \in [Literals -> SUBSET Ids']
  BY <1>5, <1>6, <1>9
<1>12. clauses' \in Seq(SUBSET Literals)
  <2>1. /\ Ids = 1 .. Len(clauses) /\ Len(clauses) \in Nat
        /\ \A id \in Ids : clauses[id] \in SUBSET Literals
    BY ElementOfSeq, LenProperties DEF SimplifyStoreInv, StoreTypes, Ids
  <2>2. clauses' \in [1 .. Len(clauses) -> SUBSET Literals]
    BY <1>3, <2>1
  <2> QED
    BY <2>1, <2>2, SeqDef
<1>13. SlotsSound' /\ available' \in Seq(Ids) /\ active' \in [Ids -> BOOLEAN]
  <2>1. PICK order \in Orders(idx[l]) : Deactivate(order)
    BY DEF ApplyUnit
  <2>2. idx[l] \in SUBSET Used
    BY <1>2
  <2> QED
    BY <1>4, <2>1, <2>2, DeactivateFrees DEF SimplifyStoreInv
<1> QED
  BY <1>4, <1>6, <1>7, <1>8, <1>10, <1>11, <1>12, <1>13
  DEF SimplifyStoreInv, StoreTypes, IdxExact, IdxLists

-----------------------------------------------------------------------------
(* The inductive invariant *)

\* What an assignment must satisfy at a point of the run: the clauses in use and the units.
Holds(m) == (\A id \in Used : Satisfies(m, clauses[id])) /\ (\A l \in units : l \in m)
Equivalent == \A m \in Assignments : Holds(m) <=> \A c \in given : Satisfies(m, c)

\* No clause in use mentions the variable of l.
Absent(l) == \A id \in Used : l \notin clauses[id] /\ -l \notin clauses[id]

\* A unit that has been propagated is absent, and stays so until it is added again.
Fixpoint ==
  \A id \in Used :
    IF Cardinality(clauses[id]) = 1
    THEN clauses[id] \subseteq units
    ELSE \A l \in units : l \notin clauses[id] /\ -l \notin clauses[id]

UnitsInv ==
  /\ units \subseteq Literals /\ u \subseteq units
  /\ stage = "tautologies" => units = {}
  /\ stage = "collect" => u = {}
  /\ stage \in {"collect", "apply"} => \A l \in units \ u : Absent(l)
  /\ stage \in {"readd", "adding", "subsume", "ready"} => Fixpoint

\* The clause i is contained in no other, unless it is empty.
Alone(i) == \A k \in Used : i # k /\ clauses[i] \subseteq clauses[k] => clauses[i] = {}

SubsumptionInv ==
  /\ subsuming \in Nat \ {0}
  /\ stage \notin {"subsume", "ready"} => subsuming = 1
  /\ stage = "subsume" => \A i \in Used : i < subsuming => Alone(i)
  /\ stage = "ready" => \A i \in Used : Alone(i)

Inv ==
  /\ stage \in {"tautologies", "collect", "apply", "readd", "adding", "subsume", "ready"}
  /\ SimplifyStoreInv
  /\ UnitsInv
  /\ Equivalent
  /\ SubsumptionInv

\* The clauses in use are sets of literals.
LEMMA ClauseTypes ==
  ASSUME SimplifyStoreInv, NEW id \in Used
  PROVE  id \in Ids /\ clauses[id] \in SUBSET Literals
<1>1. id \in Ids
  BY DEF SimplifyStoreInv
<1> QED
  BY <1>1, ElementOfSeq, LenProperties DEF SimplifyStoreInv, StoreTypes, Ids

\* rm_clause in a loop while the formula is preprocessed.
LEMMA RemoveSlots ==
  ASSUME SimplifyStoreInv, stage # "ready", stage' # "ready",
         NEW T \in SUBSET Used, NEW order \in Orders(T), RmClauses(order)
  PROVE  Used' = Used \ T /\ SimplifyStoreInv' /\ clauses' = clauses
<1>1. SlotsOf(order) = T
  BY SlotsFinite, OrderFacts DEF SimplifyStoreInv
<1>2. active' = [id \in Ids |-> active[id] /\ id \notin T] /\ Ids' = Ids
  BY <1>1 DEF RmClauses, Deactivate, Ids
<1>3. Used' = Used \ T
  BY <1>2 DEF Used, ActiveIds
<1> QED
  BY <1>3, RmClausesFacts

\* The formula read satisfies the invariant.
LEMMA InitInv ==
  ASSUME SimplifyInit PROVE Inv
<1>1. PICK F \in Formulas : Load(F) /\ given = {F[id] : id \in DOMAIN F}
  BY DEF SimplifyInit
<1>2. /\ clauses = F /\ active = [id \in DOMAIN F |-> TRUE] /\ available = <<>>
      /\ idx = [l \in Literals |-> {id \in DOMAIN F : l \in F[id]}]
  BY <1>1 DEF Load
<1>3. /\ stage = "tautologies" /\ units = {} /\ u = {} /\ subsuming = 1
  BY DEF SimplifyInit
<1>4. F \in Seq(SUBSET Literals)
  BY FormulasAssumption
<1>5. Ids = DOMAIN F /\ Used = Ids
  BY <1>2, <1>3 DEF Ids, Used, ActiveIds
<1>6. available \in Seq(Ids) /\ DOMAIN available = {}
  BY <1>2, EmptySeq
<1>7. SimplifyStoreInv
  <2>1. StoreTypes
    BY <1>2, <1>4, <1>5, <1>6 DEF StoreTypes
  <2>2. IdxExact
    BY <1>2, <1>5 DEF IdxExact, IdxLists
  <2>3. SlotsSound
    BY <1>5, <1>6 DEF SlotsSound, SlotsFree
  <2> QED
    BY <1>5, <2>1, <2>2, <2>3 DEF SimplifyStoreInv
<1>8. Equivalent
  BY <1>1, <1>2, <1>3, <1>5 DEF Equivalent, Holds
<1> QED
  BY <1>3, <1>7, <1>8 DEF Inv, UnitsInv, SubsumptionInv

\* Removing the tautologies.
LEMMA RemoveTautologiesInv ==
  ASSUME Inv, RemoveTautologies PROVE Inv'
<1> DEFINE T == {id \in ActiveIds : Tautology(clauses[id])}
<1>1. PICK order \in Ascending(T) : RmClauses(order)
  BY DEF RemoveTautologies
<1>2. /\ stage = "tautologies" /\ stage' = "collect" /\ units' = units /\ u' = u
      /\ subsuming' = subsuming /\ given' = given
  BY DEF RemoveTautologies
<1>3. T \in SUBSET Used /\ order \in Orders(T) /\ Used = ActiveIds
  BY <1>1, <1>2 DEF Ascending, Used
<1>4. Used' = Used \ T /\ SimplifyStoreInv' /\ clauses' = clauses
  BY <1>1, <1>2, <1>3, RemoveSlots DEF Inv
<1>5. units = {} /\ u = {}
  BY <1>2 DEF Inv, UnitsInv
<1>6. Equivalent'
  <2>1. ASSUME NEW m \in Assignments, NEW id \in T PROVE Satisfies(m, clauses[id])
    BY <1>3, <2>1, ClauseTypes, TautologySatisfied DEF Inv
  <2>2. ASSUME NEW m \in Assignments PROVE Holds(m)' <=> Holds(m)
    <3>1. \A id \in T : Satisfies(m, clauses[id])
      BY <2>1
    <3> QED
      BY <1>2, <1>3, <1>4, <3>1 DEF Holds, Satisfies
  <2> QED
    BY <1>2, <2>2 DEF Inv, Equivalent, Satisfies
<1> QED
  BY <1>2, <1>4, <1>5, <1>6 DEF Inv, UnitsInv, SubsumptionInv

\* Setting the unit clauses aside.
LEMMA CollectUnitsInv ==
  ASSUME Inv, CollectUnits PROVE Inv'
<1>1. PICK order \in Ascending(UnitIds) : RmClauses(order)
  BY DEF CollectUnits
<1>2. /\ stage = "collect" /\ stage' = IF u' = {} THEN "readd" ELSE "apply"
      /\ u' = UNION {clauses[id] : id \in UnitIds} /\ units' = units \cup u'
      /\ subsuming' = subsuming /\ given' = given
  BY DEF CollectUnits
<1>3. UnitIds \in SUBSET Used /\ order \in Orders(UnitIds) /\ Used = ActiveIds
  BY <1>1, <1>2 DEF Ascending, Used, UnitIds
<1>4. Used' = Used \ UnitIds /\ SimplifyStoreInv' /\ clauses' = clauses
  BY <1>1, <1>2, <1>3, RemoveSlots DEF Inv
<1>5. \A id \in Used : id \in UnitIds <=> \E l \in Literals : clauses[id] = {l}
  <2>1. \A id \in Used : id \in UnitIds <=> Cardinality(clauses[id]) = 1
    BY <1>3 DEF UnitIds
  <2> QED
    BY <2>1, UnitClause, ClauseTypes DEF Inv
<1>6. units \subseteq Literals /\ u = {} /\ \A l \in units : Absent(l)
  BY <1>2 DEF Inv, UnitsInv
<1>7. Equivalent'
  <2>1. ASSUME NEW m \in Assignments PROVE Holds(m)' <=> Holds(m)
    <3>1. (\A id \in UnitIds : Satisfies(m, clauses[id])) <=> \A l \in u' : l \in m
      BY <1>2, <1>3, <1>5 DEF Satisfies
    <3>2. (\A id \in Used : Satisfies(m, clauses[id])) <=>
            /\ \A id \in Used \ UnitIds : Satisfies(m, clauses[id])
            /\ \A id \in UnitIds : Satisfies(m, clauses[id])
      BY <1>3
    <3>3. Holds(m)' <=> (\A id \in Used \ UnitIds : Satisfies(m, clauses[id]))
                        /\ \A l \in units \cup u' : l \in m
      BY <1>2, <1>4 DEF Holds, Satisfies
    <3> QED
      BY <3>1, <3>2, <3>3 DEF Holds
  <2> QED
    BY <1>2, <2>1 DEF Inv, Equivalent, Satisfies
<1>8. UnitsInv'
  <2>1. u' \subseteq Literals /\ units' \subseteq Literals /\ u' \subseteq units'
    BY <1>2, <1>3, <1>5, <1>6
  <2>2. \A l \in units' \ u' : Absent(l)'
    BY <1>2, <1>4, <1>6 DEF Absent
  <2>3. CASE u' # {}
    BY <1>2, <2>1, <2>2, <2>3 DEF UnitsInv
  <2>4. CASE u' = {}
    <3>1. UnitIds = {} /\ Used' = Used
      BY <1>2, <1>3, <1>4, <1>5, <2>4
    <3>2. \A id \in Used : Cardinality(clauses[id]) # 1
      BY <1>3, <3>1 DEF UnitIds
    <3>3. Fixpoint'
      BY <1>2, <1>4, <1>6, <2>4, <3>1, <3>2 DEF Fixpoint, Absent
    <3> QED
      BY <1>2, <2>1, <2>4, <3>3 DEF UnitsInv
  <2> QED
    BY <2>3, <2>4
<1> QED
  BY <1>2, <1>4, <1>7, <1>8 DEF Inv, SubsumptionInv

\* Propagating one unit.
LEMMA ApplyUnitInv ==
  ASSUME Inv, NEW l \in u, ApplyUnit(l) PROVE Inv'
<1>1. /\ stage = "apply" /\ u' = u \ {l} /\ stage' = IF u' = {} THEN "collect" ELSE "apply"
      /\ units' = units /\ subsuming' = subsuming /\ given' = given
  BY DEF ApplyUnit, AfterUnit
<1>2. l \in Literals /\ l \in units /\ u \subseteq units /\ units \subseteq Literals
  BY DEF Inv, UnitsInv
<1>3. PICK order \in Orders(idx[l]) : Deactivate(order)
  BY DEF ApplyUnit
<1>4. idx[l] \in SUBSET Used
  BY <1>2 DEF Inv, SimplifyStoreInv, IdxExact, IdxLists
<1>5. Used' = Used \ idx[l]
  <2>1. SlotsOf(order) = idx[l]
    BY <1>4, SlotsFinite, OrderFacts DEF Inv, SimplifyStoreInv
  <2>2. active' = [id \in Ids |-> active[id] /\ id \notin idx[l]]
    BY <1>3, <2>1 DEF Deactivate
  <2>3. Ids' = Ids
    BY DEF ApplyUnit, Ids
  <2> QED
    BY <1>1, <2>2, <2>3 DEF Used, ActiveIds
<1>6. /\ SimplifyStoreInv'
      /\ \A id \in Used' : clauses'[id] = clauses[id] \ {-l}
      /\ \A id \in Used : id \in Used' <=> l \notin clauses[id]
  BY <1>2, <1>5, ApplyUnitFacts DEF Inv
<1>7. Equivalent'
  <2>1. ASSUME NEW m \in Assignments, l \in m, NEW id \in Used
        PROVE  Satisfies(m, clauses[id]) <=> (id \in Used' => Satisfies(m, clauses'[id]))
    <3>1. -l \notin m
      BY <1>2, <2>1, AssignmentFacts
    <3>2. CASE id \in Used'
      BY <1>6, <3>1, <3>2 DEF Satisfies
    <3>3. CASE id \notin Used'
      BY <1>6, <2>1, <3>3 DEF Satisfies
    <3> QED
      BY <3>2, <3>3
  <2>2. ASSUME NEW m \in Assignments, l \in m PROVE Holds(m)' <=> Holds(m)
    <3>1. \A id \in Used : Satisfies(m, clauses[id])
                           <=> (id \in Used' => Satisfies(m, clauses'[id]))
      BY <2>1, <2>2
    <3> QED
      BY <1>1, <1>5, <3>1 DEF Holds, Satisfies
  <2>3. ASSUME NEW m \in Assignments, l \notin m PROVE ~Holds(m) /\ ~Holds(m)'
    BY <1>1, <1>2, <2>3 DEF Holds
  <2> QED
    BY <1>1, <2>2, <2>3 DEF Inv, Equivalent, Satisfies
<1>8. UnitsInv'
  <2>1. \A k \in units \ u : Absent(k)
    BY <1>1 DEF Inv, UnitsInv
  <2>2. \A id \in Used' : id \in Used /\ clauses'[id] \subseteq clauses[id]
    BY <1>5, <1>6
  <2>3. \A k \in units \ u : Absent(k)'
    BY <2>1, <2>2 DEF Absent
  <2>4. Absent(l)'
    BY <1>5, <1>6, <2>2 DEF Absent
  <2>5. \A k \in units' \ u' : Absent(k)'
    BY <1>1, <2>3, <2>4
  <2> QED
    BY <1>1, <1>2, <2>5 DEF UnitsInv
<1> QED
  BY <1>1, <1>6, <1>7, <1>8 DEF Inv, SubsumptionInv

\* The units start to become clauses again.
LEMMA StartReAddingInv ==
  ASSUME Inv, StartReAdding PROVE Inv'
<1>1. /\ stage = "readd" /\ u' = units /\ units' = units /\ subsuming' = subsuming /\ given' = given
      /\ stage' = IF units = {} THEN "subsume" ELSE "adding"
      /\ clauses' = clauses /\ active' = active /\ idx' = idx /\ available' = available
  BY DEF StartReAdding, storeVars
<1>2. Ids' = Ids /\ Used' = Used
  BY <1>1 DEF Ids, Used, ActiveIds
<1>3. SimplifyStoreInv'
  BY <1>1, <1>2 DEF Inv, SimplifyStoreInv, StoreTypes, IdxExact, IdxLists, SlotsSound, SlotsFree
<1>4. Equivalent'
  BY <1>1, <1>2 DEF Inv, Equivalent, Holds, Satisfies
<1>5. UnitsInv'
  BY <1>1, <1>2 DEF Inv, UnitsInv, Fixpoint
<1>6. SubsumptionInv'
  BY <1>1, <1>2 DEF Inv, SubsumptionInv, SimplifyStoreInv, StoreTypes, Ids
<1> QED
  BY <1>1, <1>3, <1>4, <1>5, <1>6 DEF Inv

\* One unit becomes a clause again.
LEMMA ReAddUnitInv ==
  ASSUME Inv, NEW l \in u, ReAddUnit(l) PROVE Inv'
<1>1. /\ stage = "adding" /\ u' = u \ {l} /\ stage' = IF u' = {} THEN "subsume" ELSE "adding"
      /\ units' = units /\ subsuming' = subsuming /\ given' = given /\ AddClause({l})
  BY DEF ReAddUnit
<1>2. l \in Literals /\ l \in units /\ u \subseteq units /\ units \subseteq Literals
  BY DEF Inv, UnitsInv
<1>3. Used' = Used \cup {NextSlot}
  <2>1. /\ Ids' = Ids \cup {NextSlot}
        /\ active' = [id \in Ids \cup {NextSlot} |-> id = NextSlot \/ active[id]]
    BY <1>1 DEF AddClause, Ids
  <2>2. Used = ActiveIds /\ Used' = ActiveIds'
    BY <1>1 DEF Used
  <2> QED
    BY <2>1, <2>2 DEF ActiveIds
<1>4. {l} \in SUBSET Literals
  BY <1>2
<1>5. /\ SimplifyStoreInv' /\ clauses'[NextSlot] = {l}
      /\ \A id \in Used : clauses'[id] = clauses[id]
  BY <1>1, <1>3, <1>4, AddClauseFacts DEF Inv
<1>6. Equivalent'
  <2>1. ASSUME NEW m \in Assignments PROVE Holds(m)' <=> Holds(m)
    BY <1>1, <1>2, <1>3, <1>5 DEF Holds, Satisfies
  <2> QED
    BY <1>1, <2>1 DEF Inv, Equivalent, Satisfies
<1>7. UnitsInv'
  <2>1. Cardinality({l}) = 1
    BY FS_Singleton
  <2>2. Fixpoint
    BY <1>1 DEF Inv, UnitsInv
  <2>3. Fixpoint'
    <3>1. SUFFICES ASSUME NEW id \in Used'
                   PROVE  IF Cardinality(clauses'[id]) = 1
                          THEN clauses'[id] \subseteq units
                          ELSE \A k \in units : k \notin clauses'[id] /\ -k \notin clauses'[id]
      BY <1>1 DEF Fixpoint
    <3>2. CASE id = NextSlot
      BY <1>2, <1>5, <2>1, <3>2
    <3>3. CASE id \in Used
      BY <1>5, <2>2, <3>3 DEF Fixpoint
    <3> QED
      BY <1>3, <3>2, <3>3
  <2> QED
    BY <1>1, <1>2, <2>3 DEF UnitsInv
<1>8. SubsumptionInv'
  <2>1. subsuming = 1
    BY <1>1 DEF Inv, SubsumptionInv
  <2>2. \A i \in Used' : i \in Nat \ {0}
    BY <1>5, LenProperties DEF SimplifyStoreInv, StoreTypes, Ids
  <2> QED
    BY <1>1, <2>1, <2>2 DEF SubsumptionInv
<1> QED
  BY <1>1, <1>5, <1>6, <1>7, <1>8 DEF Inv

\* The clauses that contain the clause at the subsuming are removed.
LEMMA SubsumeInv ==
  ASSUME Inv, Subsume PROVE Inv'
<1>1. /\ stage = "subsume" /\ stage' = stage /\ u' = u /\ units' = units /\ subsuming' = subsuming + 1
      /\ given' = given /\ subsuming \in Ids /\ Used = ActiveIds
  BY DEF Subsume, Used
<1>2. PICK T \in SUBSET Used :
        /\ Used' = Used \ T /\ SimplifyStoreInv' /\ clauses' = clauses
        /\ T # {} => subsuming \in Used
        /\ \A id \in T : id # subsuming /\ clauses[subsuming] \subseteq clauses[id]
        /\ subsuming \in Used /\ clauses[subsuming] # {} =>
             \A id \in Used : id # subsuming /\ clauses[subsuming] \subseteq clauses[id] => id \in T
  <2>1. CASE active[subsuming]
    <3>0. PICK j \in Rarest(clauses[subsuming]) :
            \E order \in Orders(SubsumedBy(subsuming, j)) : RmClauses(order)
      BY <2>1 DEF Subsume
    <3>1. PICK order \in Orders(SubsumedBy(subsuming, j)) : RmClauses(order)
      BY <3>0
    <3> DEFINE T == SubsumedBy(subsuming, j)
    <3>2. subsuming \in Used /\ clauses[subsuming] \in SUBSET Literals
      BY <1>1, <2>1, ClauseTypes DEF ActiveIds, Inv
    <3>3. j \in Literals
      BY <3>1, <3>2 DEF Rarest
    <3>4. idx[j] = {id \in Used : j \in clauses[id]}
      BY <3>3 DEF Inv, SimplifyStoreInv, IdxExact, IdxLists
    <3>5. T \in SUBSET Used /\ \A id \in T : id # subsuming /\ clauses[subsuming] \subseteq clauses[id]
      BY <3>4 DEF SubsumedBy
    <3>6. Used' = Used \ T /\ SimplifyStoreInv' /\ clauses' = clauses
      BY <1>1, <3>1, <3>5, RemoveSlots DEF Inv
    <3>7. ASSUME clauses[subsuming] # {}, NEW id \in Used,
                 id # subsuming, clauses[subsuming] \subseteq clauses[id]
          PROVE  id \in T
      <4>1. j \in clauses[subsuming]
        BY <3>1, <3>7 DEF Rarest
      <4>2. id \in idx[j] /\ active[id]
        BY <1>1, <3>4, <3>7, <4>1 DEF ActiveIds
      <4> QED
        BY <3>7, <4>2 DEF SubsumedBy
    <3> QED
      BY <3>2, <3>5, <3>6, <3>7
  <2>2. CASE ~active[subsuming]
    <3>1. subsuming \notin Used
      BY <1>1, <2>2 DEF ActiveIds
    <3>2. clauses' = clauses /\ active' = active /\ idx' = idx /\ available' = available
      BY <2>2 DEF Subsume, storeVars
    <3>3. Used' = Used \ {} /\ Ids' = Ids
      BY <1>1, <3>2 DEF Used, ActiveIds, Ids
    <3>4. SimplifyStoreInv'
      BY <3>2, <3>3 DEF Inv, SimplifyStoreInv, StoreTypes, IdxExact, IdxLists, SlotsSound, SlotsFree
    <3> QED
      <4>1. {} \in SUBSET Used
        OBVIOUS
      <4>2. /\ Used' = Used \ {} /\ SimplifyStoreInv' /\ clauses' = clauses
            /\ {} # {} => subsuming \in Used
            /\ \A id \in {} : id # subsuming /\ clauses[subsuming] \subseteq clauses[id]
            /\ subsuming \in Used /\ clauses[subsuming] # {} =>
                 \A id \in Used : id # subsuming /\ clauses[subsuming] \subseteq clauses[id] => id \in {}
        BY <3>1, <3>2, <3>3, <3>4
      <4> QED
        BY <4>1, <4>2, Zenon
  <2> QED
    BY <2>1, <2>2
<1>3. Equivalent'
  <2>1. ASSUME NEW m \in Assignments PROVE Holds(m)' <=> Holds(m)
    <3>1. ASSUME \A id \in Used' : Satisfies(m, clauses[id]), NEW id \in T
          PROVE  Satisfies(m, clauses[id])
      <4>1. subsuming \in Used' /\ clauses[subsuming] \subseteq clauses[id]
        BY <1>2
      <4> QED
        BY <3>1, <4>1 DEF Satisfies
    <3> QED
      BY <1>1, <1>2, <3>1 DEF Holds, Satisfies
  <2> QED
    BY <1>1, <2>1 DEF Inv, Equivalent, Satisfies
<1>4. UnitsInv'
  BY <1>1, <1>2 DEF Inv, UnitsInv, Fixpoint
<1>5. SubsumptionInv'
  <2>1. subsuming \in Nat \ {0} /\ \A i \in Used : i < subsuming => Alone(i)
    BY <1>1 DEF Inv, SubsumptionInv
  <2>2. \A i \in Used : i \in Nat
    BY LenProperties DEF Inv, SimplifyStoreInv, StoreTypes, Ids
  <2>3. ASSUME NEW i \in Used', i < subsuming' PROVE Alone(i)'
    <3>1. CASE i < subsuming
      BY <1>2, <2>1, <2>3, <3>1 DEF Alone
    <3>2. CASE i = subsuming
      BY <1>2, <2>3, <3>2 DEF Alone
    <3> QED
      BY <1>1, <1>2, <2>1, <2>2, <2>3, <3>1, <3>2
  <2> QED
    BY <1>1, <2>1, <2>3 DEF SubsumptionInv
<1> QED
  BY <1>1, <1>2, <1>3, <1>4, <1>5 DEF Inv

\* The slots in use are recorded.
LEMMA EndSubsumptionInv ==
  ASSUME Inv, EndSubsumption PROVE Inv'
<1>1. /\ stage = "subsume" /\ stage' = "ready" /\ u' = u /\ units' = units /\ subsuming' = subsuming
      /\ given' = given /\ subsuming \notin Ids /\ kept' = ActiveIds
      /\ clauses' = clauses /\ active' = active /\ idx' = idx /\ available' = available
  BY DEF EndSubsumption, storeVars
<1>2. Ids' = Ids /\ Used' = Used
  BY <1>1 DEF Ids, Used
<1>3. SimplifyStoreInv'
  BY <1>1, <1>2 DEF Inv, SimplifyStoreInv, StoreTypes, IdxExact, IdxLists, SlotsSound, SlotsFree
<1>4. Equivalent'
  BY <1>1, <1>2 DEF Inv, Equivalent, Holds, Satisfies
<1>5. UnitsInv'
  BY <1>1, <1>2 DEF Inv, UnitsInv, Fixpoint
<1>6. SubsumptionInv'
  <2>1. subsuming \in Nat \ {0} /\ \A i \in Used : i < subsuming => Alone(i)
    BY <1>1 DEF Inv, SubsumptionInv
  <2>2. /\ Ids = 1 .. Len(clauses) /\ Len(clauses) \in Nat
        /\ Used \subseteq Ids
    BY LenProperties DEF Inv, SimplifyStoreInv, StoreTypes, Ids
  <2>3. \A i \in Used : i < subsuming
    BY <1>1, <2>1, <2>2
  <2>4. \A i \in Used' : Alone(i)'
    BY <1>1, <1>2, <2>1, <2>3 DEF Alone
  <2> QED
    BY <1>1, <2>1, <2>4 DEF SubsumptionInv
<1> QED
  BY <1>1, <1>3, <1>4, <1>5, <1>6 DEF Inv

\* set_active hides or shows a clause, and nothing else of the store moves.
LEMMA SetActiveInv ==
  ASSUME Inv, NEW id \in kept, NEW v \in BOOLEAN, SetActive(id, v) PROVE Inv'
<1>1. /\ stage = "ready" /\ stage' = stage /\ u' = u /\ units' = units /\ subsuming' = subsuming
      /\ given' = given /\ kept' = kept
      /\ clauses' = clauses /\ active' = [active EXCEPT ![id] = v]
      /\ idx' = idx /\ available' = available
  BY DEF SetActive
<1>2. Ids' = Ids /\ Used' = Used
  BY <1>1 DEF Ids, Used
<1>3. active' \in [Ids -> BOOLEAN]
  BY <1>1 DEF Inv, SimplifyStoreInv, StoreTypes
<1>4. SimplifyStoreInv'
  BY <1>1, <1>2, <1>3 DEF Inv, SimplifyStoreInv, StoreTypes, IdxExact, IdxLists, SlotsSound, SlotsFree
<1>5. Equivalent'
  BY <1>1, <1>2 DEF Inv, Equivalent, Holds, Satisfies
<1>6. UnitsInv'
  BY <1>1, <1>2 DEF Inv, UnitsInv, Fixpoint
<1>7. SubsumptionInv'
  BY <1>1, <1>2 DEF Inv, SubsumptionInv, Alone
<1> QED
  BY <1>1, <1>4, <1>5, <1>6, <1>7 DEF Inv

\* A step that changes nothing.
LEMMA SimplifyStutterInv ==
  ASSUME Inv, UNCHANGED simplifyVars PROVE Inv'
<1>1. /\ stage' = stage /\ u' = u /\ units' = units /\ subsuming' = subsuming /\ given' = given
      /\ kept' = kept /\ clauses' = clauses /\ active' = active /\ idx' = idx
      /\ available' = available
  BY DEF simplifyVars, storeVars
<1>2. Ids' = Ids /\ Used' = Used
  BY <1>1 DEF Ids, Used, ActiveIds
<1>3. SimplifyStoreInv'
  BY <1>1, <1>2 DEF Inv, SimplifyStoreInv, StoreTypes, IdxExact, IdxLists, SlotsSound, SlotsFree
<1>4. Equivalent'
  BY <1>1, <1>2 DEF Inv, Equivalent, Holds, Satisfies
<1>5. UnitsInv'
  BY <1>1, <1>2 DEF Inv, UnitsInv, Fixpoint, Absent
<1>6. SubsumptionInv'
  BY <1>1, <1>2 DEF Inv, SubsumptionInv, Alone
<1> QED
  BY <1>1, <1>3, <1>4, <1>5, <1>6 DEF Inv

-----------------------------------------------------------------------------
(* The counter *)

\* The units set aside that are still to become clauses.
Pending == IF stage = "adding" THEN u ELSE IF stage \in {"subsume", "ready"} THEN {} ELSE units

\* The counter never wraps: every unit that becomes a clause again has been a clause.
CountInv ==
  /\ nbActive = Cardinality(ActiveIds)
  /\ Cardinality(Used) + Cardinality(Pending) < 2^Width
  /\ kept \subseteq Ids /\ ActiveIds \subseteq Used
  /\ given \subseteq SUBSET Literals

LEMMA SetsFinite ==
  ASSUME Inv
  PROVE  /\ IsFiniteSet(Used) /\ Cardinality(Used) \in Nat
         /\ IsFiniteSet(units) /\ Cardinality(units) \in Nat
         /\ IsFiniteSet(u) /\ Cardinality(u) \in Nat
         /\ IsFiniteSet(Pending) /\ Cardinality(Pending) \in Nat
<1>1. units \in SUBSET Literals /\ u \in SUBSET Literals
  BY DEF Inv, UnitsInv
<1>2. IsFiniteSet(Used) /\ IsFiniteSet(units) /\ IsFiniteSet(u) /\ IsFiniteSet({})
  BY <1>1, ClauseFinite, SlotsFinite, FS_EmptySet DEF Inv, SimplifyStoreInv
<1>3. IsFiniteSet(Pending)
  BY <1>2 DEF Pending
<1> QED
  BY <1>2, <1>3, FS_CardinalityType

\* While no clause is hidden, the counter is exact modulo 2^Width, and exact because it fits.
LEMMA CountModulo ==
  ASSUME Inv, CountInv
  PROVE  CounterExact /\ StoreTypes
<1>1. ActiveIds \subseteq Used /\ Cardinality(Used) + Cardinality(Pending) < 2^Width
  BY DEF CountInv
<1>2. Cardinality(ActiveIds) <= Cardinality(Used) /\ Cardinality(ActiveIds) \in Nat
  BY <1>1, SetsFinite, FS_Subset, FS_CardinalityType
<1>3. Cardinality(ActiveIds) < 2^Width
  BY <1>1, <1>2, SetsFinite, Sizes
<1> QED
  BY <1>2, <1>3, WrapSmall DEF Inv, SimplifyStoreInv, CountInv, CounterExact

\* A counter that is exact modulo 2^Width is exact when what it counts fits.
LEMMA CountBack ==
  ASSUME CounterExact', NEW S, IsFiniteSet(S), ActiveIds' \subseteq S,
         NEW n \in Nat, Cardinality(S) + n < 2^Width
  PROVE  nbActive' = Cardinality(ActiveIds')
<1>1. Cardinality(ActiveIds') <= Cardinality(S) /\ Cardinality(ActiveIds') \in Nat
  BY FS_Subset, FS_CardinalityType
<1>2. Cardinality(S) \in Nat
  BY FS_CardinalityType
<1>3. Cardinality(ActiveIds') < 2^Width
  BY <1>1, <1>2, Sizes
<1>4. Wrap(Cardinality(ActiveIds')) = Cardinality(ActiveIds')
  BY <1>1, <1>3, WrapSmall
<1> QED
  BY <1>4 DEF CounterExact

\* Taking clauses out of use while nothing more is set aside.
LEMMA CountRemoved ==
  ASSUME Inv, CountInv, stage # "ready", stage' # "ready", Ids' = Ids,
         NEW T \in SUBSET ActiveIds, NEW order \in Orders(T), Deactivate(order),
         IsFiniteSet(Pending'), Cardinality(Pending') <= Cardinality(Pending) + Cardinality(T),
         kept' = kept, given' = given
  PROVE  CountInv'
<1>1. CounterExact /\ StoreTypes
  BY CountModulo
<1>2. ActiveIds' = ActiveIds \ T /\ CounterExact'
  <2>1. T \in SUBSET Ids /\ IsFiniteSet(T)
    BY <1>1, SlotsFinite DEF ActiveIds
  <2>2. /\ order \in Seq(T) /\ SlotsOf(order) = T
        /\ \A j, k \in DOMAIN order : order[j] = order[k] => j = k
    BY <2>1, OrderFacts
  <2> QED
    BY <1>1, <2>2, DeactivateCounts
<1>3. Used = ActiveIds /\ Used' = ActiveIds'
  BY DEF Used
<1>4. IsFiniteSet(Used) /\ Cardinality(Used) \in Nat /\ Cardinality(Pending) \in Nat
  BY SetsFinite
<1>5. T = Used \cap T /\ IsFiniteSet(T) /\ Cardinality(T) \in Nat
  BY <1>3, <1>4, FS_Subset, FS_CardinalityType
<1>6. IsFiniteSet(Used') /\ Cardinality(Used') = Cardinality(Used) - Cardinality(T)
  <2>1. Used' = Used \ T
    BY <1>2, <1>3
  <2>2. IsFiniteSet(Used \ T) /\ Cardinality(Used \ T) = Cardinality(Used) - Cardinality(Used \cap T)
    BY <1>4, FS_Difference
  <2>3. Cardinality(Used \cap T) = Cardinality(T)
    BY <1>5
  <2> QED
    BY <2>1, <2>2, <2>3
<1>7. Cardinality(Pending') \in Nat /\ Cardinality(Used') \in Nat
  BY <1>6, FS_CardinalityType
<1>8. Cardinality(Used) + Cardinality(Pending) < 2^Width
  BY DEF CountInv
<1>9. Cardinality(Used') + Cardinality(Pending') < 2^Width
  BY <1>4, <1>5, <1>6, <1>7, <1>8, Sizes
<1>10. nbActive' = Cardinality(ActiveIds')
  BY <1>2, <1>3, <1>6, <1>7, <1>9, CountBack
<1> QED
  BY <1>3, <1>9, <1>10 DEF CountInv

LEMMA InitCount ==
  ASSUME SimplifyInit PROVE CountInv
<1>1. PICK F \in Formulas : Load(F) /\ given = {F[id] : id \in DOMAIN F}
  BY DEF SimplifyInit
<1>2. F \in Seq(SUBSET Literals) /\ Len(F) < 2^Width
  BY FormulasAssumption
<1>3. DOMAIN F = 1 .. Len(F) /\ Len(F) \in Nat /\ \A id \in DOMAIN F : F[id] \in SUBSET Literals
  BY <1>2, LenProperties, ElementOfSeq
<1>4. Ids = DOMAIN F /\ ActiveIds = DOMAIN F /\ Used = DOMAIN F /\ kept = {} /\ Pending = {}
  BY <1>1 DEF SimplifyInit, Load, Ids, ActiveIds, Used, Pending
<1>5. Cardinality(DOMAIN F) = Len(F) /\ Cardinality({}) = 0
  <2>1. Cardinality(1 .. Len(F)) = Len(F)
    BY <1>3, IntervalCount
  <2> QED
    BY <1>3, <2>1, FS_EmptySet
<1>6. nbActive = Len(F)
  BY <1>1 DEF Load
<1>7. Len(F) + 0 = Len(F)
  BY <1>3
<1> QED
  BY <1>1, <1>2, <1>3, <1>4, <1>5, <1>6, <1>7 DEF CountInv

LEMMA RemoveTautologiesCount ==
  ASSUME Inv, CountInv, RemoveTautologies PROVE CountInv'
<1> DEFINE T == {id \in ActiveIds : Tautology(clauses[id])}
<1>1. PICK order \in Ascending(T) : RmClauses(order)
  BY DEF RemoveTautologies
<1>2. /\ stage = "tautologies" /\ stage' = "collect" /\ units' = units
      /\ kept' = kept /\ given' = given /\ clauses' = clauses
  BY DEF RemoveTautologies, RmClauses
<1>3. T \in SUBSET ActiveIds /\ order \in Orders(T) /\ Deactivate(order) /\ Ids' = Ids
  BY <1>1, <1>2 DEF Ascending, RmClauses, Ids
<1>4. Pending' = Pending
  BY <1>2 DEF Pending
<1>5. IsFiniteSet(T) /\ Cardinality(T) \in Nat
  BY <1>3, SlotsFinite, FS_CardinalityType DEF ActiveIds, Inv, SimplifyStoreInv
<1>6. Cardinality(Pending') <= Cardinality(Pending) + Cardinality(T) /\ IsFiniteSet(Pending')
  BY <1>4, <1>5, SetsFinite
<1> HIDE DEF T
<1> QED
  BY <1>2, <1>3, <1>6, CountRemoved

\* The units are at most as many as the clauses they were.
LEMMA CollectUnitsCount ==
  ASSUME Inv, CountInv, CollectUnits PROVE CountInv'
<1>1. PICK order \in Ascending(UnitIds) : RmClauses(order)
  BY DEF CollectUnits
<1>2. /\ stage = "collect" /\ stage' = IF u' = {} THEN "readd" ELSE "apply"
      /\ u' = UNION {clauses[id] : id \in UnitIds} /\ units' = units \cup u'
      /\ kept' = kept /\ given' = given /\ clauses' = clauses
  BY <1>1 DEF CollectUnits, RmClauses
<1>3. UnitIds \in SUBSET ActiveIds /\ order \in Orders(UnitIds) /\ Deactivate(order) /\ Ids' = Ids
  BY <1>1, <1>2 DEF Ascending, RmClauses, Ids, UnitIds
<1>4. Pending = units /\ Pending' = units \cup u'
  BY <1>2 DEF Pending
<1>5. IsFiniteSet(UnitIds) /\ Cardinality(UnitIds) \in Nat
  BY <1>3, SlotsFinite, FS_CardinalityType DEF ActiveIds, Inv, SimplifyStoreInv
<1>6. \A id \in UnitIds : \E l \in Literals : clauses[id] = {l}
  <2>1. \A id \in UnitIds : id \in Used /\ Cardinality(clauses[id]) = 1
    BY <1>2 DEF UnitIds, Used
  <2> QED
    BY <2>1, UnitClause, ClauseTypes DEF Inv
<1>7. IsFiniteSet(u') /\ Cardinality(u') <= Cardinality(UnitIds)
  <2> DEFINE f == [id \in UnitIds |-> CHOOSE l \in Literals : clauses[id] = {l}]
  <2>1. \A id \in UnitIds : clauses[id] = {f[id]}
    BY <1>6
  <2>2. \A id \in UnitIds : f[id] \in u'
    BY <1>2, <2>1
  <2>3. \A l \in u' : \E id \in UnitIds : f[id] = l
    BY <1>2, <2>1
  <2>4. f \in Surjection(UnitIds, u')
    BY <2>2, <2>3 DEF Surjection
  <2> QED
    BY <1>5, <2>4, FS_Surjection
<1>8. Cardinality(u') \in Nat
  BY <1>7, FS_CardinalityType
<1>9. IsFiniteSet(units) /\ Cardinality(units) \in Nat
  BY SetsFinite
<1>10. /\ IsFiniteSet(units \cup u')
       /\ Cardinality(units \cup u') = Cardinality(units) + Cardinality(u') - Cardinality(units \cap u')
  BY <1>7, <1>9, FS_Union
<1>11. Cardinality(units \cap u') \in Nat
  BY <1>9, FS_Intersection, FS_CardinalityType
<1>12. IsFiniteSet(Pending') /\ Cardinality(Pending') <= Cardinality(Pending) + Cardinality(UnitIds)
  BY <1>4, <1>5, <1>7, <1>8, <1>9, <1>10, <1>11
<1>13. stage # "ready" /\ stage' # "ready"
  BY <1>2
<1> QED
  BY <1>2, <1>3, <1>12, <1>13, CountRemoved

LEMMA ApplyUnitCount ==
  ASSUME Inv, CountInv, NEW l \in u, ApplyUnit(l) PROVE CountInv'
<1>1. /\ stage = "apply" /\ stage' = IF u' = {} THEN "collect" ELSE "apply"
      /\ units' = units /\ kept' = kept /\ given' = given
  BY DEF ApplyUnit, AfterUnit
<1>2. PICK order \in Orders(idx[l]) : Deactivate(order)
  BY DEF ApplyUnit
<1>3. Ids' = Ids
  BY DEF ApplyUnit, Ids
<1>4. idx[l] \in SUBSET ActiveIds
  BY <1>1 DEF Inv, UnitsInv, SimplifyStoreInv, IdxExact, IdxLists, Used
<1>5. IsFiniteSet(idx[l]) /\ Cardinality(idx[l]) \in Nat
  BY <1>4, SlotsFinite, FS_CardinalityType DEF ActiveIds, Inv, SimplifyStoreInv
<1>6. Pending' = Pending
  BY <1>1 DEF Pending
<1>7. IsFiniteSet(Pending') /\ Cardinality(Pending') <= Cardinality(Pending) + Cardinality(idx[l])
  BY <1>5, <1>6, SetsFinite
<1>8. stage # "ready" /\ stage' # "ready"
  BY <1>1
<1> QED
  BY <1>1, <1>2, <1>3, <1>4, <1>7, <1>8, CountRemoved

LEMMA StartReAddingCount ==
  ASSUME Inv, CountInv, StartReAdding PROVE CountInv'
<1>1. /\ stage = "readd" /\ u' = units /\ stage' = IF units = {} THEN "subsume" ELSE "adding"
      /\ kept' = kept /\ given' = given /\ clauses' = clauses /\ active' = active
      /\ nbActive' = nbActive
  BY DEF StartReAdding, storeVars
<1>2. Ids' = Ids /\ ActiveIds' = ActiveIds /\ Used' = Used
  BY <1>1 DEF Ids, ActiveIds, Used
<1>3. Pending' = Pending
  BY <1>1 DEF Pending
<1> QED
  BY <1>1, <1>2, <1>3 DEF CountInv

LEMMA ReAddUnitCount ==
  ASSUME Inv, CountInv, NEW l \in u, ReAddUnit(l) PROVE CountInv'
<1>1. /\ stage = "adding" /\ u' = u \ {l} /\ stage' = IF u' = {} THEN "subsume" ELSE "adding"
      /\ kept' = kept /\ given' = given /\ AddClause({l})
  BY DEF ReAddUnit
<1>2. CounterExact /\ StoreTypes
  BY CountModulo
<1>3. Used = ActiveIds /\ Used' = ActiveIds'
  BY <1>1 DEF Used
<1>4. NextSlot \notin ActiveIds
  BY <1>3, NextSlotFacts DEF Inv
<1>5. ActiveIds' = ActiveIds \cup {NextSlot} /\ CounterExact'
      /\ Cardinality(ActiveIds') = Cardinality(ActiveIds) + 1
  BY <1>1, <1>2, <1>4, AddClauseCounts
<1>6. Pending = u /\ Pending' = u \ {l}
  BY <1>1 DEF Pending
<1>7. IsFiniteSet(Used) /\ Cardinality(Used) \in Nat /\ IsFiniteSet(u) /\ Cardinality(u) \in Nat
  BY SetsFinite
<1>8. IsFiniteSet(Used') /\ Cardinality(Used') = Cardinality(Used) + 1
  BY <1>3, <1>5, <1>7, FS_AddElement
<1>9. IsFiniteSet(Pending') /\ Cardinality(Pending') = Cardinality(Pending) - 1
  BY <1>6, <1>7, FS_RemoveElement
<1>10. Cardinality(Pending') \in Nat
  BY <1>9, FS_CardinalityType
<1>11. Cardinality(Used) + Cardinality(Pending) < 2^Width
  BY DEF CountInv
<1>12. Cardinality(Used') + Cardinality(Pending') = Cardinality(Used) + Cardinality(Pending)
  BY <1>6, <1>7, <1>8, <1>9
<1>13. Cardinality(Used') + Cardinality(Pending') < 2^Width
  BY <1>11, <1>12
<1>14. nbActive' = Cardinality(ActiveIds')
  BY <1>3, <1>5, <1>8, <1>10, <1>13, CountBack
<1>15. kept' \subseteq Ids'
  BY <1>1 DEF CountInv, AddClause, Ids
<1> QED
  BY <1>1, <1>3, <1>13, <1>14, <1>15 DEF CountInv

LEMMA SubsumeCount ==
  ASSUME Inv, CountInv, Subsume PROVE CountInv'
<1>1. /\ stage = "subsume" /\ stage' = stage /\ kept' = kept /\ given' = given
      /\ subsuming \in Ids /\ Used = ActiveIds
  BY DEF Subsume, Used
<1>2. Pending' = Pending
  BY <1>1 DEF Pending
<1>3. CASE active[subsuming]
  <2>1. PICK j \in Rarest(clauses[subsuming]) :
          \E order \in Orders(SubsumedBy(subsuming, j)) : RmClauses(order)
    BY <1>3 DEF Subsume
  <2>2. PICK order \in Orders(SubsumedBy(subsuming, j)) : RmClauses(order)
    BY <2>1
  <2> DEFINE T == SubsumedBy(subsuming, j)
  <2>3. clauses[subsuming] \in SUBSET Literals
    BY <1>1, <1>3, ClauseTypes DEF ActiveIds, Inv
  <2>4. idx[j] \subseteq Used
    BY <2>1, <2>3 DEF Rarest, Inv, SimplifyStoreInv, IdxExact, IdxLists
  <2>5. T \in SUBSET ActiveIds /\ Deactivate(order) /\ Ids' = Ids
    BY <1>1, <2>2, <2>4 DEF SubsumedBy, RmClauses, Ids
  <2>6. IsFiniteSet(T) /\ Cardinality(T) \in Nat
    BY <2>5, SlotsFinite, FS_CardinalityType DEF ActiveIds, Inv, SimplifyStoreInv
  <2>7. IsFiniteSet(Pending') /\ Cardinality(Pending') <= Cardinality(Pending) + Cardinality(T)
    BY <1>2, <2>6, SetsFinite
  <2> HIDE DEF T
  <2>8. order \in Orders(T)
    BY <2>2 DEF T
  <2> QED
    BY <1>1, <2>5, <2>7, <2>8, CountRemoved
<1>4. CASE ~active[subsuming]
  <2>1. clauses' = clauses /\ active' = active /\ nbActive' = nbActive
    BY <1>4 DEF Subsume, storeVars
  <2>2. Ids' = Ids /\ ActiveIds' = ActiveIds /\ Used' = Used
    BY <1>1, <2>1 DEF Ids, ActiveIds, Used
  <2> QED
    BY <1>1, <1>2, <2>1, <2>2 DEF CountInv
<1> QED
  BY <1>3, <1>4

LEMMA EndSubsumptionCount ==
  ASSUME Inv, CountInv, EndSubsumption PROVE CountInv'
<1>1. /\ stage = "subsume" /\ stage' = "ready" /\ kept' = ActiveIds /\ given' = given
      /\ clauses' = clauses /\ active' = active /\ nbActive' = nbActive
  BY DEF EndSubsumption, storeVars
<1>2. Ids' = Ids /\ ActiveIds' = ActiveIds /\ Used' = Used
  BY <1>1 DEF Ids, ActiveIds, Used
<1>3. Pending' = Pending
  BY <1>1 DEF Pending
<1>4. kept' \subseteq Ids'
  BY <1>1, <1>2 DEF ActiveIds
<1> QED
  BY <1>1, <1>2, <1>3, <1>4 DEF CountInv

\* set_active counts what it changes.
LEMMA SetActiveCount ==
  ASSUME Inv, CountInv, NEW id \in kept, NEW v \in BOOLEAN, SetActive(id, v) PROVE CountInv'
<1>1. /\ stage = "ready" /\ stage' = stage /\ kept' = kept /\ given' = given
      /\ clauses' = clauses /\ active' = [active EXCEPT ![id] = v]
      /\ nbActive' = CountChange(id, v)
  BY DEF SetActive
<1>2. Ids' = Ids /\ Used' = Used /\ Used = kept
  BY <1>1 DEF Ids, Used
<1>3. Pending' = Pending
  BY <1>1 DEF Pending
<1>4. CounterExact /\ StoreTypes
  BY CountModulo
<1>5. id \in Ids /\ active \in [Ids -> BOOLEAN] /\ kept \subseteq Ids /\ ActiveIds \subseteq kept
  BY <1>2, <1>4 DEF CountInv, StoreTypes
<1>6. IsFiniteSet(ActiveIds) /\ Cardinality(ActiveIds) \in Nat
  BY <1>4, ActiveFinite
<1>7. ActiveIds' = IF v THEN ActiveIds \cup {id} ELSE ActiveIds \ {id}
  BY <1>1, <1>2, <1>5 DEF ActiveIds
<1>8. ActiveIds' \subseteq Used'
  BY <1>2, <1>5, <1>7
<1>9. IsFiniteSet(Used') /\ Cardinality(Used') \in Nat /\ Cardinality(Pending') \in Nat
      /\ Cardinality(Used') + Cardinality(Pending') < 2^Width
  BY <1>2, <1>3, SetsFinite DEF CountInv
<1>10. nbActive = Cardinality(ActiveIds)
  BY DEF CountInv
<1>11. CounterExact'
  <2>1. CASE active[id] /\ ~v
    <3>1. id \in ActiveIds /\ nbActive' = Wrap(nbActive - 1)
      BY <1>1, <1>5, <2>1 DEF ActiveIds, CountChange
    <3>2. Cardinality(ActiveIds') = Cardinality(ActiveIds) - 1
      BY <1>6, <1>7, <2>1, <3>1, FS_RemoveElement
    <3> QED
      BY <1>10, <3>1, <3>2 DEF CounterExact
  <2>2. CASE ~active[id] /\ v
    <3>1. id \notin ActiveIds /\ nbActive' = Wrap(nbActive + 1)
      BY <1>1, <2>2 DEF ActiveIds, CountChange
    <3>2. Cardinality(ActiveIds') = Cardinality(ActiveIds) + 1
      BY <1>6, <1>7, <2>2, <3>1, FS_AddElement
    <3> QED
      BY <1>10, <3>1, <3>2 DEF CounterExact
  <2>3. CASE active[id] = v
    <3>1. ActiveIds' = ActiveIds
      BY <1>5, <1>7, <2>3 DEF ActiveIds
    <3>2. nbActive' = nbActive
      BY <1>1, <1>5, <2>3 DEF CountChange
    <3> QED
      BY <1>4, <3>1, <3>2 DEF CounterExact
  <2> QED
    BY <1>5, <2>1, <2>2, <2>3
<1>12. nbActive' = Cardinality(ActiveIds')
  BY <1>8, <1>9, <1>11, CountBack
<1> QED
  BY <1>1, <1>2, <1>5, <1>8, <1>9, <1>12 DEF CountInv

-----------------------------------------------------------------------------
(* The theorems *)

\* Every loop of preprocessing, and set_active after it, keeps the invariant.
THEOREM InvHolds == SimplifySpec => []Inv
<1>1. SimplifyInit => Inv
  BY InitInv
<1>2. Inv /\ [SimplifyNext]_simplifyVars => Inv'
  <2>1. SUFFICES ASSUME Inv, [SimplifyNext]_simplifyVars PROVE Inv'
    OBVIOUS
  <2>2. CASE RemoveTautologies
    BY <2>1, <2>2, RemoveTautologiesInv
  <2>3. CASE CollectUnits
    BY <2>1, <2>3, CollectUnitsInv
  <2>4. CASE \E l \in u : ApplyUnit(l)
    BY <2>1, <2>4, ApplyUnitInv
  <2>5. CASE StartReAdding
    BY <2>1, <2>5, StartReAddingInv
  <2>6. CASE \E l \in u : ReAddUnit(l)
    BY <2>1, <2>6, ReAddUnitInv
  <2>7. CASE Subsume
    BY <2>1, <2>7, SubsumeInv
  <2>8. CASE EndSubsumption
    BY <2>1, <2>8, EndSubsumptionInv
  <2>9. CASE \E id \in kept, v \in BOOLEAN : SetActive(id, v)
    BY <2>1, <2>9, SetActiveInv
  <2>10. CASE UNCHANGED simplifyVars
    BY <2>1, <2>10, SimplifyStutterInv
  <2> QED
    BY <2>1, <2>2, <2>3, <2>4, <2>5, <2>6, <2>7, <2>8, <2>9, <2>10 DEF SimplifyNext, Preprocess
<1> QED
  BY <1>1, <1>2, PTL DEF SimplifySpec

\* The models of the clauses in use and of the units set aside are at every point those of
\* the formula read.
THEOREM ModelsAlwaysKept == SimplifySpec => []ModelsKept
<1>1. Inv => ModelsKept
  <2>1. SUFFICES ASSUME Inv PROVE ModelsKept
    OBVIOUS
  <2>2. ASSUME NEW m \in Assignments
        PROVE  (\A c \in {clauses[id] : id \in Used} \cup {{l} : l \in units} : Satisfies(m, c))
               <=> Holds(m)
    <3>1. (\A c \in {{l} : l \in units} : Satisfies(m, c)) <=> \A l \in units : l \in m
      <4>1. \A l \in units : Satisfies(m, {l}) <=> l \in m
        BY DEF Satisfies
      <4> QED
        BY <4>1, Zenon
    <3>2. (\A c \in {clauses[id] : id \in Used} : Satisfies(m, c))
          <=> \A id \in Used : Satisfies(m, clauses[id])
      BY Zenon
    <3> QED
      BY <3>1, <3>2 DEF Holds
  <2>3. \A m \in Assignments : Holds(m) <=> \A c \in given : Satisfies(m, c)
    BY <2>1 DEF Inv, Equivalent
  <2> QED
    BY <2>2, <2>3 DEF ModelsKept, Models
<1> QED
  BY <1>1, InvHolds, PTL

\* The index lists exactly the clauses in use, the stack exactly the other slots, each once.
THEOREM StoreAlwaysExact == SimplifySpec => [](IdxExact /\ SlotsSound)
<1>1. Inv => IdxExact /\ SlotsSound
  BY DEF Inv, SimplifyStoreInv
<1> QED
  BY <1>1, InvHolds, PTL

\* When simplify is over, propagation has reached its fixpoint.
THEOREM AlwaysPropagated == SimplifySpec => []Propagated
<1>1. Inv => Propagated
  BY DEF Inv, UnitsInv, Fixpoint, Propagated
<1> QED
  BY <1>1, InvHolds, PTL

\* When subsumption is over, no clause contains another one, the empty clause excepted.
THEOREM AlwaysIrredundant == SimplifySpec => []Irredundant
<1>1. Inv => Irredundant
  BY DEF Inv, SubsumptionInv, Alone, Irredundant, Used
<1> QED
  BY <1>1, InvHolds, PTL

\* Adding a clause never writes to the slot of a clause in use.
THEOREM AddClauseOverwritesNothing ==
  SimplifySpec => [][\A l \in u : ReAddUnit(l) =>
               \A id \in Used : id \in Used' /\ clauses'[id] = clauses[id]]_simplifyVars
<1>1. ASSUME Inv, NEW l \in u, ReAddUnit(l)
      PROVE  \A id \in Used : id \in Used' /\ clauses'[id] = clauses[id]
  <2>1. AddClause({l}) /\ {l} \in SUBSET Literals /\ stage # "ready" /\ stage' # "ready"
    BY <1>1 DEF ReAddUnit, Inv, UnitsInv
  <2>2. /\ Ids' = Ids \cup {NextSlot}
        /\ active' = [id \in Ids \cup {NextSlot} |-> id = NextSlot \/ active[id]]
    BY <2>1 DEF AddClause, Ids
  <2>3. Used' = Used \cup {NextSlot}
    BY <2>1, <2>2 DEF Used, ActiveIds
  <2> QED
    BY <1>1, <2>1, <2>3, AddClauseFacts DEF Inv
<1>2. Inv => \A l \in u : ReAddUnit(l) =>
                \A id \in Used : id \in Used' /\ clauses'[id] = clauses[id]
  BY <1>1
<1> QED
  BY <1>2, InvHolds, PTL

\* The counter never wraps and is at every point the number of active clauses.
THEOREM CountHolds == SimplifySpec => [](Inv /\ CountInv)
<1>1. SimplifyInit => Inv /\ CountInv
  BY InitInv, InitCount
<1>2. Inv /\ CountInv /\ [SimplifyNext]_simplifyVars => CountInv'
  <2>1. SUFFICES ASSUME Inv, CountInv, [SimplifyNext]_simplifyVars PROVE CountInv'
    OBVIOUS
  <2>2. CASE RemoveTautologies
    BY <2>1, <2>2, RemoveTautologiesCount
  <2>3. CASE CollectUnits
    BY <2>1, <2>3, CollectUnitsCount
  <2>4. CASE \E l \in u : ApplyUnit(l)
    BY <2>1, <2>4, ApplyUnitCount
  <2>5. CASE StartReAdding
    BY <2>1, <2>5, StartReAddingCount
  <2>6. CASE \E l \in u : ReAddUnit(l)
    BY <2>1, <2>6, ReAddUnitCount
  <2>7. CASE Subsume
    BY <2>1, <2>7, SubsumeCount
  <2>8. CASE EndSubsumption
    BY <2>1, <2>8, EndSubsumptionCount
  <2>9. CASE \E id \in kept, v \in BOOLEAN : SetActive(id, v)
    BY <2>1, <2>9, SetActiveCount
  <2>10. CASE UNCHANGED simplifyVars
    BY <2>1, <2>10 DEF simplifyVars, storeVars, CountInv, Used, ActiveIds, Ids, Pending
  <2> QED
    BY <2>1, <2>2, <2>3, <2>4, <2>5, <2>6, <2>7, <2>8, <2>9, <2>10 DEF SimplifyNext, Preprocess
<1> QED
  BY <1>1, <1>2, InvHolds, PTL DEF SimplifySpec

\* Types, index, free slots and counter: the store is consistent whatever was read, and
\* although clauses shrink, slots are reused and set_active hides clauses.
THEOREM StoreAlwaysConsistent == SimplifySpec => []StoreConsistent
<1>1. Inv /\ CountInv => StoreConsistent
  <2>1. SUFFICES ASSUME Inv, CountInv PROVE StoreConsistent
    OBVIOUS
  <2>2. nbActive \in 0 .. 2^Width - 1
    <3>1. nbActive = Wrap(Cardinality(ActiveIds)) /\ Cardinality(ActiveIds) \in Nat
      BY <2>1, CountModulo, ActiveFinite DEF CounterExact
    <3> QED
      BY <3>1, WrapFacts
  <2>3. SimplifyTypeOK
    BY <2>1, <2>2 DEF SimplifyTypeOK, StoreTypeOK, Inv, SimplifyStoreInv, StoreTypes, UnitsInv, SubsumptionInv, CountInv
  <2> QED
    BY <2>1, <2>3 DEF StoreConsistent, HeaderExact, Inv, SimplifyStoreInv, CountInv
<1> QED
  BY <1>1, CountHolds, PTL

-----------------------------------------------------------------------------
(* Flips *)

\* The clauses of C an assignment leaves unsatisfied, and those a set of literals touches.
Uns(C, m) == {id \in DOMAIN C : ~Satisfies(m, C[id])}
NbUns(C, m) == Cardinality(Uns(C, m))
Touched(C, F) == {id \in DOMAIN C : \E k \in F : k \in C[id] \/ -k \in C[id]}

\* The literals of a flipped assignment.
LEMMA FlipLiterals ==
  ASSUME NEW m \in Assignments, NEW F \in SUBSET m, NEW l \in Literals
  PROVE  l \in Flip(m, F) <=> IF l \in F \/ -l \in F THEN l \notin m ELSE l \in m
<1>1. m \subseteq Literals /\ F \subseteq Literals
  BY AssignmentLiterals
<1>2. l \in m <=> -l \notin m
  BY AssignmentFacts
<1>3. l \in {-k : k \in F} <=> -l \in F
  <2>1. -(-l) = l
    BY LiteralFacts
  <2>2. ASSUME NEW k \in F, l = -k PROVE -l \in F
    <3>1. -(-k) = k
      BY <1>1, LiteralFacts
    <3> QED
      BY <2>2, <3>1
  <2> QED
    BY <2>1, <2>2
<1> QED
  BY <1>2, <1>3 DEF Flip

LEMMA FlipAssignment ==
  ASSUME NEW m \in Assignments, NEW F \in SUBSET m
  PROVE  Flip(m, F) \in Assignments
<1>1. m \subseteq Literals
  BY AssignmentLiterals
<1>2. Flip(m, F) \in SUBSET Literals
  BY <1>1, LiteralFacts DEF Flip
<1>3. ASSUME NEW v \in Vars PROVE v \in Flip(m, F) <=> -v \notin Flip(m, F)
  <2>1. v \in Literals /\ -v \in Literals /\ -(-v) = v
    BY LiteralFacts DEF Literals
  <2>2. v \in m <=> -v \notin m
    BY <2>1, AssignmentFacts
  <2> QED
    BY <2>1, <2>2, FlipLiterals
<1> QED
  BY <1>2, <1>3, AssignmentIntro

LEMMA TrueOfFacts ==
  ASSUME NEW m \in Assignments, NEW l \in Literals
  PROVE  /\ TrueOf(m, l) \in m /\ TrueOf(m, l) \in Literals
         /\ {TrueOf(m, l), -TrueOf(m, l)} = {l, -l}
<1>1. -l \in Literals /\ -(-l) = l /\ (l \in m <=> -l \notin m)
  BY LiteralFacts, AssignmentFacts
<1> QED
  BY <1>1 DEF TrueOf

\* Clauses that are not touched are satisfied or not as before.
LEMMA FlipUns ==
  ASSUME NEW C, \A id \in DOMAIN C : C[id] \in SUBSET Literals,
         NEW m \in Assignments, NEW F \in SUBSET m
  PROVE  Uns(C, Flip(m, F)) \ Touched(C, F) = Uns(C, m) \ Touched(C, F)
<1>1. ASSUME NEW id \in DOMAIN C, id \notin Touched(C, F)
      PROVE  Satisfies(Flip(m, F), C[id]) <=> Satisfies(m, C[id])
  <2>1. \A l \in C[id] : l \notin F /\ -l \notin F
    <3>1. ASSUME NEW l \in C[id], -l \in F PROVE FALSE
      <4>1. -(-l) = l
        BY LiteralFacts
      <4> QED
        BY <1>1, <3>1, <4>1 DEF Touched
    <3> QED
      BY <1>1, <3>1 DEF Touched
  <2>2. \A l \in C[id] : l \in Flip(m, F) <=> l \in m
    BY <2>1, FlipLiterals
  <2> QED
    BY <2>2 DEF Satisfies
<1> QED
  BY <1>1 DEF Uns

\* Two finite sets that differ only inside T.
LEMMA CountOutside ==
  ASSUME NEW A, NEW B, NEW T, IsFiniteSet(A), IsFiniteSet(B), A \ T = B \ T
  PROVE  /\ Cardinality(A) \in Nat /\ Cardinality(T \cap A) \in Nat
         /\ Cardinality(B) \in Nat /\ Cardinality(T \cap B) \in Nat
         /\ Cardinality(B) = Cardinality(A) - Cardinality(T \cap A) + Cardinality(T \cap B)
<1>1. T \cap A = A \cap T /\ T \cap B = B \cap T
  OBVIOUS
<1>2. IsFiniteSet(A \cap T) /\ IsFiniteSet(B \cap T)
  BY FS_Intersection
<1>3. Cardinality(A \ T) = Cardinality(A) - Cardinality(A \cap T)
  BY FS_Difference
<1>4. Cardinality(B \ T) = Cardinality(B) - Cardinality(B \cap T)
  BY FS_Difference
<1>5. /\ Cardinality(A) \in Nat /\ Cardinality(B) \in Nat
      /\ Cardinality(A \cap T) \in Nat /\ Cardinality(B \cap T) \in Nat
  BY <1>2, FS_CardinalityType
<1>6. Cardinality(A \ T) = Cardinality(B \ T)
  OBVIOUS
<1>7. Cardinality(T \cap A) = Cardinality(A \cap T) /\ Cardinality(T \cap B) = Cardinality(B \cap T)
  BY <1>1
<1> QED
  BY <1>3, <1>4, <1>5, <1>6, <1>7

-----------------------------------------------------------------------------
(* The queries *)

\* The formula as it was read.
StoreInv ==
  /\ clauses \in Seq((SUBSET Literals) \ {{}})
  /\ active = [id \in Ids |-> TRUE]
  /\ idx = [l \in Literals |-> {id \in Ids : l \in clauses[id]}]
  /\ available = <<>>
  /\ nbActive = Len(clauses)
  /\ Len(clauses) < 2^Width
  /\ job \in Jobs

LEMMA StoreFacts ==
  ASSUME StoreInv
  PROVE  /\ StoreTypeOK
         /\ Len(clauses) \in Nat /\ Ids = 1 .. Len(clauses) /\ IsFiniteSet(Ids)
         /\ \A id \in Ids : clauses[id] \in SUBSET Literals
         /\ \A l \in Literals : idx[l] = {id \in Ids : l \in clauses[id]}
<1>1. Len(clauses) \in Nat /\ Ids = 1 .. Len(clauses)
  BY LenProperties DEF StoreInv, Ids
<1>2. \A id \in Ids : clauses[id] \in SUBSET Literals
  BY <1>1, ElementOfSeq DEF StoreInv
<1>3. IsFiniteSet(1 .. Len(clauses))
  BY <1>1, FS_Interval
<1>4. StoreTypeOK
  <2>1. clauses \in Seq(SUBSET Literals)
    BY SeqMonotonic, (SUBSET Literals) \ {{}} \subseteq SUBSET Literals DEF StoreInv
  <2>2. active \in [Ids -> BOOLEAN] /\ idx \in [Literals -> SUBSET Ids] /\ available \in Seq(Ids)
    BY EmptySeq DEF StoreInv
  <2>3. nbActive \in 0 .. 2^Width - 1
    BY <1>1, Sizes DEF StoreInv
  <2> QED
    BY <2>1, <2>2, <2>3 DEF StoreTypeOK
<1>5. \A l \in Literals : idx[l] = {id \in Ids : l \in clauses[id]}
  BY DEF StoreInv
<1> QED
  BY <1>1, <1>2, <1>3, <1>4, <1>5

LEMMA UnsFinite ==
  ASSUME StoreInv, NEW m
  PROVE  IsFiniteSet(Uns(clauses, m)) /\ NbUns(clauses, m) \in Nat
<1>1. Uns(clauses, m) \in SUBSET Ids
  BY DEF Uns, Ids
<1> QED
  BY <1>1, StoreFacts, FS_Subset, FS_CardinalityType DEF NbUns

LEMMA UnsatIs ==
  ASSUME StoreInv, NEW m
  PROVE  /\ \A S \in SUBSET Ids : Unsat(S, m) = S \cap Uns(clauses, m)
         /\ UnsatIds(m) = Uns(clauses, m)
         /\ NbUnsat(m) = NbUns(clauses, m)
         /\ Sat(m) <=> Uns(clauses, m) = {}
         /\ Sat(m) <=> NbUns(clauses, m) = 0
<1>1. \A id \in Ids : active[id]
  BY DEF StoreInv
<1>2. \A S \in SUBSET Ids : Unsat(S, m) = S \cap Uns(clauses, m)
  BY <1>1 DEF Unsat, Uns, Ids
<1>3. UnsatIds(m) = Uns(clauses, m)
  BY <1>1 DEF UnsatIds, Unsat, Uns, Ids
<1>4. IsFiniteSet(Uns(clauses, m))
  BY UnsFinite
<1> QED
  BY <1>2, <1>3, <1>4, FS_EmptySet DEF NbUnsat, Sat, NbUns

\* A satisfying assignment is a model.
LEMMA SatIsModel ==
  ASSUME StoreInv, NEW m \in Assignments, Uns(clauses, m) = {}
  PROVE  m \in Models({clauses[id] : id \in Ids})
BY DEF Models, Uns, Ids

\* What the literals F touch is listed by the index.
LEMMA TouchedIs ==
  ASSUME StoreInv, NEW F \in SUBSET Literals
  PROVE  UNION {idx[k] \cup idx[-k] : k \in F} = Touched(clauses, F)
<1>1. \A k \in F : /\ idx[k] = {id \in Ids : k \in clauses[id]}
                   /\ idx[-k] = {id \in Ids : -k \in clauses[id]}
  BY StoreFacts, LiteralFacts
<1> QED
  BY <1>1 DEF Touched, Ids

LEMMA TouchedByOne ==
  ASSUME StoreInv, NEW m \in Assignments, NEW l \in Literals
  PROVE  idx[l] \cup idx[-l] = Touched(clauses, {TrueOf(m, l)})
<1>1. /\ idx[l] = {id \in Ids : l \in clauses[id]}
      /\ idx[-l] = {id \in Ids : -l \in clauses[id]}
  BY StoreFacts, LiteralFacts
<1>2. {TrueOf(m, l), -TrueOf(m, l)} = {l, -l}
  BY TrueOfFacts
<1>3. \A id : (TrueOf(m, l) \in clauses[id] \/ -TrueOf(m, l) \in clauses[id])
               <=> (l \in clauses[id] \/ -l \in clauses[id])
  BY <1>2
<1> QED
  BY <1>1, <1>3 DEF Touched, Ids

\* A recount after a flip from the count before.
LEMMA FlipRecount ==
  ASSUME StoreInv, NEW m \in Assignments, NEW F \in SUBSET m
  PROVE  LET T == Touched(clauses, F)
             after == Flip(m, F)
         IN  /\ Uns(clauses, after) = (Uns(clauses, m) \ T) \cup (T \cap Uns(clauses, after))
             /\ NbUns(clauses, after) =
                  NbUns(clauses, m) - Cardinality(T \cap Uns(clauses, m))
                                    + Cardinality(T \cap Uns(clauses, after))
             /\ Cardinality(T \cap Uns(clauses, m)) \in Nat
             /\ Cardinality(T \cap Uns(clauses, after)) \in Nat
<1> DEFINE T == Touched(clauses, F)
<1> DEFINE A == Uns(clauses, m)
<1> DEFINE B == Uns(clauses, Flip(m, F))
<1>1. A \ T = B \ T
  BY StoreFacts, FlipUns DEF Ids
<1>2. IsFiniteSet(A) /\ IsFiniteSet(B)
  BY UnsFinite
<1>3. B = (A \ T) \cup (T \cap B)
  BY <1>1
<1>4. /\ Cardinality(T \cap A) \in Nat /\ Cardinality(T \cap B) \in Nat
      /\ Cardinality(B) = Cardinality(A) - Cardinality(T \cap A) + Cardinality(T \cap B)
  <2> HIDE DEF T, A, B
  <2> QED
    BY <1>1, <1>2, CountOutside
<1> QED
  BY <1>3, <1>4 DEF NbUns

\* unsat_clause_ids_flip gives the unsatisfied clauses after the flip.
LEMMA FlipIdsExact ==
  ASSUME StoreInv, NEW m \in Assignments, NEW l \in Literals
  PROVE  FlipIds(m, Uns(clauses, m), l) = Uns(clauses, Flip(m, {TrueOf(m, l)}))
<1> DEFINE T == Touched(clauses, {TrueOf(m, l)})
<1>1. {TrueOf(m, l)} \in SUBSET m
  BY TrueOfFacts
<1>2. idx[l] \cup idx[-l] = T
  BY TouchedByOne
<1>3. T \in SUBSET Ids
  BY DEF Touched, Ids
<1>4. Unsat(T, Flip(m, {TrueOf(m, l)})) = T \cap Uns(clauses, Flip(m, {TrueOf(m, l)}))
  BY <1>3, UnsatIs
<1> HIDE DEF T
<1> QED
  BY <1>1, <1>2, <1>4, FlipRecount DEF FlipIds, T

\* nb_unsat_flip gives their number after the literals L are made true.
LEMMA FlipToExact ==
  ASSUME StoreInv, NEW m \in Assignments, NEW L
  PROVE  LET F == {k \in m : -k \in L}
         IN  FlipToCount(m, NbUns(clauses, m), L) = NbUns(clauses, Flip(m, F))
<1> DEFINE F == {k \in m : -k \in L}
<1> DEFINE T == Touched(clauses, F)
<1>1. F \in SUBSET m /\ F \in SUBSET Literals
  BY AssignmentLiterals
<1> HIDE DEF F
<1>2. UNION {idx[k] \cup idx[-k] : k \in F} = T
  BY <1>1, TouchedIs
<1>3. T \in SUBSET Ids
  BY DEF Touched, Ids
<1>4. /\ Unsat(T, m) = T \cap Uns(clauses, m)
      /\ Unsat(T, Flip(m, F)) = T \cap Uns(clauses, Flip(m, F))
  BY <1>3, UnsatIs
<1>5. FlipToCount(m, NbUns(clauses, m), L)
        = NbUns(clauses, m) - Cardinality(Unsat(T, m)) + Cardinality(Unsat(T, Flip(m, F)))
  BY <1>2 DEF FlipToCount, F
<1> QED
  BY <1>1, <1>4, <1>5, FlipRecount DEF F

\* nb_flip_unsatisfied counts the clauses of both literals separately: no clause with the
\* true one is unsatisfied, before and after.
LEMMA FlipCountExact ==
  ASSUME StoreInv, NEW m \in Assignments, NEW l \in Literals
  PROVE  FlipCount(m, NbUns(clauses, m), l) = NbUns(clauses, Flip(m, {TrueOf(m, l)}))
<1> DEFINE t == TrueOf(m, l)
<1> DEFINE after == Flip(m, {t})
<1> DEFINE T == Touched(clauses, {t})
<1>1. t \in m /\ t \in Literals /\ {t, -t} = {l, -l} /\ {t} \in SUBSET m
  BY TrueOfFacts
<1>2. after \in Assignments
  BY <1>1, FlipAssignment
<1>3. ASSUME NEW a \in Assignments
      PROVE  /\ Cardinality(Unsat(idx[l], a)) \in Nat /\ Cardinality(Unsat(idx[-l], a)) \in Nat
             /\ Cardinality(Unsat(idx[l], a)) + Cardinality(Unsat(idx[-l], a))
                  = Cardinality(T \cap Uns(clauses, a))
  <2> DEFINE P == Unsat(idx[l], a)
  <2> DEFINE Q == Unsat(idx[-l], a)
  <2>1. -l \in Literals
    BY LiteralFacts
  <2>2. idx[l] = {id \in Ids : l \in clauses[id]} /\ idx[-l] = {id \in Ids : -l \in clauses[id]}
    BY <2>1, StoreFacts
  <2>3. P = idx[l] \cap Uns(clauses, a) /\ Q = idx[-l] \cap Uns(clauses, a)
    BY <2>2, UnsatIs
  <2>4. l \in a \/ -l \in a
    BY AssignmentFacts
  <2>5. P \cap Q = {}
    BY <2>2, <2>3, <2>4 DEF Uns, Satisfies
  <2>6. P \cup Q = T \cap Uns(clauses, a)
    BY <2>3, TouchedByOne
  <2>7. IsFiniteSet(Ids) /\ P \in SUBSET Ids /\ Q \in SUBSET Ids
    BY <2>2, <2>3, StoreFacts
  <2>8. IsFiniteSet(P) /\ IsFiniteSet(Q)
    BY <2>7, FS_Subset
  <2> HIDE DEF P, Q
  <2>9. Cardinality(P) \in Nat /\ Cardinality(Q) \in Nat
    BY <2>8, FS_CardinalityType
  <2>10. Cardinality(P \cup Q) = Cardinality(P) + Cardinality(Q) - Cardinality(P \cap Q)
    BY <2>8, FS_Union
  <2>11. Cardinality(P \cap Q) = 0
    BY <2>5, FS_EmptySet
  <2>12. Cardinality(P) + Cardinality(Q) = Cardinality(P \cup Q)
    BY <2>9, <2>10, <2>11
  <2>13. Cardinality(P) + Cardinality(Q) = Cardinality(T \cap Uns(clauses, a))
    BY <2>6, <2>12
  <2> QED
    BY <2>9, <2>13 DEF P, Q
<1> DEFINE a1 == Cardinality(Unsat(idx[l], m))
<1> DEFINE a2 == Cardinality(Unsat(idx[-l], m))
<1> DEFINE b1 == Cardinality(Unsat(idx[l], after))
<1> DEFINE b2 == Cardinality(Unsat(idx[-l], after))
<1>4. FlipCount(m, NbUns(clauses, m), l) = NbUns(clauses, m) - a1 - a2 + b1 + b2
  BY DEF FlipCount
<1>5. /\ NbUns(clauses, m) \in Nat
      /\ NbUns(clauses, after) = NbUns(clauses, m) - Cardinality(T \cap Uns(clauses, m))
                                                   + Cardinality(T \cap Uns(clauses, after))
  BY <1>1, UnsFinite, FlipRecount
<1>6. a1 \in Nat /\ a2 \in Nat /\ a1 + a2 = Cardinality(T \cap Uns(clauses, m))
  BY <1>3
<1>7. b1 \in Nat /\ b2 \in Nat /\ b1 + b2 = Cardinality(T \cap Uns(clauses, after))
  BY <1>2, <1>3
<1> HIDE DEF a1, a2, b1, b2, T
<1> QED
  BY <1>4, <1>5, <1>6, <1>7

-----------------------------------------------------------------------------
(* The inductive invariant *)

ModelSet == {m \in Assignments : Uns(clauses, m) = {}}

RestTypes ==
  /\ TeamTypeOK /\ SplitTypeOK /\ WalkTypeOK
  /\ pc \in {"start", "team", "fill", "filter", "harvest", "clone", "mutate", "walk",
             "done", "aborted"}
  /\ nbDone \in Nat
  /\ rejected \in 0 .. 2^Width - 1
  /\ printed \in Seq(ModelSet)

MethodInv ==
  /\ pc = "team" => job.method = "montecarlo"
  /\ pc \in {"fill", "filter", "harvest", "clone", "mutate", "aborted"} =>
       job.method = "splitting"
  /\ pc = "walk" => job.method = "rwalk"

SamplesInv ==
  /\ Len(printed) <= nbDone /\ nbDone <= job.n
  /\ job.method # "rwalk" => Len(printed) = nbDone
  /\ pc = "done" => nbDone = job.n
  /\ pc = "walk" => nbDone < job.n

\* A thread leaves the loop only when the goal is reached, and what it holds on its way to
\* the critical section is fit.
Goal == IF pc = "team" THEN job.n ELSE job.size

TeamInv ==
  pc \in {"team", "fill"} =>
    /\ count <= Goal
    /\ \A t \in Threads : /\ at[t] \in {"check", "push"} => held[t] \in Assignments
                          /\ t \notin job.team => at[t] = "out"
    /\ \A t \in job.team : at[t] = "out" => count >= Goal
    /\ pc = "team" => /\ count = nbDone
                      /\ \A t \in Threads : at[t] = "push" => Uns(clauses, held[t]) = {}
    /\ pc = "fill" => count = Len(population)

Exact(P) == \A i \in DOMAIN P : P[i].nb = NbUns(clauses, P[i].m)
Under(P, x) == \A i \in DOMAIN P : P[i].nb <= x

\* What an abort may come from.
Excused == job.keep >= job.size \/ (Raced /\ job.block > 1)

PopulationInv ==
  /\ Exact(population)
  /\ pc \in {"filter", "mutate"} => Len(population) = job.size
  /\ pc \in {"clone", "mutate"} => Under(population, thresh)
  /\ pc = "aborted" => Excused

ChainInv ==
  /\ pc = "walk" => chain \in Assignments /\ unsat = Uns(clauses, chain)
  /\ phase = "Burnin" => burninLeft > 0 /\ walked + burninLeft = job.burnin
  /\ phase = "Sampling" => walked >= job.burnin

\* Of the tries of the rejection sampler k are neither rejected nor printed.  Before the
\* last sample is printed they are the models in hand.  Afterwards each of them belongs to
\* a thread that holds a model or will draw no more, and the thread that printed the last
\* sample is such a one as well.
Has(t) == at[t] \in {"check", "push"} /\ Uns(clauses, held[t]) = {}
InHand == {t \in job.team : Has(t)}
Settled == {t \in job.team : at[t] \in {"test", "out"} \/ Has(t)}

Late(k) ==
  /\ Wrap(nbTries - rejected - nbDone) = Wrap(k)
  /\ count < job.n => k = Cardinality(InHand)
  /\ count >= job.n /\ job.n > 0 => k < Cardinality(Settled)
  /\ job.n = 0 => k = 0 /\ \A t \in job.team : at[t] \in {"test", "out"}

TriesInv ==
  job.method = "montecarlo" =>
    /\ pc = "start" => nbTries = 0 /\ rejected = 0 /\ nbDone = 0
    /\ pc = "done" => count >= job.n
    /\ pc \in {"team", "done"} => \E k \in Nat : Late(k)

IInv ==
  /\ StoreInv /\ RestTypes /\ MethodInv
  /\ SamplesInv /\ TeamInv /\ PopulationInv /\ ChainInv /\ TriesInv

-----------------------------------------------------------------------------
(* Frames *)

LEMMA JobFacts ==
  ASSUME StoreInv
  PROVE  /\ job.method \in {"montecarlo", "splitting", "rwalk"}
         /\ job.bound \in SUBSET Assignments
         /\ job.team \in SUBSET Threads /\ job.team # {}
         /\ IsFiniteSet(job.team)
         /\ job.n \in Nat /\ job.size \in Nat \ {0} /\ job.keep \in Nat
         /\ job.block \in Nat \ {0} /\ job.descent \in Nat /\ job.burnin \in Nat
<1>1. job \in JobFields
  BY SamplesAssumption DEF StoreInv
<1>2. job.team \in SUBSET Threads /\ job.team # {}
  BY <1>1 DEF JobFields
<1>3. IsFiniteSet(job.team)
  BY <1>2, SamplesAssumption, FS_Subset
<1>4. job.bound \in SUBSET Assignments
  BY <1>1 DEF JobFields
<1> QED
  BY <1>1, <1>2, <1>3, <1>4 DEF JobFields

LEMMA StoreStays ==
  ASSUME StoreInv, Fixed
  PROVE  StoreInv' /\ clauses' = clauses /\ job' = job
BY DEF Fixed, storeVars, StoreInv, Ids

\* A step of the rejection sampler.
LEMMA TeamFrame ==
  ASSUME IInv, Fixed, UNCHANGED <<splitVars, walkVars>>, pc' \in {"team", "done"}
  PROVE  StoreInv' /\ SplitTypeOK' /\ WalkTypeOK' /\ PopulationInv' /\ ChainInv'
<1>1. StoreInv' /\ clauses' = clauses /\ job' = job
  BY StoreStays DEF IInv
<1>2. /\ population' = population /\ thresh' = thresh /\ cursor' = cursor /\ sweep' = sweep
      /\ left' = left /\ fresh' = fresh
      /\ chain' = chain /\ unsat' = unsat /\ phase' = phase /\ descentLeft' = descentLeft
      /\ burninLeft' = burninLeft /\ walked' = walked
  BY DEF splitVars, mutateVars, walkVars
<1>3. SplitTypeOK' /\ WalkTypeOK'
  BY <1>1, <1>2 DEF IInv, RestTypes, SplitTypeOK, WalkTypeOK, Ids
<1>4. PopulationInv'
  BY <1>1, <1>2 DEF IInv, PopulationInv, Exact
<1>5. ChainInv'
  BY <1>1, <1>2 DEF IInv, ChainInv
<1> QED
  BY <1>1, <1>3, <1>4, <1>5

\* A step of the splitting sampler.
LEMMA SplitFrame ==
  ASSUME IInv, job.method = "splitting", Fixed, UNCHANGED <<rejected, walkVars>>,
         pc' \notin {"walk", "team"}
  PROVE  StoreInv' /\ WalkTypeOK' /\ ChainInv' /\ TriesInv' /\ job' = job /\ clauses' = clauses
<1>1. StoreInv' /\ clauses' = clauses /\ job' = job
  BY StoreStays DEF IInv
<1>2. /\ chain' = chain /\ unsat' = unsat /\ phase' = phase /\ descentLeft' = descentLeft
      /\ burninLeft' = burninLeft /\ walked' = walked
  BY DEF walkVars
<1>3. WalkTypeOK'
  BY <1>1, <1>2 DEF IInv, RestTypes, WalkTypeOK, Ids
<1>4. ChainInv'
  BY <1>1, <1>2 DEF IInv, ChainInv
<1>5. TriesInv'
  BY <1>1 DEF TriesInv
<1> QED
  BY <1>1, <1>3, <1>4, <1>5

\* A step of the random walk.
LEMMA WalkFrame ==
  ASSUME IInv, job.method = "rwalk", Fixed, UNCHANGED <<teamVars, rejected, splitVars>>,
         pc' \in {"start", "walk", "done"}
  PROVE  /\ StoreInv' /\ TeamTypeOK' /\ SplitTypeOK' /\ MethodInv'
         /\ TeamInv' /\ PopulationInv' /\ TriesInv'
         /\ rejected' \in 0 .. 2^Width - 1 /\ job' = job /\ clauses' = clauses
<1>1. StoreInv' /\ clauses' = clauses /\ job' = job
  BY StoreStays DEF IInv
<1>2. /\ population' = population /\ thresh' = thresh /\ cursor' = cursor /\ sweep' = sweep
      /\ left' = left /\ fresh' = fresh
      /\ at' = at /\ held' = held /\ nbTries' = nbTries /\ count' = count
  BY DEF splitVars, mutateVars, teamVars
<1>3. TeamTypeOK' /\ SplitTypeOK'
  BY <1>2 DEF IInv, RestTypes, TeamTypeOK, SplitTypeOK
<1>4. PopulationInv'
  BY <1>1, <1>2 DEF IInv, PopulationInv, Exact
<1>5. TeamInv' /\ TriesInv' /\ MethodInv'
  BY <1>1 DEF TeamInv, TriesInv, MethodInv
<1> QED
  BY <1>1, <1>3, <1>4, <1>5 DEF IInv, RestTypes

-----------------------------------------------------------------------------
(* The initial states *)

LEMMA InitIInv == Init => IInv
<1> SUFFICES ASSUME Init PROVE IInv
  OBVIOUS
<1>1. job \in JobFields /\ Len(job.formula) < 2^Width
  BY SamplesAssumption DEF Init, SamplesInit
<1>2. job.formula \in Seq((SUBSET Literals) \ {{}})
  BY <1>1 DEF JobFields
<1>3. StoreInv
  BY <1>1, <1>2 DEF Init, SamplesInit, Load, StoreInv, Ids
<1>4. RestTypes
  <2>1. TeamTypeOK
    BY Sizes DEF Init, TeamInit, TeamTypeOK
  <2>2. SplitTypeOK
    BY EmptySeq DEF Init, SplitInit, SplitTypeOK
  <2>3. WalkTypeOK
    BY DEF Init, WalkInit, WalkTypeOK
  <2>4. printed \in Seq(ModelSet)
    BY EmptySeq DEF Init, SamplesInit
  <2> QED
    BY <2>1, <2>2, <2>3, <2>4, Sizes DEF Init, SamplesInit, RestTypes
<1>5. Len(printed) = 0
  BY EmptySeq DEF Init, SamplesInit
<1>6. job.n \in Nat
  BY <1>1 DEF JobFields
<1>7. SamplesInv /\ MethodInv /\ TeamInv /\ TriesInv
  BY <1>5, <1>6 DEF Init, SamplesInit, TeamInit, SamplesInv, MethodInv, TeamInv, TriesInv
<1>8. PopulationInv /\ ChainInv
  BY DEF Init, SamplesInit, SplitInit, WalkInit, PopulationInv, Exact, ChainInv
<1> QED
  BY <1>3, <1>4, <1>7, <1>8 DEF IInv

-----------------------------------------------------------------------------
(* The rejection sampler *)

LEMMA SettledFinite ==
  ASSUME StoreInv
  PROVE  /\ IsFiniteSet(InHand) /\ Cardinality(InHand) \in Nat
         /\ IsFiniteSet(Settled) /\ Cardinality(Settled) \in Nat
         /\ Cardinality(InHand) <= Cardinality(Settled)
         /\ Cardinality(Settled) <= Cardinality(job.team)
         /\ Cardinality(job.team) \in Nat /\ Cardinality(job.team) > 0
<1>1. IsFiniteSet(job.team) /\ job.team # {}
  BY JobFacts
<1>2. Settled \in SUBSET job.team /\ InHand \in SUBSET Settled
  BY DEF Settled, InHand
<1>3. IsFiniteSet(Settled) /\ Cardinality(Settled) <= Cardinality(job.team)
  BY <1>1, <1>2, FS_Subset
<1>4. IsFiniteSet(InHand) /\ Cardinality(InHand) <= Cardinality(Settled)
  BY <1>2, <1>3, FS_Subset
<1> QED
  BY <1>1, <1>3, <1>4, FS_CardinalityType, FS_EmptySet

LEMMA StartSamplingInv ==
  ASSUME IInv, StartSampling, UNCHANGED <<splitVars, walkVars>>
  PROVE  IInv'
<1>1. /\ pc = "start" /\ pc' = "team" /\ job.method = "montecarlo" /\ Fixed
      /\ nbDone' = nbDone /\ printed' = printed /\ rejected' = rejected
      /\ StartTeam
  BY DEF StartSampling
<1>2. StoreInv' /\ SplitTypeOK' /\ WalkTypeOK' /\ PopulationInv' /\ ChainInv'
      /\ clauses' = clauses /\ job' = job
  BY <1>1, TeamFrame, StoreStays DEF IInv
<1>3. /\ \A t \in Threads : at'[t] = (IF t \in job.team THEN "test" ELSE "out")
      /\ nbTries' = 0 /\ count' = 0
  BY <1>1 DEF StartTeam
<1>4. TeamTypeOK'
  BY <1>1, Sizes DEF StartTeam, TeamTypeOK
<1>5. RestTypes' /\ MethodInv' /\ SamplesInv'
  BY <1>1, <1>2, <1>4 DEF IInv, RestTypes, ModelSet, MethodInv, SamplesInv
<1>6. job.n \in Nat /\ job.team \in SUBSET Threads /\ nbDone = 0 /\ nbTries = 0 /\ rejected = 0
  BY <1>1, JobFacts DEF IInv, TriesInv
<1>7. TeamInv'
  BY <1>1, <1>2, <1>3, <1>6 DEF TeamInv, Goal
<1>8. TriesInv'
  <2>1. InHand' = {}
    BY <1>2, <1>3, <1>6 DEF InHand, Has
  <2>2. Cardinality(InHand') = 0
    BY <2>1, FS_EmptySet
  <2>3. Wrap(nbTries - rejected - nbDone)' = Wrap(0)
    BY <1>1, <1>3, <1>6
  <2>4. \A t \in job.team : at'[t] \in {"test", "out"}
    BY <1>3, <1>6
  <2>5. Late(0)'
    BY <1>2, <1>3, <1>6, <2>2, <2>3, <2>4 DEF Late
  <2> QED
    BY <1>1, <2>5 DEF TriesInv
<1> QED
  BY <1>2, <1>5, <1>7, <1>8 DEF IInv

LEMMA EndSamplingInv ==
  ASSUME IInv, EndSampling, UNCHANGED <<splitVars, walkVars>>
  PROVE  IInv'
<1>1. /\ pc = "team" /\ pc' = "done" /\ Fixed /\ Joined
      /\ nbDone' = nbDone /\ printed' = printed /\ rejected' = rejected
      /\ at' = at /\ held' = held /\ nbTries' = nbTries /\ count' = count
  BY DEF EndSampling, teamVars
<1>2. StoreInv' /\ SplitTypeOK' /\ WalkTypeOK' /\ PopulationInv' /\ ChainInv'
      /\ clauses' = clauses /\ job' = job
  BY <1>1, TeamFrame, StoreStays DEF IInv
<1>3. job.method = "montecarlo" /\ job.team \in SUBSET Threads /\ job.team # {} /\ job.n \in Nat
  BY <1>1, JobFacts DEF IInv, MethodInv
<1>4. count >= job.n /\ count <= job.n /\ count = nbDone /\ count \in Nat
  BY <1>1, <1>3 DEF IInv, TeamInv, Goal, Joined, RestTypes, TeamTypeOK
<1>5. TeamTypeOK'
  BY <1>1 DEF IInv, RestTypes, TeamTypeOK
<1>6. RestTypes' /\ MethodInv' /\ SamplesInv' /\ TeamInv'
  BY <1>1, <1>2, <1>3, <1>4, <1>5
     DEF IInv, RestTypes, ModelSet, MethodInv, SamplesInv, TeamInv
<1>7. TriesInv'
  <2>1. PICK k \in Nat : Late(k)
    BY <1>1, <1>3 DEF IInv, TriesInv
  <2>2. Late(k)'
    BY <1>1, <1>2, <2>1 DEF Late, InHand, Settled, Has
  <2> QED
    BY <1>1, <1>2, <1>4, <2>2 DEF TriesInv
<1> QED
  BY <1>2, <1>6, <1>7 DEF IInv

\* What a step of thread t in the team has in common.
TeamStep(t) ==
  /\ pc = "team" /\ pc' = pc /\ Fixed
  /\ t \in Threads /\ t \in job.team /\ at[t] # "out"
  /\ UNCHANGED <<splitVars, walkVars>>

LEMMA TeamStepFacts ==
  ASSUME IInv, NEW t, TeamStep(t)
  PROVE  /\ StoreInv' /\ SplitTypeOK' /\ WalkTypeOK' /\ PopulationInv' /\ ChainInv' /\ MethodInv'
         /\ clauses' = clauses /\ job' = job /\ job.method = "montecarlo" /\ job.n \in Nat
         /\ job.bound \in SUBSET Assignments /\ ModelSet' = ModelSet
         /\ at \in [Threads -> {"test", "try", "check", "push", "out"}]
         /\ held \in [Threads -> Assignments \cup {{}}]
         /\ nbTries \in Nat /\ rejected \in Nat /\ nbDone \in Nat /\ count \in Nat
         /\ count = nbDone /\ count <= job.n
         /\ Len(printed) = nbDone
<1>1. StoreInv' /\ SplitTypeOK' /\ WalkTypeOK' /\ PopulationInv' /\ ChainInv'
      /\ clauses' = clauses /\ job' = job
  BY TeamFrame, StoreStays DEF IInv, TeamStep
<1>2. job.method = "montecarlo" /\ MethodInv'
  BY <1>1 DEF IInv, MethodInv, TeamStep
<1>3. ModelSet' = ModelSet
  BY <1>1 DEF ModelSet
<1>4. /\ at \in [Threads -> {"test", "try", "check", "push", "out"}]
      /\ held \in [Threads -> Assignments \cup {{}}]
      /\ nbTries \in Nat /\ rejected \in Nat /\ nbDone \in Nat /\ count \in Nat
  BY Sizes DEF IInv, RestTypes, TeamTypeOK
<1>5. count = nbDone /\ count <= job.n
  BY DEF IInv, TeamInv, Goal, TeamStep
<1>6. Len(printed) = nbDone
  BY <1>2 DEF IInv, SamplesInv
<1> QED
  BY <1>1, <1>2, <1>3, <1>4, <1>5, <1>6, JobFacts DEF IInv

\* Threads that do not take part have left.
LEMMA InTeam ==
  ASSUME IInv, pc \in {"team", "fill"}, NEW t \in Threads, at[t] # "out"
  PROVE  t \in job.team
BY DEF IInv, TeamInv

LEMMA TestDoneInv ==
  ASSUME IInv, pc = "team", NEW t \in Threads, TestDone(t), UNCHANGED <<splitVars, walkVars>>
  PROVE  IInv'
<1>1. /\ at[t] = "test" /\ at' = [at EXCEPT ![t] = IF count < job.n THEN "try" ELSE "out"]
      /\ held' = held /\ nbTries' = nbTries /\ count' = count
      /\ nbDone' = nbDone /\ printed' = printed /\ rejected' = rejected
      /\ TeamStep(t)
  BY InTeam DEF TestDone, Test, GoTo, TeamStep
<1>2. /\ clauses' = clauses /\ job' = job /\ job.method = "montecarlo" /\ job.n \in Nat
      /\ at \in [Threads -> {"test", "try", "check", "push", "out"}] /\ count \in Nat
      /\ count <= job.n
      /\ StoreInv' /\ SplitTypeOK' /\ WalkTypeOK' /\ PopulationInv' /\ ChainInv' /\ MethodInv'
      /\ ModelSet' = ModelSet
  BY <1>1, TeamStepFacts
<1>3. TeamTypeOK'
  BY <1>1, <1>2 DEF IInv, RestTypes, TeamTypeOK
<1>4. RestTypes' /\ SamplesInv'
  BY <1>1, <1>2, <1>3 DEF IInv, RestTypes, SamplesInv, TeamStep
<1>5. TeamInv'
  BY <1>1, <1>2 DEF IInv, TeamInv, Goal, TeamStep
<1>6. TriesInv'
  <2>1. PICK k \in Nat : Late(k)
    BY <1>2 DEF IInv, TriesInv
  <2>2. InHand' = InHand
    BY <1>1, <1>2 DEF InHand, Has
  <2>3. count >= job.n => Settled' = Settled
    BY <1>1, <1>2 DEF Settled, Has
  <2>4. job.n = 0 => \A w \in job.team : at'[w] \in {"test", "out"}
    <3>1. job.team \in SUBSET Threads
      BY JobFacts DEF IInv
    <3> QED
      BY <1>1, <1>2, <2>1, <3>1 DEF Late
  <2>5. Late(k)'
    BY <1>1, <1>2, <2>1, <2>2, <2>3, <2>4 DEF Late
  <2> QED
    BY <1>1, <2>5 DEF TriesInv, TeamStep
<1> QED
  BY <1>2, <1>4, <1>5, <1>6 DEF IInv

LEMMA DrawSampleInv ==
  ASSUME IInv, pc = "team", NEW t \in Threads, DrawSample(t), UNCHANGED <<splitVars, walkVars>>
  PROVE  IInv'
<1>1. PICK m \in job.bound : held' = [held EXCEPT ![t] = m]
  BY DEF DrawSample, Try
<1>2. /\ at[t] = "try" /\ at' = [at EXCEPT ![t] = "check"]
      /\ nbTries' = Wrap(nbTries + 1) /\ count' = count
      /\ nbDone' = nbDone /\ printed' = printed
      /\ rejected' = (IF Sat(held'[t]) THEN rejected ELSE Wrap(rejected + 1))
      /\ TeamStep(t)
  BY InTeam DEF DrawSample, Try, GoTo, TeamStep
<1>3. /\ clauses' = clauses /\ job' = job /\ job.method = "montecarlo" /\ job.n \in Nat
      /\ job.bound \in SUBSET Assignments
      /\ at \in [Threads -> {"test", "try", "check", "push", "out"}]
      /\ held \in [Threads -> Assignments \cup {{}}]
      /\ nbTries \in Nat /\ rejected \in Nat /\ nbDone \in Nat /\ count \in Nat
      /\ StoreInv' /\ SplitTypeOK' /\ WalkTypeOK' /\ PopulationInv' /\ ChainInv' /\ MethodInv'
      /\ ModelSet' = ModelSet
  BY <1>2, TeamStepFacts
<1>4. m \in Assignments /\ held'[t] = m
  BY <1>1, <1>3
<1>5. Sat(held'[t]) <=> Uns(clauses, m) = {}
  BY <1>4, UnsatIs DEF IInv
<1>6. nbTries' \in 0 .. 2^Width - 1 /\ rejected' \in 0 .. 2^Width - 1
  <2>1. nbTries + 1 \in Int /\ rejected + 1 \in Int
    BY <1>3
  <2> QED
    BY <1>2, <2>1, WrapFacts DEF IInv, RestTypes
<1>7. TeamTypeOK'
  BY <1>1, <1>2, <1>3, <1>4, <1>6 DEF TeamTypeOK
<1>8. RestTypes' /\ SamplesInv'
  BY <1>2, <1>3, <1>6, <1>7 DEF IInv, RestTypes, SamplesInv, TeamStep
<1>9. TeamInv'
  BY <1>1, <1>2, <1>3, <1>4 DEF IInv, TeamInv, Goal, TeamStep
<1>10. TriesInv'
  <2>1. PICK k \in Nat : Late(k)
    BY <1>3 DEF IInv, TriesInv
  <2>2. job.n # 0
    BY <1>2, <2>1 DEF Late, TeamStep
  <2>3. /\ \A w \in Threads \ {t} : at'[w] = at[w] /\ held'[w] = held[w]
        /\ at'[t] = "check" /\ job.team \in SUBSET Threads /\ t \in job.team
    BY <1>1, <1>2, <1>3, JobFacts DEF IInv, TeamStep
  <2> DEFINE old == nbTries - rejected - nbDone
  <2>4. old \in Int /\ Wrap(old) = Wrap(k)
    BY <1>3, <2>1 DEF Late
  <2>5. CASE Uns(clauses, m) = {}
    <3>1. InHand' = InHand \cup {t} /\ t \notin InHand
      BY <1>2, <1>3, <1>4, <2>3, <2>5 DEF InHand, Has
    <3>2. Settled' = Settled \cup {t} /\ t \notin Settled
      BY <1>2, <1>3, <1>4, <2>3, <2>5 DEF Settled, Has
    <3>3. /\ Cardinality(InHand') = Cardinality(InHand) + 1
          /\ Cardinality(Settled') = Cardinality(Settled) + 1
      BY <3>1, <3>2, SettledFinite, FS_AddElement DEF IInv
    <3>4. rejected' = rejected
      BY <1>2, <1>5, <2>5
    <3>5. Wrap(nbTries' - rejected' - nbDone') = Wrap(k + 1)
      <4>1. Wrap(Wrap(nbTries + 1) + (-(rejected + nbDone))) = Wrap((nbTries + 1) + (-(rejected + nbDone)))
        BY <1>3, WrapFacts
      <4>2. nbTries' - rejected' - nbDone' = Wrap(nbTries + 1) + (-(rejected + nbDone))
        <5>1. Wrap(nbTries + 1) \in Int
          BY <1>2, <1>6
        <5> QED
          BY <1>2, <1>3, <3>4, <5>1
      <4>3. (nbTries + 1) + (-(rejected + nbDone)) = old + 1
        BY <1>3
      <4>4. Wrap(old + 1) = Wrap(Wrap(old) + 1) /\ Wrap(Wrap(k) + 1) = Wrap(k + 1)
        BY <2>4, WrapFacts
      <4> QED
        BY <2>4, <4>1, <4>2, <4>3, <4>4
    <3>6. Late(k + 1)'
      <4>1. Cardinality(Settled) \in Nat /\ Cardinality(InHand) \in Nat
        BY SettledFinite DEF IInv
      <4> QED
        BY <1>2, <1>3, <2>1, <2>2, <3>3, <3>5, <4>1 DEF Late
    <3> QED
      BY <1>2, <3>6 DEF TriesInv, TeamStep
  <2>6. CASE Uns(clauses, m) # {}
    <3>1. InHand' = InHand
      BY <1>2, <1>3, <1>4, <2>3, <2>6 DEF InHand, Has
    <3>2. Settled' = Settled
      BY <1>2, <1>3, <1>4, <2>3, <2>6 DEF Settled, Has
    <3>3. rejected' = Wrap(rejected + 1)
      BY <1>2, <1>5, <2>6
    <3>4. Wrap(nbTries' - rejected' - nbDone') = Wrap(k)
      <4> DEFINE a == nbTries + 1
      <4> DEFINE b == rejected + 1
      <4>1. a \in Int /\ b \in Int /\ Wrap(a) \in Int /\ Wrap(b) \in Int
        BY <1>2, <1>3, <1>6, <3>3
      <4>2. nbTries' - rejected' - nbDone' = (Wrap(a) - nbDone) - Wrap(b)
        BY <1>2, <1>3, <3>3, <4>1
      <4>3. Wrap((Wrap(a) - nbDone) - Wrap(b)) = Wrap((Wrap(a) - nbDone) - b)
        <5> HIDE DEF a, b
        <5>1. Wrap(a) - nbDone \in Int
          BY <1>3, <4>1
        <5> QED
          BY <4>1, <5>1, WrapFacts
      <4>4. (Wrap(a) - nbDone) - b = Wrap(a) + (-(nbDone + b))
        BY <1>3, <4>1
      <4>5. Wrap(Wrap(a) + (-(nbDone + b))) = Wrap(a + (-(nbDone + b)))
        BY <1>3, <4>1, WrapFacts
      <4>6. a + (-(nbDone + b)) = old
        BY <1>3
      <4> QED
        BY <2>4, <4>2, <4>3, <4>4, <4>5, <4>6
    <3>5. Late(k)'
      BY <1>2, <1>3, <2>1, <2>2, <3>1, <3>2, <3>4 DEF Late
    <3> QED
      BY <1>2, <3>5 DEF TriesInv, TeamStep
  <2> QED
    BY <2>5, <2>6
<1> QED
  BY <1>3, <1>8, <1>9, <1>10 DEF IInv

LEMMA CheckSampleInv ==
  ASSUME IInv, pc = "team", NEW t \in Threads, CheckSample(t), UNCHANGED <<splitVars, walkVars>>
  PROVE  IInv'
<1> DEFINE wanted == Sat(held[t]) /\ count < job.n
<1>1. /\ at[t] = "check" /\ at' = [at EXCEPT ![t] = IF wanted THEN "push" ELSE "test"]
      /\ held' = (IF wanted THEN held ELSE [held EXCEPT ![t] = {}])
      /\ nbTries' = nbTries /\ count' = count
      /\ nbDone' = nbDone /\ printed' = printed /\ rejected' = rejected
      /\ TeamStep(t)
  BY InTeam DEF CheckSample, Check, GoTo, TeamStep
<1>2. /\ clauses' = clauses /\ job' = job /\ job.method = "montecarlo" /\ job.n \in Nat
      /\ at \in [Threads -> {"test", "try", "check", "push", "out"}]
      /\ held \in [Threads -> Assignments \cup {{}}]
      /\ count \in Nat /\ count <= job.n
      /\ StoreInv' /\ SplitTypeOK' /\ WalkTypeOK' /\ PopulationInv' /\ ChainInv' /\ MethodInv'
      /\ ModelSet' = ModelSet
  BY <1>1, TeamStepFacts
<1>3. Sat(held[t]) <=> Uns(clauses, held[t]) = {}
  BY UnsatIs DEF IInv
<1>4. /\ \A w \in Threads \ {t} : at'[w] = at[w] /\ held'[w] = held[w]
      /\ wanted => at'[t] = "push" /\ held'[t] = held[t]
      /\ ~wanted => at'[t] = "test"
      /\ job.team \in SUBSET Threads /\ t \in job.team
  BY <1>1, <1>2, JobFacts DEF IInv, TeamStep
<1> HIDE DEF wanted
<1>5. TeamTypeOK'
  <2>1. at' \in [Threads -> {"test", "try", "check", "push", "out"}]
    BY <1>1, <1>2
  <2>2. held' \in [Threads -> Assignments \cup {{}}]
    BY <1>1, <1>2
  <2> QED
    BY <1>1, <2>1, <2>2 DEF IInv, RestTypes, TeamTypeOK
<1>6. RestTypes' /\ SamplesInv'
  BY <1>1, <1>2, <1>5 DEF IInv, RestTypes, SamplesInv, TeamStep
<1>7. wanted <=> Uns(clauses, held[t]) = {} /\ count < job.n
  BY <1>3 DEF wanted
<1>8. TeamInv'
  BY <1>1, <1>2, <1>4, <1>7 DEF IInv, TeamInv, Goal, TeamStep
<1>9. TriesInv'
  <2>1. PICK k \in Nat : Late(k)
    BY <1>1, <1>2 DEF IInv, TriesInv
  <2>2. job.n # 0
    BY <1>1, <2>1 DEF Late, TeamStep
  <2>3. count < job.n => InHand' = InHand
    BY <1>1, <1>2, <1>4, <1>7 DEF InHand, Has
  <2>4. Settled \in SUBSET Settled'
    BY <1>1, <1>2, <1>4, <1>7 DEF Settled, Has
  <2>5. Cardinality(Settled) <= Cardinality(Settled')
    <3>1. IsFiniteSet(Settled') /\ Cardinality(Settled') \in Nat
      <4>1. Settled' \in SUBSET job.team /\ IsFiniteSet(job.team)
        BY <1>2, JobFacts DEF IInv, Settled
      <4> QED
        BY <4>1, FS_Subset, FS_CardinalityType
    <3> QED
      BY <2>4, <3>1, FS_Subset
  <2>6. Cardinality(Settled) \in Nat
    BY SettledFinite DEF IInv
  <2>7. Late(k)'
    <3>1. Cardinality(Settled') \in Nat
      <4>1. Settled' \in SUBSET job.team /\ IsFiniteSet(job.team)
        BY <1>2, JobFacts DEF IInv, Settled
      <4> QED
        BY <4>1, FS_Subset, FS_CardinalityType
    <3> QED
      BY <1>1, <1>2, <2>1, <2>2, <2>3, <2>5, <2>6, <3>1 DEF Late
  <2> QED
    BY <1>1, <2>7 DEF TriesInv, TeamStep
<1> QED
  BY <1>2, <1>6, <1>8, <1>9 DEF IInv

LEMMA PushSampleInv ==
  ASSUME IInv, pc = "team", NEW t \in Threads, PushSample(t), UNCHANGED <<splitVars, walkVars>>
  PROVE  IInv'
<1> DEFINE room == count < job.n
<1>1. /\ at[t] = "push" /\ at' = [at EXCEPT ![t] = "test"]
      /\ held' = [held EXCEPT ![t] = {}]
      /\ nbTries' = nbTries /\ rejected' = rejected
      /\ count' = (IF room THEN count + 1 ELSE count)
      /\ nbDone' = (IF room THEN nbDone + 1 ELSE nbDone)
      /\ printed' = (IF room THEN Append(printed, held[t]) ELSE printed)
      /\ TeamStep(t)
  BY InTeam DEF PushSample, Push, Room, GoTo, TeamStep
<1>2. /\ clauses' = clauses /\ job' = job /\ job.method = "montecarlo" /\ job.n \in Nat
      /\ at \in [Threads -> {"test", "try", "check", "push", "out"}]
      /\ held \in [Threads -> Assignments \cup {{}}]
      /\ nbTries \in Nat /\ rejected \in Nat /\ nbDone \in Nat /\ count \in Nat
      /\ count = nbDone /\ count <= job.n /\ Len(printed) = nbDone
      /\ StoreInv' /\ SplitTypeOK' /\ WalkTypeOK' /\ PopulationInv' /\ ChainInv' /\ MethodInv'
      /\ ModelSet' = ModelSet
  BY <1>1, TeamStepFacts
<1>3. held[t] \in ModelSet
  BY <1>1 DEF IInv, TeamInv, TeamStep, ModelSet
<1>4. /\ \A w \in Threads \ {t} : at'[w] = at[w] /\ held'[w] = held[w]
      /\ at'[t] = "test" /\ held'[t] = {}
      /\ job.team \in SUBSET Threads /\ t \in job.team
  BY <1>1, <1>2, JobFacts DEF IInv, TeamStep
<1>5. printed' \in Seq(ModelSet) /\ Len(printed') = nbDone'
  <2>1. printed \in Seq(ModelSet)
    BY DEF IInv, RestTypes
  <2> QED
    BY <1>1, <1>2, <1>3, <2>1, AppendProperties
<1>6. TeamTypeOK'
  BY <1>1, <1>2, <1>4 DEF IInv, RestTypes, TeamTypeOK
<1>7. RestTypes' /\ SamplesInv'
  BY <1>1, <1>2, <1>5, <1>6 DEF IInv, RestTypes, SamplesInv, TeamStep
<1>8. TeamInv'
  BY <1>1, <1>2, <1>4 DEF IInv, TeamInv, Goal, TeamStep
<1>9. TriesInv'
  <2>1. PICK k \in Nat : Late(k)
    BY <1>1, <1>2 DEF IInv, TriesInv, TeamStep
  <2>2. job.n # 0
    BY <1>1, <2>1 DEF Late, TeamStep
  <2>3. InHand' = InHand \ {t} /\ t \in InHand
    BY <1>1, <1>2, <1>3, <1>4 DEF InHand, Has, ModelSet
  <2>4. Settled' = Settled
    BY <1>1, <1>2, <1>3, <1>4 DEF Settled, Has, ModelSet
  <2>5. /\ Cardinality(InHand) \in Nat /\ Cardinality(Settled) \in Nat
        /\ Cardinality(InHand) <= Cardinality(Settled)
        /\ IsFiniteSet(InHand)
    BY SettledFinite DEF IInv
  <2>6. Cardinality(InHand') = Cardinality(InHand) - 1 /\ Cardinality(InHand) > 0
    BY <2>3, <2>5, FS_RemoveElement, FS_EmptySet
  <2>7. CASE room
    <3>1. k = Cardinality(InHand) /\ k - 1 \in Nat
      BY <2>1, <2>5, <2>6, <2>7 DEF Late
    <3>2. Wrap(nbTries' - rejected' - nbDone') = Wrap(k - 1)
      <4> DEFINE old == nbTries - rejected - nbDone
      <4>1. old \in Int /\ Wrap(old) = Wrap(k)
        BY <1>2, <2>1 DEF Late
      <4>2. nbTries' - rejected' - nbDone' = old + (-1)
        BY <1>1, <1>2, <2>7
      <4>3. k - 1 = k + (-1)
        OBVIOUS
      <4> HIDE DEF old
      <4>4. Wrap(old + (-1)) = Wrap(Wrap(old) + (-1)) /\ Wrap(Wrap(k) + (-1)) = Wrap(k + (-1))
        BY <4>1, WrapFacts
      <4> QED
        BY <4>1, <4>2, <4>3, <4>4
    <3>3. Late(k - 1)'
      BY <1>1, <1>2, <2>2, <2>4, <2>5, <2>6, <2>7, <3>1, <3>2 DEF Late
    <3> QED
      BY <1>1, <3>1, <3>3 DEF TriesInv, TeamStep
  <2>8. CASE ~room
    <3>1. Late(k)'
      BY <1>1, <1>2, <2>1, <2>2, <2>4, <2>8 DEF Late
    <3> QED
      BY <1>1, <3>1 DEF TriesInv, TeamStep
  <2> QED
    BY <2>7, <2>8
<1> QED
  BY <1>2, <1>7, <1>8, <1>9 DEF IInv

LEMMA MonteCarloInv ==
  ASSUME IInv, MonteCarloStep, UNCHANGED <<splitVars, walkVars>>
  PROVE  IInv'
BY StartSamplingInv, EndSamplingInv, TestDoneInv, DrawSampleInv, CheckSampleInv, PushSampleInv
   DEF MonteCarloStep, MonteCarloThread

-----------------------------------------------------------------------------
(* The splitting sampler *)

Cubes == [m : Assignments, nb : Nat]

LEMMA PopulationFacts ==
  ASSUME IInv
  PROVE  /\ population \in Seq(Cubes) /\ Len(population) \in Nat
         /\ DOMAIN population = 1 .. Len(population) /\ IsFiniteSet(DOMAIN population)
         /\ \A i \in DOMAIN population :
              /\ population[i] \in Cubes
              /\ population[i].m \in Assignments /\ population[i].nb \in Nat
              /\ population[i].nb = NbUns(clauses, population[i].m)
<1>1. population \in Seq(Cubes)
  BY DEF IInv, RestTypes, SplitTypeOK, Cubes
<1>2. Len(population) \in Nat /\ DOMAIN population = 1 .. Len(population)
  BY <1>1, LenProperties
<1>3. \A i \in DOMAIN population : population[i] \in Cubes
  BY <1>1, <1>2, ElementOfSeq
<1>4. IsFiniteSet(1 .. Len(population))
  BY <1>2, FS_Interval
<1>5. Exact(population)
  BY DEF IInv, PopulationInv
<1> QED
  BY <1>1, <1>2, <1>3, <1>4, <1>5 DEF Cubes, Exact

\* Steps after the team has joined, and before the next one starts.
LEMMA QuietFrame ==
  ASSUME IInv, job.method = "splitting", Still, UNCHANGED <<teamVars, rejected, walkVars>>,
         pc' \in {"start", "filter", "harvest", "clone", "mutate", "aborted"},
         SplitTypeOK', PopulationInv'
  PROVE  IInv'
<1>1. StoreInv' /\ WalkTypeOK' /\ ChainInv' /\ TriesInv' /\ job' = job /\ clauses' = clauses
  BY SplitFrame DEF Still
<1>2. /\ nbDone' = nbDone /\ printed' = printed /\ rejected' = rejected
      /\ at' = at /\ held' = held /\ nbTries' = nbTries /\ count' = count
  BY DEF Still, teamVars
<1>3. TeamTypeOK'
  BY <1>2 DEF IInv, RestTypes, TeamTypeOK
<1>4. RestTypes'
  BY <1>1, <1>2, <1>3 DEF IInv, RestTypes, ModelSet
<1>5. MethodInv' /\ SamplesInv' /\ TeamInv'
  BY <1>1, <1>2 DEF IInv, MethodInv, SamplesInv, TeamInv
<1> QED
  BY <1>1, <1>4, <1>5 DEF IInv

LEMMA EndSplittingInv ==
  ASSUME IInv, EndSplitting, UNCHANGED <<rejected, walkVars>>
  PROVE  IInv'
<1>1. /\ job.method = "splitting" /\ nbDone >= job.n /\ pc = "start" /\ pc' = "done" /\ Fixed
      /\ nbDone' = nbDone /\ printed' = printed /\ rejected' = rejected
      /\ at' = at /\ held' = held /\ nbTries' = nbTries /\ count' = count
      /\ population' = population /\ thresh' = thresh /\ cursor' = cursor /\ sweep' = sweep
      /\ left' = left /\ fresh' = fresh
  BY DEF EndSplitting, Still, teamVars, splitVars, mutateVars
<1>2. StoreInv' /\ WalkTypeOK' /\ ChainInv' /\ TriesInv' /\ job' = job /\ clauses' = clauses
  BY <1>1, SplitFrame
<1>3. TeamTypeOK' /\ SplitTypeOK'
  BY <1>1 DEF IInv, RestTypes, TeamTypeOK, SplitTypeOK
<1>4. RestTypes'
  BY <1>1, <1>2, <1>3 DEF IInv, RestTypes, ModelSet
<1>5. job.n \in Nat /\ nbDone \in Nat
  BY JobFacts DEF IInv, RestTypes
<1>6. MethodInv' /\ SamplesInv' /\ TeamInv'
  BY <1>1, <1>2, <1>5 DEF IInv, MethodInv, SamplesInv, TeamInv
<1>7. PopulationInv'
  BY <1>1, <1>2 DEF IInv, PopulationInv, Exact
<1> QED
  BY <1>2, <1>4, <1>6, <1>7 DEF IInv

LEMMA NewPopulationInv ==
  ASSUME IInv, NewPopulation, UNCHANGED <<rejected, walkVars>>
  PROVE  IInv'
<1>1. /\ job.method = "splitting" /\ pc = "start" /\ pc' = "fill" /\ Fixed /\ StartTeam
      /\ nbDone' = nbDone /\ printed' = printed /\ rejected' = rejected
      /\ population' = <<>> /\ thresh' = thresh /\ cursor' = cursor /\ sweep' = sweep
      /\ left' = left /\ fresh' = fresh
  BY DEF NewPopulation, Still, mutateVars
<1>2. StoreInv' /\ WalkTypeOK' /\ ChainInv' /\ TriesInv' /\ job' = job /\ clauses' = clauses
  BY <1>1, SplitFrame
<1>3. /\ \A t \in Threads : at'[t] = (IF t \in job.team THEN "test" ELSE "out")
      /\ count' = 0
  BY <1>1 DEF StartTeam
<1>4. TeamTypeOK'
  BY <1>1, Sizes DEF StartTeam, TeamTypeOK
<1>5. SplitTypeOK' /\ Len(population') = 0
  BY <1>1, EmptySeq DEF IInv, RestTypes, SplitTypeOK
<1>6. RestTypes'
  BY <1>1, <1>2, <1>4, <1>5 DEF IInv, RestTypes, ModelSet
<1>7. job.size \in Nat /\ job.team \in SUBSET Threads
  BY JobFacts DEF IInv
<1>8. MethodInv' /\ SamplesInv'
  BY <1>1, <1>2 DEF IInv, MethodInv, SamplesInv
<1>9. TeamInv'
  BY <1>1, <1>2, <1>3, <1>5, <1>7 DEF TeamInv, Goal
<1>10. PopulationInv'
  BY <1>1 DEF PopulationInv, Exact
<1> QED
  BY <1>2, <1>6, <1>8, <1>9, <1>10 DEF IInv

LEMMA FillInv ==
  ASSUME IInv, NEW t \in Threads, Fill(t), UNCHANGED <<rejected, walkVars>>
  PROVE  IInv'
<1>1. /\ pc = "fill" /\ pc' = "fill" /\ Fixed
      /\ nbDone' = nbDone /\ printed' = printed /\ rejected' = rejected
      /\ thresh' = thresh /\ cursor' = cursor /\ sweep' = sweep
      /\ left' = left /\ fresh' = fresh
  BY DEF Fill, Still, mutateVars
<1>2. job.method = "splitting"
  BY <1>1 DEF IInv, MethodInv
<1>3. StoreInv' /\ WalkTypeOK' /\ ChainInv' /\ TriesInv' /\ job' = job /\ clauses' = clauses
  BY <1>1, <1>2, SplitFrame
<1>4. /\ at \in [Threads -> {"test", "try", "check", "push", "out"}]
      /\ held \in [Threads -> Assignments \cup {{}}]
      /\ nbTries \in 0 .. 2^Width - 1 /\ nbTries \in Int /\ count \in Nat
      /\ job.size \in Nat /\ job.bound \in SUBSET Assignments
  BY Sizes, JobFacts DEF IInv, RestTypes, TeamTypeOK
<1>5. /\ count <= job.size /\ count = Len(population)
      /\ \A w \in Threads : /\ at[w] \in {"check", "push"} => held[w] \in Assignments
                            /\ w \notin job.team => at[w] = "out"
      /\ \A w \in job.team : at[w] = "out" => count >= job.size
  BY <1>1 DEF IInv, TeamInv, Goal
<1>6. population \in Seq(Cubes) /\ Exact(population)
  BY PopulationFacts DEF IInv, PopulationInv
<1>7. ASSUME TeamTypeOK', population' \in Seq(Cubes), Exact(population'),
             count' <= job.size, count' = Len(population'),
             \A w \in Threads : /\ at'[w] \in {"check", "push"} => held'[w] \in Assignments
                                /\ w \notin job.team => at'[w] = "out",
             \A w \in job.team : at'[w] = "out" => count' >= job.size
      PROVE  IInv'
  <2>1. SplitTypeOK'
    BY <1>1, <1>7 DEF IInv, RestTypes, SplitTypeOK, Cubes
  <2>2. RestTypes'
    BY <1>1, <1>3, <1>7, <2>1 DEF IInv, RestTypes, ModelSet
  <2>3. MethodInv' /\ SamplesInv'
    BY <1>1, <1>2, <1>3 DEF IInv, MethodInv, SamplesInv
  <2>4. TeamInv'
    BY <1>1, <1>3, <1>7 DEF TeamInv, Goal
  <2>5. PopulationInv'
    BY <1>1, <1>3, <1>7 DEF PopulationInv, Exact
  <2> QED
    BY <1>3, <2>2, <2>3, <2>4, <2>5 DEF IInv
<1>8. CASE Test(t, job.size) /\ UNCHANGED population
  <2>1. /\ at[t] = "test" /\ at' = [at EXCEPT ![t] = IF count < job.size THEN "try" ELSE "out"]
        /\ held' = held /\ nbTries' = nbTries /\ count' = count /\ population' = population
    BY <1>8 DEF Test, GoTo
  <2>2. TeamTypeOK'
    BY <1>4, <2>1 DEF TeamTypeOK
  <2> QED
    BY <1>4, <1>5, <1>6, <1>7, <2>1, <2>2
<1>9. CASE Try(t) /\ UNCHANGED population
  <2>1. PICK m \in job.bound : held' = [held EXCEPT ![t] = m]
    BY <1>9 DEF Try
  <2>2. /\ at[t] = "try" /\ at' = [at EXCEPT ![t] = "check"]
        /\ nbTries' = Wrap(nbTries + 1) /\ count' = count /\ population' = population
    BY <1>9 DEF Try, GoTo
  <2>3. nbTries' \in 0 .. 2^Width - 1
    <3>1. nbTries + 1 \in Int
      BY <1>4
    <3> QED
      BY <2>2, <3>1, WrapFacts
  <2>4. TeamTypeOK'
    BY <1>4, <2>1, <2>2, <2>3 DEF TeamTypeOK
  <2> QED
    BY <1>4, <1>5, <1>6, <1>7, <2>1, <2>2, <2>4
<1>10. CASE Check(t, job.size, Fit(held[t])) /\ UNCHANGED population
  <2> DEFINE wanted == Fit(held[t]) /\ count < job.size
  <2>1. /\ at[t] = "check" /\ at' = [at EXCEPT ![t] = IF wanted THEN "push" ELSE "test"]
        /\ held' = (IF wanted THEN held ELSE [held EXCEPT ![t] = {}])
        /\ nbTries' = nbTries /\ count' = count /\ population' = population
    BY <1>10 DEF Check, GoTo
  <2> HIDE DEF wanted
  <2>2. at' \in [Threads -> {"test", "try", "check", "push", "out"}]
    BY <1>4, <2>1
  <2>3. held' \in [Threads -> Assignments \cup {{}}]
    BY <1>4, <2>1
  <2>4. TeamTypeOK'
    BY <1>4, <2>1, <2>2, <2>3 DEF TeamTypeOK
  <2> QED
    BY <1>4, <1>5, <1>6, <1>7, <2>1, <2>4
<1>11. CASE /\ Push(t, job.size)
            /\ population' = IF Room(job.size)
                             THEN Append(population, [m |-> held[t], nb |-> NbUnsat(held[t])])
                             ELSE population
  <2> DEFINE cube == [m |-> held[t], nb |-> NbUnsat(held[t])]
  <2>1. /\ at[t] = "push" /\ at' = [at EXCEPT ![t] = "test"]
        /\ held' = [held EXCEPT ![t] = {}] /\ nbTries' = nbTries
        /\ count' = (IF count < job.size THEN count + 1 ELSE count)
        /\ population' = (IF count < job.size THEN Append(population, cube) ELSE population)
    BY <1>11 DEF Push, GoTo, Room
  <2>2. /\ NbUnsat(held[t]) = NbUns(clauses, held[t]) /\ NbUnsat(held[t]) \in Nat
        /\ held[t] \in Assignments
    BY <1>5, <2>1, UnsatIs, UnsFinite DEF IInv
  <2>3. cube \in Cubes /\ cube.m = held[t] /\ cube.nb = NbUns(clauses, held[t])
    BY <2>2 DEF Cubes
  <2> HIDE DEF cube
  <2>4. /\ population' \in Seq(Cubes) /\ Len(population') = count'
        /\ DOMAIN population = 1 .. Len(population) /\ Len(population) \in Nat
    BY <1>4, <1>5, <1>6, <2>1, <2>3, AppendProperties, LenProperties
  <2>5. Exact(population')
    <3>1. CASE count < job.size
      <4>1. DOMAIN population' = 1 .. Len(population')
        BY <2>4, LenProperties
      <4>2. \A i \in 1 .. Len(population) + 1 :
              population'[i] = IF i = Len(population) + 1 THEN cube ELSE population[i]
        BY <1>6, <2>1, <2>3, <3>1, AppendProperties
      <4>3. Len(population') = Len(population) + 1
        BY <1>5, <2>1, <2>4, <3>1
      <4> QED
        BY <1>6, <2>3, <2>4, <4>1, <4>2, <4>3 DEF Exact
    <3>2. CASE ~(count < job.size)
      BY <1>6, <2>1, <3>2
    <3> QED
      BY <3>1, <3>2
  <2>6. TeamTypeOK'
    BY <1>4, <2>1 DEF TeamTypeOK
  <2> QED
    BY <1>4, <1>5, <1>7, <2>1, <2>4, <2>5, <2>6
<1> QED
  BY <1>8, <1>9, <1>10, <1>11 DEF Fill

\* The team joins when the goal is reached, so that the assertion holds.
LEMMA FilledInv ==
  ASSUME IInv, Filled, UNCHANGED <<rejected, walkVars>>
  PROVE  IInv'
<1>1. /\ pc = "fill" /\ Joined /\ Still /\ UNCHANGED <<teamVars, splitVars>>
      /\ pc' = (IF Len(population) = job.size THEN "filter" ELSE "aborted")
  BY DEF Filled
<1>2. job.method = "splitting" /\ job.team \in SUBSET Threads /\ job.team # {} /\ job.size \in Nat
  BY <1>1, JobFacts DEF IInv, MethodInv
<1>3. Len(population) = job.size
  BY <1>1, <1>2 DEF IInv, TeamInv, Goal, Joined, RestTypes, TeamTypeOK
<1>4. /\ population' = population /\ thresh' = thresh /\ cursor' = cursor /\ sweep' = sweep
      /\ left' = left /\ fresh' = fresh /\ clauses' = clauses /\ job' = job
  BY <1>1 DEF splitVars, mutateVars, Still, Fixed, storeVars
<1>5. SplitTypeOK'
  BY <1>4 DEF IInv, RestTypes, SplitTypeOK
<1>6. PopulationInv'
  BY <1>1, <1>3, <1>4 DEF IInv, PopulationInv, Exact
<1> QED
  BY <1>1, <1>2, <1>3, <1>5, <1>6, QuietFrame

\* The filter keeps the cubes up to the threshold.  That is none only if the threshold was
\* read behind the population.
LEMMA FilterInv ==
  ASSUME IInv, Filter, UNCHANGED <<rejected, walkVars>>
  PROVE  IInv'
<1> DEFINE S == {i \in DOMAIN population : population[i].nb <= thresh'}
<1>1. /\ pc = "filter" /\ Still /\ UNCHANGED <<teamVars, mutateVars>>
      /\ thresh' \in Threshes
      /\ pc' = IF population' = <<>> THEN "aborted"
               ELSE IF \E i \in DOMAIN population' : population'[i].nb = 0 THEN "harvest"
               ELSE "clone"
  BY DEF Filter
<1>2. PICK order \in Ascending(S) : population' = [j \in DOMAIN order |-> population[order[j]]]
  BY DEF Filter
<1>3. /\ job.method = "splitting" /\ Len(population) = job.size
      /\ job.keep \in Nat /\ job.size \in Nat
  BY <1>1, JobFacts DEF IInv, MethodInv, PopulationInv
<1>4. /\ cursor' = cursor /\ sweep' = sweep /\ left' = left /\ fresh' = fresh
      /\ clauses' = clauses /\ job' = job
  BY <1>1 DEF mutateVars, Still, Fixed, storeVars
<1>5. S \in SUBSET DOMAIN population /\ IsFiniteSet(S)
  BY PopulationFacts, FS_Subset
<1>6. /\ order \in Seq(S) /\ DOMAIN order = 1 .. Len(order) /\ SlotsOf(order) = S
      /\ Len(order) \in Nat /\ \A j \in DOMAIN order : order[j] \in S
  <2>1. order \in Orders(S)
    BY <1>2 DEF Ascending
  <2> HIDE DEF S
  <2>2. order \in Seq(S) /\ DOMAIN order = 1 .. Len(order) /\ SlotsOf(order) = S
    BY <1>5, <2>1, OrderFacts
  <2> QED
    BY <2>2, LenProperties, ElementOfSeq
<1>7. \A j \in DOMAIN order : /\ order[j] \in DOMAIN population
                              /\ population[order[j]] \in Cubes
                              /\ population[order[j]].nb = NbUns(clauses, population[order[j]].m)
                              /\ population[order[j]].nb <= thresh'
  BY <1>6, PopulationFacts
<1>8. population' \in Seq(Cubes)
  <2>1. population' \in [1 .. Len(order) -> Cubes]
    BY <1>2, <1>6, <1>7
  <2> QED
    BY <1>6, <2>1, SeqDef
<1>9. thresh' \in Nat
  <2>1. CASE job.keep < Len(population)
    BY <1>1, <2>1, PopulationFacts DEF Threshes
  <2>2. CASE ~(job.keep < Len(population))
    BY <1>1, <2>2, StoreFacts DEF Threshes, IInv
  <2> QED
    BY <2>1, <2>2
<1>10. SplitTypeOK'
  BY <1>4, <1>8, <1>9 DEF IInv, RestTypes, SplitTypeOK, Cubes
<1>11. Exact(population') /\ Under(population', thresh')
  BY <1>2, <1>7 DEF Exact, Under
<1>12. population' = <<>> => job.keep >= job.size
  <2>1. SUFFICES ASSUME job.keep < Len(population), population' = <<>> PROVE FALSE
    BY <1>3
  <2>2. PICK i \in DOMAIN population : thresh' = population[i].nb
    BY <1>1, <2>1 DEF Threshes
  <2>3. i \in S
    BY <2>2, PopulationFacts
  <2>4. PICK j \in DOMAIN order : order[j] = i
    BY <1>6, <2>3 DEF SlotsOf
  <2>5. DOMAIN population' = DOMAIN order
    BY <1>2
  <2>6. Len(population') = 0 /\ DOMAIN population' = 1 .. Len(population')
    BY <1>8, <2>1, EmptySeq, LenProperties
  <2> QED
    BY <2>4, <2>5, <2>6
<1>13. PopulationInv'
  BY <1>1, <1>4, <1>11, <1>12 DEF PopulationInv, Exact, Under, Excused
<1>14. pc' \in {"aborted", "harvest", "clone"}
  BY <1>1
<1> HIDE DEF S
<1> QED
  BY <1>1, <1>3, <1>10, <1>13, <1>14, QuietFrame

\* Only cubes without unsatisfied clauses are printed, and no more than are missing.
LEMMA HarvestInv ==
  ASSUME IInv, Harvest, UNCHANGED <<rejected, walkVars>>
  PROVE  IInv'
<1> DEFINE want == job.n - nbDone
<1> DEFINE k == IF Cardinality(Solved) < want THEN Cardinality(Solved) ELSE want
<1>1. /\ pc = "harvest" /\ pc' = "start" /\ Fixed /\ rejected' = rejected
      /\ at' = at /\ held' = held /\ nbTries' = nbTries /\ count' = count
      /\ population' = population /\ thresh' = thresh /\ cursor' = cursor /\ sweep' = sweep
      /\ left' = left /\ fresh' = fresh
  BY DEF Harvest, teamVars, splitVars, mutateVars
<1>2. PICK S \in SUBSET Solved : \E order \in Orders(S) :
        /\ Cardinality(S) = k
        /\ printed' = printed \o [j \in 1 .. k |-> population[order[j]].m]
        /\ nbDone' = nbDone + k
  BY DEF Harvest
<1>3. PICK order \in Orders(S) :
        /\ Cardinality(S) = k
        /\ printed' = printed \o [j \in 1 .. k |-> population[order[j]].m]
        /\ nbDone' = nbDone + k
  BY <1>2
<1>4. /\ job.method = "splitting" /\ job.n \in Nat /\ nbDone \in Nat /\ nbDone <= job.n
      /\ printed \in Seq(ModelSet) /\ Len(printed) = nbDone
  BY <1>1, JobFacts DEF IInv, MethodInv, SamplesInv, RestTypes
<1>5. IsFiniteSet(Solved) /\ Cardinality(Solved) \in Nat
  <2>1. Solved \in SUBSET DOMAIN population
    BY DEF Solved
  <2> QED
    BY <2>1, PopulationFacts, FS_Subset, FS_CardinalityType
<1>6. k \in Nat /\ nbDone + k <= job.n
  BY <1>4, <1>5
<1> DEFINE new == [j \in 1 .. k |-> population[order[j]].m]
<1>7. new \in Seq(ModelSet) /\ Len(new) = k
  <2>1. order \in [1 .. k -> S]
    BY <1>3 DEF Orders
  <2>2. \A i \in Solved : population[i].m \in ModelSet
    <3>1. SUFFICES ASSUME NEW i \in Solved PROVE population[i].m \in ModelSet
      OBVIOUS
    <3>2. i \in DOMAIN population /\ population[i].nb = 0
      BY DEF Solved
    <3>3. population[i].m \in Assignments /\ NbUns(clauses, population[i].m) = 0
      BY <3>2, PopulationFacts
    <3> QED
      BY <3>3, UnsatIs DEF IInv, ModelSet
  <2> HIDE DEF k
  <2>3. new \in [1 .. k -> ModelSet]
    BY <2>1, <2>2
  <2>4. new \in Seq(ModelSet)
    BY <1>6, <2>3, SeqDef
  <2> QED
    BY <1>6, <2>3, <2>4, LenProperties
<1> HIDE DEF k, new
<1>8. printed' \in Seq(ModelSet) /\ Len(printed') = nbDone'
  <2>1. printed' = printed \o new /\ nbDone' = nbDone + k
    BY <1>3 DEF new
  <2>2. printed \o new \in Seq(ModelSet) /\ Len(printed \o new) = Len(printed) + Len(new)
    BY <1>4, <1>7, ConcatProperties
  <2> QED
    BY <1>4, <1>7, <2>1, <2>2
<1>9. StoreInv' /\ WalkTypeOK' /\ ChainInv' /\ TriesInv' /\ job' = job /\ clauses' = clauses
  BY <1>1, <1>4, SplitFrame
<1>10. TeamTypeOK' /\ SplitTypeOK'
  BY <1>1 DEF IInv, RestTypes, TeamTypeOK, SplitTypeOK
<1>11. nbDone' \in Nat /\ nbDone' <= job.n
  BY <1>3, <1>4, <1>6
<1>12. RestTypes'
  BY <1>1, <1>8, <1>9, <1>10, <1>11 DEF IInv, RestTypes, ModelSet
<1>13. MethodInv' /\ TeamInv'
  BY <1>1 DEF MethodInv, TeamInv
<1>14. SamplesInv'
  BY <1>1, <1>8, <1>9, <1>11 DEF SamplesInv
<1>15. PopulationInv'
  BY <1>1, <1>9 DEF IInv, PopulationInv, Exact
<1> QED
  BY <1>9, <1>12, <1>13, <1>14, <1>15 DEF IInv

LEMMA CloneInv ==
  ASSUME IInv, Clone, UNCHANGED <<rejected, walkVars>>
  PROVE  IInv'
<1>1. /\ pc = "clone" /\ pc' = "mutate" /\ Still /\ UNCHANGED teamVars /\ thresh' = thresh
      /\ cursor' = 1 /\ sweep' = 0 /\ left' = Cardinality(Vars) /\ fresh' = Vars
  BY DEF Clone, StartSweep
<1>2. PICK g \in Clonings : population' = [j \in 1 .. job.size |-> population[g[j]]]
  BY DEF Clone
<1>3. job.method = "splitting" /\ job.size \in Nat /\ Under(population, thresh)
  BY <1>1, JobFacts DEF IInv, MethodInv, PopulationInv
<1>4. clauses' = clauses /\ job' = job
  BY <1>1 DEF Still, Fixed, storeVars
<1>5. g \in [1 .. job.size -> 1 .. Len(population)]
  BY DEF Clonings
<1>6. \A j \in 1 .. job.size :
        /\ population[g[j]] \in Cubes /\ population[g[j]].nb <= thresh
        /\ population[g[j]].nb = NbUns(clauses, population[g[j]].m)
  BY <1>3, <1>5, PopulationFacts DEF Under
<1>7. population' \in [1 .. job.size -> Cubes]
  BY <1>2, <1>6
<1>8. population' \in Seq(Cubes) /\ Len(population') = job.size
  BY <1>3, <1>7, SeqDef, LenProperties
<1>9. SplitTypeOK'
  <2>1. Cardinality(Vars) \in Nat
    BY StoreAssumption, FS_CardinalityType
  <2> QED
    BY <1>1, <1>8, <2>1 DEF IInv, RestTypes, SplitTypeOK, Cubes
<1>10. PopulationInv'
  BY <1>1, <1>2, <1>4, <1>6, <1>8 DEF PopulationInv, Exact, Under
<1> QED
  BY <1>1, <1>3, <1>9, <1>10, QuietFrame

\* Making literals of different variables true flips those that were false.
LEMMA AssignFlips ==
  ASSUME NEW m \in Assignments, NEW lits, NEW L, L = SlotsOf(lits), L \in SUBSET Literals,
         \A l \in L : -l \notin L
  PROVE  Assign(m, lits) = Flip(m, {k \in m : -k \in L})
<1> DEFINE F == {k \in m : -k \in L}
<1>1. F \in SUBSET m /\ m \subseteq Literals
  BY AssignmentLiterals
<1>2. Assign(m, lits) = (m \ {-l : l \in L}) \cup L
  <2>1. \A i, j \in DOMAIN lits : lits[j] # -lits[i]
    BY DEF SlotsOf
  <2>2. {i \in DOMAIN lits : \A j \in DOMAIN lits : j > i => lits[j] # -lits[i]} = DOMAIN lits
    BY <2>1
  <2> QED
    BY <2>2 DEF Assign, SlotsOf
<1>3. Assign(m, lits) \subseteq Literals /\ Flip(m, F) \subseteq Literals
  BY <1>1, <1>2, FlipAssignment, AssignmentLiterals
<1>4. ASSUME NEW l \in Literals
      PROVE  l \in Assign(m, lits) <=> l \in Flip(m, F)
  <2>1. -l \in Literals /\ -(-l) = l
    BY LiteralFacts
  <2>2. l \in m <=> -l \notin m
    BY AssignmentFacts
  <2>3. l \in {-k : k \in L} <=> -l \in L
    <3>1. ASSUME NEW k \in L, l = -k PROVE -l \in L
      <4>1. -(-k) = k
        BY LiteralFacts
      <4> QED
        BY <3>1, <4>1
    <3> QED
      BY <2>1, <3>1
  <2>4. /\ l \in F <=> l \in m /\ -l \in L
        /\ -l \in F <=> -l \in m /\ l \in L
    BY <2>1
  <2>5. l \in L => -l \notin L
    OBVIOUS
  <2>6. l \in Flip(m, F) <=> IF l \in F \/ -l \in F THEN l \notin m ELSE l \in m
    BY <1>1, FlipLiterals
  <2> HIDE DEF F
  <2> QED
    BY <1>2, <2>2, <2>3, <2>4, <2>5, <2>6
<1> QED
  BY <1>3, <1>4

\* The assertions of mutate_cube hold on variables that differ.
LEMMA SoundOnDistinct ==
  ASSUME StoreInv, NEW c \in Cubes, c.nb = NbUns(clauses, c.m), c.nb <= thresh,
         NEW vs, \A i \in DOMAIN vs : vs[i] \in Vars,
         \A i, j \in DOMAIN vs : vs[i] = vs[j] => i = j
  PROVE  BlockSound(c, vs)
<1> DEFINE block(b) == [j \in DOMAIN vs |-> IF b[j] THEN vs[j] ELSE -vs[j]]
<1> DEFINE blocks == {block(b) : b \in [DOMAIN vs -> BOOLEAN]}
<1> DEFINE nb(lits) == FlipToCount(c.m, c.nb, SlotsOf(lits))
<1>1. c.m \in Assignments /\ c.m \subseteq Literals
  BY AssignmentLiterals DEF Cubes
<1>2. ASSUME NEW lits \in blocks
      PROVE  /\ SlotsOf(lits) \in SUBSET Literals
             /\ \A l \in SlotsOf(lits) : -l \notin SlotsOf(lits)
  <2>1. PICK b \in [DOMAIN vs -> BOOLEAN] : lits = block(b)
    BY <1>2
  <2>2. \A j \in DOMAIN vs : /\ lits[j] = vs[j] \/ lits[j] = -vs[j]
                             /\ vs[j] \in Int /\ vs[j] > 0
                             /\ vs[j] \in Literals /\ -vs[j] \in Literals
    <3>1. SUFFICES ASSUME NEW j \in DOMAIN vs
                   PROVE  /\ lits[j] = vs[j] \/ lits[j] = -vs[j]
                          /\ vs[j] \in Int /\ vs[j] > 0
                          /\ vs[j] \in Literals /\ -vs[j] \in Literals
      OBVIOUS
    <3>2. lits[j] = vs[j] \/ lits[j] = -vs[j]
      BY <2>1
    <3>3. \A v \in Vars : v \in Int /\ v > 0 /\ v \in Literals /\ -v \in Literals
      BY StoreAssumption DEF Literals
    <3> QED
      BY <3>2, <3>3
  <2>3. DOMAIN lits = DOMAIN vs
    BY <2>1
  <2>4. ASSUME NEW i \in DOMAIN vs, NEW j \in DOMAIN vs, lits[i] = -lits[j]
        PROVE  FALSE
    <3>1. vs[i] = vs[j]
      BY <2>2, <2>4
    <3>2. i = j
      BY <3>1
    <3> QED
      BY <2>2, <2>4, <3>2
  <2> QED
    BY <2>2, <2>3, <2>4 DEF SlotsOf
<1>3. ASSUME NEW lits \in blocks
      PROVE  /\ nb(lits) = NbUns(clauses, Flip(c.m, {k \in c.m : -k \in SlotsOf(lits)}))
             /\ nb(lits) = NbUnsat(Assign(c.m, lits))
  <2>1. nb(lits) = NbUns(clauses, Flip(c.m, {k \in c.m : -k \in SlotsOf(lits)}))
    BY <1>1, FlipToExact
  <2>2. /\ SlotsOf(lits) \in SUBSET Literals
        /\ \A l \in SlotsOf(lits) : -l \notin SlotsOf(lits)
    BY <1>2
  <2>3. Assign(c.m, lits) = Flip(c.m, {k \in c.m : -k \in SlotsOf(lits)})
    BY <1>1, <2>2, AssignFlips
  <2> QED
    BY <2>1, <2>3, UnsatIs
<1>4. ASSUME NEW lits \in blocks, SlotsOf(lits) \subseteq c.m
      PROVE  nb(lits) = c.nb
  <2>1. \A k \in c.m : -k \notin SlotsOf(lits)
    BY <1>1, <1>4, AssignmentFacts
  <2>2. {k \in c.m : -k \in SlotsOf(lits)} = {}
    BY <2>1
  <2>3. Flip(c.m, {}) = c.m
    BY DEF Flip
  <2> QED
    BY <1>3, <2>2, <2>3
<1>5. \E lits \in blocks : nb(lits) <= thresh
  <2> DEFINE b == [j \in DOMAIN vs |-> vs[j] \in c.m]
  <2> DEFINE lits == block(b)
  <2>1. b \in [DOMAIN vs -> BOOLEAN]
    OBVIOUS
  <2>2. lits \in blocks
    BY <2>1
  <2>3. \A j \in DOMAIN vs : lits[j] \in c.m
    <3>1. SUFFICES ASSUME NEW j \in DOMAIN vs PROVE lits[j] \in c.m
      OBVIOUS
    <3>2. vs[j] \in Literals
      BY DEF Literals
    <3> QED
      BY <1>1, <3>2, AssignmentFacts
  <2>4. SlotsOf(lits) \subseteq c.m
    BY <2>3 DEF SlotsOf
  <2> HIDE DEF lits, blocks
  <2>5. nb(lits) = c.nb
    BY <1>4, <2>2, <2>4
  <2> QED
    BY <2>2, <2>5
<1>6. BlockSound(c, vs) <=> /\ \A lits \in blocks : nb(lits) = NbUnsat(Assign(c.m, lits))
                            /\ \A lits \in blocks : SlotsOf(lits) \subseteq c.m => nb(lits) = c.nb
                            /\ \E lits \in blocks : nb(lits) <= thresh
  BY DEF BlockSound
<1> HIDE DEF blocks, nb
<1> QED
  BY <1>3, <1>4, <1>5, <1>6

\* The step of a cube in the middle of its mutation.
LEMMA MutatingFacts ==
  ASSUME IInv, pc = "mutate", cursor \in DOMAIN population
  PROVE  /\ job.method = "splitting" /\ Len(population) = job.size
         /\ job.block \in Nat \ {0} /\ job.size \in Nat
         /\ cursor \in 1 .. Len(population)
         /\ population[cursor] \in Cubes
         /\ population[cursor].m \in Assignments
         /\ population[cursor].nb = NbUns(clauses, population[cursor].m)
         /\ population[cursor].nb <= thresh
         /\ Under(population, thresh) /\ Exact(population)
         /\ fresh \subseteq Vars /\ Vars \subseteq Literals
         /\ left \in Nat /\ sweep \in Nat /\ cursor \in Nat
<1>1. Under(population, thresh) /\ Exact(population) /\ Len(population) = job.size
  BY DEF IInv, PopulationInv
<1>2. /\ population[cursor] \in Cubes /\ population[cursor].m \in Assignments
      /\ population[cursor].nb = NbUns(clauses, population[cursor].m)
      /\ population[cursor].nb <= thresh /\ cursor \in 1 .. Len(population)
  BY <1>1, PopulationFacts DEF Under
<1> QED
  BY <1>1, <1>2, JobFacts DEF IInv, MethodInv, RestTypes, SplitTypeOK, Literals

LEMMA DrawFacts ==
  ASSUME NEW k \in Nat, fresh \subseteq Vars, NEW vs \in Draws(k)
  PROVE  /\ Len(vs) = k /\ DOMAIN vs = 1 .. k
         /\ \A i \in 1 .. k : vs[i] \in fresh
         /\ ~Raced => \A i, j \in 1 .. k : vs[i] = vs[j] => i = j
<1>1. vs \in [1 .. k -> fresh]
  BY DEF Draws
<1>2. vs \in Seq(fresh)
  BY <1>1, SeqDef
<1> QED
  BY <1>1, <1>2, LenProperties DEF Draws

\* A flip updates the cube and its number together, under the threshold.
LEMMA FlipOneInv ==
  ASSUME IInv, FlipOne, UNCHANGED <<rejected, walkVars>>
  PROVE  IInv'
<1> DEFINE c == population[cursor]
<1>1. /\ pc = "mutate" /\ cursor \in DOMAIN population /\ left > 0
      /\ Still /\ UNCHANGED teamVars /\ pc' = pc /\ thresh' = thresh
  BY DEF FlipOne, Mutating
<1> DEFINE flipped(v) == [m |-> Flip(c.m, {TrueOf(c.m, v)}), nb |-> FlipCount(c.m, c.nb, v)]
<1>2. PICK vs \in Draws(1) :
        /\ Drawn(vs)
        /\ \/ /\ FlipCount(c.m, c.nb, vs[1]) <= thresh
              /\ population' = [population EXCEPT ![cursor] = flipped(vs[1])]
           \/ UNCHANGED population
  BY DEF FlipOne
<1>3. /\ job.method = "splitting" /\ Len(population) = job.size /\ job.size \in Nat
      /\ cursor \in 1 .. Len(population) /\ c \in Cubes /\ c.m \in Assignments
      /\ c.nb = NbUns(clauses, c.m)
      /\ Under(population, thresh) /\ Exact(population)
      /\ fresh \subseteq Vars /\ Vars \subseteq Literals /\ left \in Nat
  BY <1>1, MutatingFacts
<1>4. Len(vs) = 1 /\ vs[1] \in Literals
  <2>1. fresh \subseteq Vars /\ 1 \in Nat /\ 1 \in 1 .. 1
    BY <1>3
  <2>2. Len(vs) = 1 /\ \A i \in 1 .. 1 : vs[i] \in fresh
    BY <2>1, DrawFacts
  <2> QED
    BY <1>3, <2>1, <2>2
<1>5. clauses' = clauses /\ job' = job
  BY <1>1 DEF Still, Fixed, storeVars
<1> DEFINE new == flipped(vs[1])
<1>6. new \in Cubes /\ new.nb = NbUns(clauses, new.m)
      /\ new.nb = FlipCount(c.m, c.nb, vs[1])
  <2>1. FlipCount(c.m, c.nb, vs[1]) = NbUns(clauses, Flip(c.m, {TrueOf(c.m, vs[1])}))
    BY <1>3, <1>4, FlipCountExact DEF IInv
  <2>2. Flip(c.m, {TrueOf(c.m, vs[1])}) \in Assignments
    BY <1>3, <1>4, TrueOfFacts, FlipAssignment
  <2>3. NbUns(clauses, Flip(c.m, {TrueOf(c.m, vs[1])})) \in Nat
    BY UnsFinite DEF IInv
  <2> QED
    BY <2>1, <2>2, <2>3 DEF Cubes
<1>7. /\ population' \in Seq(Cubes) /\ Len(population') = job.size
      /\ Exact(population') /\ Under(population', thresh)
  <2>1. population \in Seq(Cubes) /\ DOMAIN population = 1 .. Len(population)
    BY PopulationFacts
  <2>2. CASE UNCHANGED population
    BY <1>3, <1>5, <2>1, <2>2 DEF Exact, Under
  <2>3. CASE /\ new.nb <= thresh
             /\ population' = [population EXCEPT ![cursor] = new]
    <3> HIDE DEF new, c
    <3>1. /\ population' \in Seq(Cubes) /\ Len(population') = Len(population)
          /\ \A j \in 1 .. Len(population) :
               population'[j] = IF j = cursor THEN new ELSE population[j]
      BY <1>3, <1>6, <2>1, <2>3, ExceptSeq
    <3>2. DOMAIN population' = 1 .. Len(population)
      BY <3>1, LenProperties
    <3> QED
      BY <1>3, <1>6, <2>1, <2>3, <3>1, <3>2 DEF Exact, Under
  <2> QED
    BY <1>2, <1>6, <2>2, <2>3
<1>8. SplitTypeOK'
  <2>1. /\ left' = left - 1 /\ cursor' = cursor /\ sweep' = sweep /\ fresh' \subseteq fresh
    BY <1>2, <1>4 DEF Drawn
  <2> QED
    BY <1>1, <1>3, <1>7, <2>1 DEF IInv, RestTypes, SplitTypeOK, Cubes
<1>9. PopulationInv'
  BY <1>1, <1>5, <1>7 DEF PopulationInv, Exact, Under
<1> QED
  BY <1>1, <1>3, <1>8, <1>9, QuietFrame

\* Blocks of different variables pass the assertions.
LEMMA TryBlockInv ==
  ASSUME IInv, TryBlock, UNCHANGED <<rejected, walkVars>>
  PROVE  IInv'
<1> DEFINE c == population[cursor]
<1>1. /\ pc = "mutate" /\ cursor \in DOMAIN population /\ job.block > 1 /\ left >= job.block
      /\ Still /\ UNCHANGED teamVars /\ population' = population /\ thresh' = thresh
  BY DEF TryBlock, Mutating
<1>2. PICK vs \in Draws(job.block) :
        Drawn(vs) /\ pc' = IF BlockSound(c, vs) THEN "mutate" ELSE "aborted"
  BY DEF TryBlock
<1>3. /\ job.method = "splitting" /\ job.block \in Nat
      /\ c \in Cubes /\ c.nb = NbUns(clauses, c.m) /\ c.nb <= thresh
      /\ fresh \subseteq Vars /\ left \in Nat
  BY <1>1, MutatingFacts
<1>4. /\ Len(vs) = job.block /\ DOMAIN vs = 1 .. job.block
      /\ \A i \in DOMAIN vs : vs[i] \in Vars
      /\ ~Raced => \A i, j \in DOMAIN vs : vs[i] = vs[j] => i = j
  BY <1>3, DrawFacts
<1>5. clauses' = clauses /\ job' = job
  BY <1>1 DEF Still, Fixed, storeVars
<1>6. SplitTypeOK'
  <2>1. /\ left' = left - job.block /\ cursor' = cursor /\ sweep' = sweep /\ fresh' \subseteq fresh
    BY <1>2, <1>4 DEF Drawn
  <2> QED
    BY <1>1, <1>3, <2>1 DEF IInv, RestTypes, SplitTypeOK
<1>7. ~BlockSound(c, vs) => Raced
  BY <1>3, <1>4, SoundOnDistinct DEF IInv
<1> HIDE DEF c
<1>8. PopulationInv'
  BY <1>1, <1>2, <1>5, <1>7 DEF IInv, PopulationInv, Exact, Under, Excused, Raced
<1>9. pc' \in {"mutate", "aborted"}
  BY <1>2
<1> QED
  BY <1>1, <1>3, <1>6, <1>8, <1>9, QuietFrame

\* The loops around the flips.
LEMMA MutateLoopsInv ==
  ASSUME IInv, EndSweep \/ NextCube \/ EndMutation, UNCHANGED <<rejected, walkVars>>
  PROVE  IInv'
<1>1. /\ pc = "mutate" /\ pc' \in {"mutate", "filter"}
      /\ Still /\ UNCHANGED teamVars /\ population' = population /\ thresh' = thresh
  BY DEF EndSweep, NextCube, EndMutation, Mutating, splitVars
<1>2. job.method = "splitting"
  BY <1>1 DEF IInv, MethodInv
<1>3. clauses' = clauses /\ job' = job
  BY <1>1 DEF Still, Fixed, storeVars
<1>4. cursor' \in Nat /\ sweep' \in Nat /\ left' \in Nat /\ fresh' \subseteq Vars
  <2>1. cursor \in Nat /\ sweep \in Nat /\ left \in Nat /\ fresh \subseteq Vars
    BY DEF IInv, RestTypes, SplitTypeOK
  <2>2. Cardinality(Vars) \in Nat
    BY StoreAssumption, FS_CardinalityType
  <2> QED
    BY <2>1, <2>2 DEF EndSweep, NextCube, EndMutation, StartSweep, splitVars, mutateVars
<1>5. SplitTypeOK'
  BY <1>1, <1>4 DEF IInv, RestTypes, SplitTypeOK
<1>6. PopulationInv'
  BY <1>1, <1>3 DEF IInv, PopulationInv, Exact, Under
<1> QED
  BY <1>1, <1>2, <1>5, <1>6, QuietFrame

LEMMA SplitInv ==
  ASSUME IInv, SplitStep, UNCHANGED <<rejected, walkVars>>
  PROVE  IInv'
BY NewPopulationInv, EndSplittingInv, FillInv, FilledInv, FilterInv, HarvestInv, CloneInv,
   FlipOneInv, TryBlockInv, MutateLoopsInv
   DEF SplitStep

-----------------------------------------------------------------------------
(* The random walk *)

\* What a step of the walk must establish.
LEMMA WalkIntro ==
  ASSUME IInv, job.method = "rwalk", Fixed, UNCHANGED <<teamVars, rejected, splitVars>>,
         pc' \in {"start", "walk", "done"},
         pc' = "walk" => chain' \in Assignments /\ unsat' = Uns(clauses, chain'),
         WalkTypeOK', nbDone' \in Nat, printed' \in Seq(ModelSet),
         Len(printed') <= nbDone' /\ nbDone' <= job.n,
         pc' = "done" => nbDone' = job.n,
         pc' = "walk" => nbDone' < job.n,
         phase' = "Burnin" => burninLeft' > 0 /\ walked' + burninLeft' = job.burnin,
         phase' = "Sampling" => walked' >= job.burnin
  PROVE  IInv'
<1>1. /\ StoreInv' /\ TeamTypeOK' /\ SplitTypeOK' /\ MethodInv'
      /\ TeamInv' /\ PopulationInv' /\ TriesInv'
      /\ rejected' \in 0 .. 2^Width - 1 /\ job' = job /\ clauses' = clauses
  BY WalkFrame
<1>2. RestTypes'
  BY <1>1 DEF RestTypes, ModelSet
<1>3. SamplesInv' /\ ChainInv'
  BY <1>1 DEF SamplesInv, ChainInv
<1> QED
  BY <1>1, <1>2, <1>3 DEF IInv

LEMMA NewChainInv ==
  ASSUME IInv, NewChain, UNCHANGED <<teamVars, rejected, splitVars>>
  PROVE  IInv'
<1>1. /\ pc = "start" /\ job.method = "rwalk" /\ nbDone < job.n /\ Fixed
      /\ chain' \in job.bound /\ unsat' = UnsatIds(chain') /\ phase' = "Descent"
      /\ descentLeft' = job.descent /\ burninLeft' = job.burnin /\ walked' = 0
      /\ printed' = printed
      /\ \/ nbDone' = nbDone + 1 /\ pc' = "start"
         \/ nbDone' = nbDone /\ pc' = "walk"
  BY DEF NewChain
<1>2. /\ job.bound \in SUBSET Assignments /\ job.n \in Nat /\ job.descent \in Nat
      /\ job.burnin \in Nat /\ nbDone \in Nat
      /\ printed \in Seq(ModelSet) /\ Len(printed) \in Nat /\ Len(printed) <= nbDone
  BY JobFacts, LenProperties DEF IInv, RestTypes, SamplesInv
<1>3. unsat' = Uns(clauses, chain') /\ unsat' \subseteq Ids /\ Ids' = Ids
  BY <1>1, UnsatIs, StoreStays DEF IInv, Uns, Ids
<1>4. WalkTypeOK'
  BY <1>1, <1>2, <1>3 DEF WalkTypeOK
<1> QED
  BY <1>1, <1>2, <1>3, <1>4, WalkIntro

LEMMA EndWalksInv ==
  ASSUME IInv, EndWalks, UNCHANGED <<teamVars, rejected, splitVars>>
  PROVE  IInv'
<1>1. /\ job.method = "rwalk" /\ nbDone >= job.n /\ pc' = "done" /\ Fixed
      /\ nbDone' = nbDone /\ printed' = printed
      /\ chain' = chain /\ unsat' = unsat /\ phase' = phase /\ descentLeft' = descentLeft
      /\ burninLeft' = burninLeft /\ walked' = walked
  BY DEF EndWalks, walkVars
<1>2. /\ job.n \in Nat /\ nbDone \in Nat /\ nbDone <= job.n /\ Len(printed) <= nbDone
      /\ printed \in Seq(ModelSet)
  BY JobFacts DEF IInv, RestTypes, SamplesInv
<1>3. Ids' = Ids
  BY <1>1, StoreStays DEF IInv, Ids
<1>4. WalkTypeOK'
  BY <1>1, <1>3 DEF IInv, RestTypes, WalkTypeOK
<1>5. /\ phase = "Burnin" => burninLeft > 0 /\ walked + burninLeft = job.burnin
      /\ phase = "Sampling" => walked >= job.burnin
  BY DEF IInv, ChainInv
<1> QED
  BY <1>1, <1>2, <1>4, <1>5, WalkIntro

\* A move carries the set of unsatisfied clauses along.
LEMMA MoveExact ==
  ASSUME IInv, pc = "walk", Move
  PROVE  chain' \in Assignments /\ unsat' = Uns(clauses, chain')
<1>1. chain \in Assignments /\ unsat = Uns(clauses, chain)
  BY DEF IInv, ChainInv
<1>2. ASSUME NEW l \in Literals, FlipLiteral(l)
      PROVE  chain' \in Assignments /\ unsat' = Uns(clauses, chain')
  <2>1. {TrueOf(chain, l)} \in SUBSET chain
    BY <1>1, TrueOfFacts
  <2>2. chain' = Flip(chain, {TrueOf(chain, l)}) /\ unsat' = FlipIds(chain, unsat, l)
    BY <1>2 DEF FlipLiteral
  <2>3. Flip(chain, {TrueOf(chain, l)}) \in Assignments
    BY <1>1, <2>1, FlipAssignment
  <2>4. FlipIds(chain, unsat, l) = Uns(clauses, Flip(chain, {TrueOf(chain, l)}))
    BY <1>1, FlipIdsExact DEF IInv
  <2> QED
    BY <2>2, <2>3, <2>4
<1>3. CASE PureWalk
  <2>1. PICK id \in unsat : \E l \in clauses[id] : FlipLiteral(l)
    BY <1>3 DEF PureWalk
  <2>2. clauses[id] \in SUBSET Literals
    BY <1>1, StoreFacts DEF IInv, Uns, Ids
  <2> QED
    BY <1>2, <2>1, <2>2
<1>4. CASE Propose
  BY <1>2, <1>4 DEF Propose, Literals
<1>5. CASE UNCHANGED <<chain, unsat>>
  BY <1>1, <1>5
<1> QED
  BY <1>3, <1>4, <1>5 DEF Move

\* What the phases leave: the chain is as many iterations past its first model as its
\* phase says, and a sample counted is a model.
LEMMA PhaseFacts ==
  ASSUME IInv, Walk
  PROVE  /\ pc' \in {"start", "walk"}
         /\ phase' \in {"Descent", "Burnin", "Sampling"}
         /\ descentLeft' \in Nat /\ burninLeft' \in Nat /\ walked' \in Nat
         /\ phase' = "Burnin" => burninLeft' > 0 /\ walked' + burninLeft' = job.burnin
         /\ phase' = "Sampling" => walked' >= job.burnin
         /\ \/ nbDone' = nbDone /\ printed' = printed
            \/ /\ nbDone' = nbDone + 1 /\ printed' = Append(printed, chain') /\ unsat' = {}
               /\ pc' = "start" /\ walked' > job.burnin
<1>1. /\ phase \in {"Descent", "Burnin", "Sampling"}
      /\ descentLeft \in Nat /\ burninLeft \in Nat /\ walked \in Nat /\ job.burnin \in Nat
      /\ phase = "Burnin" => burninLeft > 0 /\ walked + burninLeft = job.burnin
      /\ phase = "Sampling" => walked >= job.burnin
  BY JobFacts DEF IInv, RestTypes, WalkTypeOK, ChainInv
<1>2. CASE Descend
  BY <1>1, <1>2 DEF Descend
<1>3. CASE GiveUp
  BY <1>1, <1>3 DEF GiveUp
<1>4. CASE ReachModel
  BY <1>1, <1>4 DEF ReachModel, Continue
<1>5. CASE BurnIn
  <2>1. /\ phase = "Burnin" /\ burninLeft' = burninLeft - 1
        /\ phase' = (IF burninLeft' = 0 THEN "Sampling" ELSE "Burnin")
        /\ walked' = walked + 1
    BY <1>1, <1>5 DEF BurnIn, WalkedOn
  <2>2. /\ descentLeft' = descentLeft /\ nbDone' = nbDone /\ printed' = printed
        /\ pc' \in {"start", "walk"}
    BY <1>5 DEF BurnIn, Continue
  <2> QED
    BY <1>1, <2>1, <2>2
<1>6. CASE Sample
  <2>1. walked' \in Nat /\ walked' > job.burnin /\ phase = "Sampling"
    BY <1>1, <1>6 DEF Sample, WalkedOn
  <2> QED
    BY <1>1, <1>6, <2>1 DEF Sample
<1>7. CASE WalkOn
  <2>1. walked' \in Nat /\ walked' > job.burnin /\ phase = "Sampling"
    BY <1>1, <1>7 DEF WalkOn, WalkedOn
  <2> QED
    BY <1>1, <1>7, <2>1 DEF WalkOn, Continue
<1> QED
  BY <1>2, <1>3, <1>4, <1>5, <1>6, <1>7 DEF Walk

LEMMA WalkInv ==
  ASSUME IInv, Walk, UNCHANGED <<teamVars, rejected, splitVars>>
  PROVE  IInv'
<1>1. pc = "walk" /\ Fixed /\ Move
  BY DEF Walk
<1>2. /\ job.method = "rwalk" /\ job.n \in Nat /\ nbDone \in Nat /\ nbDone < job.n
      /\ printed \in Seq(ModelSet) /\ Len(printed) \in Nat /\ Len(printed) <= nbDone
  BY <1>1, JobFacts, LenProperties DEF IInv, MethodInv, RestTypes, SamplesInv
<1>3. chain' \in Assignments /\ unsat' = Uns(clauses, chain')
  BY <1>1, MoveExact
<1>4. unsat' \subseteq Ids /\ Ids' = Ids
  BY <1>1, <1>3, StoreStays DEF IInv, Uns, Ids
<1>5. WalkTypeOK'
  BY <1>3, <1>4, PhaseFacts DEF WalkTypeOK
<1>6. /\ nbDone' \in Nat /\ printed' \in Seq(ModelSet)
      /\ Len(printed') <= nbDone' /\ nbDone' <= job.n
      /\ pc' = "walk" => nbDone' < job.n
  <2>1. CASE nbDone' = nbDone /\ printed' = printed
    BY <1>2, <2>1
  <2>2. CASE nbDone' = nbDone + 1 /\ printed' = Append(printed, chain') /\ unsat' = {}
             /\ pc' = "start"
    <3>1. chain' \in ModelSet
      BY <1>3, <2>2 DEF ModelSet
    <3> QED
      BY <1>2, <2>2, <3>1, AppendProperties
  <2> QED
    BY <2>1, <2>2, PhaseFacts
<1> QED
  BY <1>1, <1>2, <1>3, <1>5, <1>6, PhaseFacts, WalkIntro

LEMMA WalkStepInv ==
  ASSUME IInv, WalkStep, UNCHANGED <<teamVars, rejected, splitVars>>
  PROVE  IInv'
BY NewChainInv, EndWalksInv, WalkInv DEF WalkStep

-----------------------------------------------------------------------------
(* Theorems *)

LEMMA StutterInv ==
  ASSUME IInv, UNCHANGED vars
  PROVE  IInv'
<1>1. /\ Fixed /\ pc' = pc /\ nbDone' = nbDone /\ printed' = printed /\ rejected' = rejected
      /\ clauses' = clauses /\ job' = job
      /\ at' = at /\ held' = held /\ nbTries' = nbTries /\ count' = count
      /\ population' = population /\ thresh' = thresh /\ cursor' = cursor /\ sweep' = sweep
      /\ left' = left /\ fresh' = fresh
      /\ chain' = chain /\ unsat' = unsat /\ phase' = phase /\ descentLeft' = descentLeft
      /\ burninLeft' = burninLeft /\ walked' = walked
  BY DEF vars, sampleVars, storeVars, teamVars, splitVars, mutateVars, walkVars, Fixed
<1>2. StoreInv'
  BY <1>1, StoreStays DEF IInv
<1>3. TeamTypeOK' /\ SplitTypeOK' /\ WalkTypeOK'
  BY <1>1 DEF IInv, RestTypes, TeamTypeOK, SplitTypeOK, WalkTypeOK, Ids
<1>4. RestTypes'
  BY <1>1, <1>3 DEF IInv, RestTypes, ModelSet
<1>5. MethodInv' /\ SamplesInv' /\ TeamInv'
  BY <1>1 DEF IInv, MethodInv, SamplesInv, TeamInv, Goal
<1>6. PopulationInv' /\ ChainInv'
  BY <1>1 DEF IInv, PopulationInv, ChainInv, Exact, Under, Excused, Raced
<1>7. InHand' = InHand /\ Settled' = Settled
  BY <1>1 DEF InHand, Settled, Has
<1>8. TriesInv'
  BY <1>1, <1>7 DEF IInv, TriesInv, Late
<1> QED
  BY <1>2, <1>4, <1>5, <1>6, <1>8 DEF IInv

LEMMA NextIInv ==
  ASSUME IInv, [Next]_vars
  PROVE  IInv'
BY StutterInv, MonteCarloInv, SplitInv, WalkStepInv DEF Next

\* What the samplers carry along, the properties below and more, holds in every state.
THEOREM Invariance == Spec => []IInv
BY InitIInv, NextIInv, PTL DEF Spec

LEMMA IInvCounts == IInv => CountsExact
<1> SUFFICES ASSUME IInv PROVE CountsExact
  OBVIOUS
<1>1. printed \in Seq(Assignments)
  <2>1. printed \in Seq(ModelSet) /\ ModelSet \subseteq Assignments
    BY DEF IInv, RestTypes, ModelSet
  <2> QED
    BY <2>1, SeqMonotonic
<1>2. TypeOK
  BY <1>1, StoreFacts DEF IInv, RestTypes, StoreInv, TypeOK
<1>3. ASSUME NEW i \in DOMAIN population
      PROVE  /\ population[i].nb = NbUnsat(population[i].m)
             /\ pc = "mutate" => population[i].nb <= thresh
  BY PopulationFacts, UnsatIs DEF IInv, PopulationInv, Under
<1>4. pc = "walk" => unsat = UnsatIds(chain)
  BY UnsatIs DEF IInv, ChainInv
<1>5. pc = "aborted" => job.keep >= job.size \/ (Raced /\ job.block > 1)
  BY DEF IInv, PopulationInv, Excused
<1> QED
  BY <1>2, <1>3, <1>4, <1>5 DEF CountsExact

\* The number of unsatisfied clauses of a cube and the set of a chain, which are never
\* recounted, stay what a recount gives, mutated cubes stay under the threshold, and no
\* assertion fails but in the two ways named.
\* (assignment_generator.hpp:494-560,821-858; cnf.cpp:429-568)
THEOREM CountsAreExact == Spec => []CountsExact
BY Invariance, IInvCounts, PTL

LEMMA IInvSamples == IInv => SamplesSound
<1> SUFFICES ASSUME IInv PROVE SamplesSound
  OBVIOUS
<1>1. printed \in Seq(ModelSet)
  BY DEF IInv, RestTypes
<1>2. ASSUME NEW m \in SlotsOf(printed)
      PROVE  m \in Models({clauses[id] : id \in Ids})
  <2>1. m \in ModelSet
    BY <1>1, LenProperties, ElementOfSeq DEF SlotsOf
  <2> QED
    BY <2>1, SatIsModel DEF IInv, ModelSet
<1> QED
  BY <1>2 DEF IInv, SamplesInv, SamplesSound

\* What is printed are models of the formula, at most N of them, and N are counted when
\* the tool ends, whatever the method, the formula and the team.
\* (assignment_generator.hpp:397-411,636-645,805-926)
THEOREM SamplesAreSound == Spec => []SamplesSound
BY Invariance, IInvSamples, PTL

LEMMA IInvTries == IInv => TriesAccounted
<1> DEFINE late == Wrap(nbTries - rejected - nbDone)
<1> SUFFICES ASSUME IInv, job.method = "montecarlo"
             PROVE  /\ late <= Cardinality(job.team)
                    /\ pc = "done" /\ job.n > 0 => late < Cardinality(job.team)
  BY DEF TriesAccounted
<1>1. /\ Cardinality(InHand) \in Nat /\ Cardinality(Settled) \in Nat
      /\ Cardinality(InHand) <= Cardinality(Settled)
      /\ Cardinality(Settled) <= Cardinality(job.team) /\ Cardinality(job.team) \in Nat
  <2>1. IsFiniteSet(job.team)
    BY JobFacts DEF IInv
  <2>2. Settled \in SUBSET job.team
    BY DEF Settled
  <2> QED
    BY <2>1, <2>2, SettledFinite, FS_Subset, FS_CardinalityType DEF IInv
<1>2. job.n \in Nat /\ count \in Nat
  BY JobFacts DEF IInv, RestTypes, TeamTypeOK
<1>3. CASE pc = "start"
  <2>1. late = Wrap(0)
    BY <1>3 DEF IInv, TriesInv
  <2>2. Wrap(0) <= 0 /\ Wrap(0) \in Int
    BY WrapFacts, Sizes
  <2> QED
    BY <1>1, <1>3, <2>1, <2>2
<1>4. CASE pc \in {"team", "done"}
  <2>1. PICK k \in Nat : Late(k)
    BY <1>4 DEF IInv, TriesInv
  <2>2. late = Wrap(k) /\ Wrap(k) <= k /\ Wrap(k) \in Int
    <3>1. Wrap(k) \in 0 .. 2^Width - 1
      BY WrapFacts
    <3> QED
      BY <2>1, <3>1, WrapFacts, Sizes DEF Late
  <2>3. k <= Cardinality(job.team)
    BY <1>1, <1>2, <2>1 DEF Late
  <2>4. pc = "done" /\ job.n > 0 => k < Cardinality(job.team)
    <3>1. pc = "done" => count >= job.n
      BY DEF IInv, TriesInv
    <3> QED
      BY <1>1, <1>2, <2>1, <3>1 DEF Late
  <2> HIDE DEF late
  <2> QED
    BY <1>1, <2>2, <2>3, <2>4
<1> QED
  BY <1>3, <1>4 DEF IInv, RestTypes, MethodInv

\* However many threads draw, and wherever they are interrupted, all tries but fewer than
\* the team has threads are rejected or printed when the rejection sampler ends.
\* (assignment_generator.hpp:389-419)
THEOREM TriesAreAccounted == Spec => []TriesAccounted
BY Invariance, IInvTries, PTL

\* A chain prints a sample only after more iterations than the burn-in asks for since it
\* first met a model.  (assignment_generator.hpp:874-928)
THEOREM ChainsAreBurntIn == Spec => BurnedIn
<1> DEFINE late == job.method = "rwalk" /\ printed' # printed => walked' > job.burnin
<1>1. IInv /\ [Next]_vars => [late]_<<printed, walked>>
  <2> SUFFICES ASSUME IInv, Next, job.method = "rwalk", printed' # printed
               PROVE  walked' > job.burnin
    BY DEF vars, sampleVars, walkVars
  <2>1. CASE MonteCarloStep
    <3>1. pc = "team" \/ printed' = printed
      BY <2>1 DEF MonteCarloStep, StartSampling, EndSampling, MonteCarloThread
    <3> QED
      BY <3>1 DEF IInv, MethodInv
  <2>2. CASE SplitStep
    <3>1. Harvest \/ Still
      BY <2>2 DEF SplitStep, NewPopulation, EndSplitting, Filled, Filter, Clone, FlipOne,
                  TryBlock, EndSweep, NextCube, EndMutation, Fill
    <3> QED
      BY <3>1 DEF IInv, MethodInv, Harvest, Still
  <2>3. CASE WalkStep
    <3>1. Walk
      BY <2>3 DEF WalkStep, NewChain, EndWalks
    <3> QED
      BY <3>1, PhaseFacts
  <2> QED
    BY <2>1, <2>2, <2>3 DEF Next
<1> QED
  BY <1>1, Invariance, PTL DEF Spec, BurnedIn
=============================================================================

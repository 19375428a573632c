------------------------------ MODULE Simplify ------------------------------
(***************************************************************************)
(* What the tools of capkc do to a formula they have read: simplify (unit  *)
(* propagation), subsumption, then switching clauses on and off by         *)
(* set_active while prefixes are written (capkc/capkc/src/cnf.cpp and      *)
(* cnf.hpp).                                                               *)
(*                                                                         *)
(* One action is one loop of the code, or one iteration of it where the    *)
(* next one depends on what it did.                                        *)
(***************************************************************************)
EXTENDS CnfStore

CONSTANT Formulas      \* the formulas read, sequences of clauses

\* The length of the vector of clauses that was read is a size_t.
ASSUME FormulasAssumption ==
  /\ Formulas \subseteq Seq(SUBSET Literals)
  /\ \A F \in Formulas : Len(F) < 2^Width

VARIABLES
  stage,
  units,     \* CNF::units
  u,         \* the units of this round that are still to be propagated
  subsuming, \* the clause subsumption looks at
  kept,      \* the slots in use when subsumption is over: the program's clids
  given      \* history: the clauses read

simplifyVars == <<storeVars, stage, units, u, subsuming, kept, given>>

SimplifyInit ==
  /\ \E F \in Formulas :
       /\ Load(F)
       /\ given = {F[id] : id \in DOMAIN F}
  /\ stage = "tautologies"
  /\ units = {}
  /\ u = {}
  /\ subsuming = 1
  /\ kept = {}

-----------------------------------------------------------------------------
(* simplify *)

RemoveTautologies ==
  /\ stage = "tautologies"
  /\ \E order \in Ascending({id \in ActiveIds : Tautology(clauses[id])}) : RmClauses(order)
  /\ stage' = "collect"
  /\ UNCHANGED <<units, u, subsuming, kept, given>>

UnitIds == {id \in ActiveIds : Cardinality(clauses[id]) = 1}

CollectUnits ==
  /\ stage = "collect"
  /\ \E order \in Ascending(UnitIds) : RmClauses(order)
  /\ u' = UNION {clauses[id] : id \in UnitIds}
  /\ units' = units \cup u'
  /\ stage' = IF u' = {} THEN "readd" ELSE "apply"
  /\ UNCHANGED <<subsuming, kept, given>>

\* The stage after a unit: the next unit of the round, or another round.
\* Faulty variant: no other round.
AfterUnitOnce == IF u' = {} THEN "readd" ELSE "apply"
AfterUnit == IF u' = {} THEN "collect" ELSE "apply"

\* Faulty variant: the false literal is taken out of the clauses only.
StrippedKeepIdx(l) == IdxWithout(idx[l])
StrippedIdx(l) == [IdxWithout(idx[l]) EXCEPT ![-l] = {}]

\* Clauses with l are removed, then ~l is taken out of the clauses left.
ApplyUnit(l) ==
  /\ stage = "apply"
  /\ l \in u
  /\ \E order \in Orders(idx[l]) : Deactivate(order)
  /\ clauses' = [id \in Ids |-> IF id \in IdxWithout(idx[l])[-l]
                                THEN clauses[id] \ {-l} ELSE clauses[id]]
  /\ idx' = StrippedIdx(l)
  /\ u' = u \ {l}
  /\ stage' = AfterUnit
  /\ UNCHANGED <<units, subsuming, kept, given>>

\* The units become clauses again; u holds those still to be added.
StartReAdding ==
  /\ stage = "readd"
  /\ u' = units
  /\ stage' = IF units = {} THEN "subsume" ELSE "adding"
  /\ UNCHANGED <<storeVars, units, subsuming, kept, given>>

ReAddUnit(l) ==
  /\ stage = "adding"
  /\ l \in u
  /\ AddClause({l})
  /\ u' = u \ {l}
  /\ stage' = IF u' = {} THEN "subsume" ELSE "adding"
  /\ UNCHANGED <<units, subsuming, kept, given>>

-----------------------------------------------------------------------------
(* subsumption *)

\* The clauses that clause i makes redundant, looked for where literal j occurs.
\* Faulty variants: the inclusion is the wrong way round; only later clauses are removed.
SubsumingBy(i, j) == {id \in idx[j] : active[id] /\ id # i /\ clauses[id] \subseteq clauses[i]}
SubsumedAfter(i, j) == {id \in idx[j] : active[id] /\ i < id /\ clauses[i] \subseteq clauses[id]}
SubsumedBy(i, j) == {id \in idx[j] : active[id] /\ id # i /\ clauses[i] \subseteq clauses[id]}

Subsume ==
  /\ stage = "subsume"
  /\ subsuming \in Ids
  /\ IF active[subsuming]
     THEN \E j \in Rarest(clauses[subsuming]) :
            \E order \in Orders(SubsumedBy(subsuming, j)) : RmClauses(order)
     ELSE UNCHANGED storeVars
  /\ subsuming' = subsuming + 1
  /\ UNCHANGED <<stage, units, u, kept, given>>

EndSubsumption ==
  /\ stage = "subsume"
  /\ subsuming \notin Ids
  /\ kept' = ActiveIds
  /\ stage' = "ready"
  /\ UNCHANGED <<storeVars, units, u, subsuming, given>>

-----------------------------------------------------------------------------
(* set_active, which only the clauses of clids are given to *)

\* Faulty variant: the counter follows the call, not the change.
CountCalls(id, v) == IF v THEN nbActive + 1 ELSE nbActive - 1
CountChange(id, v) ==
  IF active[id] /\ ~v THEN Wrap(nbActive - 1)
  ELSE IF ~active[id] /\ v THEN Wrap(nbActive + 1) ELSE nbActive

SetActive(id, v) ==
  /\ stage = "ready"
  /\ id \in kept
  /\ active' = [active EXCEPT ![id] = v]
  /\ nbActive' = CountChange(id, v)
  /\ UNCHANGED <<clauses, idx, available, stage, units, u, subsuming, kept, given>>

Preprocess ==
  \/ RemoveTautologies \/ CollectUnits \/ StartReAdding \/ Subsume \/ EndSubsumption
  \/ \E l \in u : ApplyUnit(l) \/ ReAddUnit(l)

SimplifyNext == Preprocess \/ \E id \in kept, v \in BOOLEAN : SetActive(id, v)

SimplifySpec == SimplifyInit /\ [][SimplifyNext]_simplifyVars

-----------------------------------------------------------------------------
(* Properties *)

SimplifyTypeOK ==
  /\ StoreTypeOK
  /\ stage \in {"tautologies", "collect", "apply", "readd", "adding", "subsume", "ready"}
  /\ units \subseteq Literals
  /\ u \subseteq Literals
  /\ subsuming \in Nat
  /\ kept \subseteq Ids
  /\ given \subseteq SUBSET Literals

\* The slots that hold a clause of the formula: set_active only hides clauses.
Used == IF stage = "ready" THEN kept ELSE ActiveIds

\* At every point of simplify and subsumption the clauses in use, with the units set
\* aside, have the models of the formula read; so have they all once clids is taken,
\* whichever of them are switched off.  (cnf.cpp:209-302)
ModelsKept ==
  Models({clauses[id] : id \in Used} \cup {{l} : l \in units}) = Models(given)

\* Although clauses shrink, are removed and slots are reused, idx lists exactly the clauses
\* in use for every literal; the stack of free slots has no slot twice and none in use, so
\* that add_clause overwrites no clause; and the number printed in the header is the number
\* of clauses printed.  (cnf.cpp:190-196,209-262,320-341,370-377, cnf.hpp:252-260)
IdxExact == IdxLists(Used)
SlotsSound == SlotsFree(Used)
HeaderExact == nbActive = Cardinality(ActiveIds)
StoreConsistent == SimplifyTypeOK /\ IdxExact /\ SlotsSound /\ HeaderExact

\* After simplify every unit clause is a known unit and no other clause mentions a
\* unit's variable: propagation has reached its fixpoint.  (cnf.cpp:226-255)
Propagated ==
  stage \in {"subsume", "ready"} =>
    \A id \in Used :
      IF Cardinality(clauses[id]) = 1
      THEN clauses[id] \subseteq units
      ELSE \A l \in units : l \notin clauses[id] /\ -l \notin clauses[id]

\* After subsumption no clause contains another, unless the formula holds the empty
\* clause, whose first literal the code reads all the same.  (cnf.cpp:274-302)
Irredundant ==
  stage = "ready" =>
    \A i, k \in kept : i # k /\ clauses[i] \subseteq clauses[k] => clauses[i] = {}
=============================================================================

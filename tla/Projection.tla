----------------------------- MODULE Projection -----------------------------
(***************************************************************************)
(* The projection tool of divkc (divkc/projection/src/projection.cpp and   *)
(* CNF.cpp): a formula F is simplified, a copy `up' of it is put aside,    *)
(* the variables that are not shown are forgotten one by one until too     *)
(* many clauses or too much time is spent, and two files are written:      *)
(* <F>.p, F projected onto the variables not forgotten, and <F>.pup, F     *)
(* without its clauses over these variables.                               *)
(***************************************************************************)
EXTENDS CnfStore

CONSTANT Inputs     \* the files read: their clauses and the variables of `c p show'

InputFields == [clauses : Seq(SUBSET Literals), prj : SUBSET Vars]

\* The length of the vector of clauses that was read is a size_t.
ASSUME InputsAssumption ==
  /\ Inputs \subseteq InputFields
  /\ \A input \in Inputs : Len(input.clauses) < 2^Width

VARIABLES
  pc,
  units,     \* CNF::units
  u,         \* the units of this round that are still to be propagated
  frgt,      \* the variables to forget
  dign,      \* the variables forgotten
  v,         \* the variable that is being forgotten
  pairs,     \* the pairs of clauses still to be resolved on v
  ina,       \* the number of active clauses when project started
  up,        \* the copy of the simplified formula
  pup,       \* what is written to <F>.pup: its clauses, and their number as it says
  given      \* history: the file read

storeRest == <<idx, available>>
vars == <<storeVars, pc, units, u, frgt, dign, v, pairs, ina, up, pup, given>>

NoCopy == [clauses |-> <<>>, active |-> <<>>, units |-> {}, nbActive |-> 0]
NoFile == [clauses |-> {}, header |-> 0]

Init ==
  /\ given \in Inputs
  /\ Load(given.clauses)
  /\ pc = "tautologies"
  /\ units = {} /\ u = {} /\ frgt = {} /\ dign = {} /\ pairs = {}
  /\ v = 0 /\ ina = 0
  /\ up = NoCopy /\ pup = NoFile

-----------------------------------------------------------------------------
(* simplify: unlike capkc's, it never reuses the slots of what it removes   *)
(* after the tautologies, and it keeps the units apart.                     *)

RemoveTautologies ==
  /\ pc = "tautologies"
  /\ \E order \in Ascending({id \in ActiveIds : Tautology(clauses[id])}) : RmClauses(order)
  /\ pc' = "collect"
  /\ UNCHANGED <<units, u, frgt, dign, v, pairs, ina, up, pup, given>>

UnitIds == {id \in ActiveIds : Cardinality(clauses[id]) = 1}

SwitchOff(S) ==
  /\ active' = [id \in Ids |-> active[id] /\ id \notin S]
  /\ nbActive' = Wrap(nbActive - Cardinality(S \cap ActiveIds))

CollectUnits ==
  /\ pc = "collect"
  /\ SwitchOff(UnitIds)
  /\ u' = UNION {clauses[id] : id \in UnitIds}
  /\ units' = units \cup u'
  /\ pc' = IF u' = {} THEN "copy" ELSE "apply"
  /\ UNCHANGED <<clauses, storeRest, frgt, dign, v, pairs, ina, up, pup, given>>

\* idx[l] is emptied by hand, idx[-l] once its clauses are stripped.
\* Faulty variant: satisfied clauses stay in the index of their other literals.
PropagatedHalf(l) == [idx EXCEPT ![l] = {}, ![-l] = {}]
PropagatedIdx(l) == [IdxWithout(idx[l]) EXCEPT ![-l] = {}]

ApplyUnit(l) ==
  /\ pc = "apply"
  /\ l \in u
  /\ SwitchOff(idx[l])
  /\ clauses' = [id \in Ids |-> IF id \in IdxWithout(idx[l])[-l]
                                THEN clauses[id] \ {-l} ELSE clauses[id]]
  /\ idx' = PropagatedIdx(l)
  /\ u' = u \ {l}
  /\ pc' = IF u' = {} THEN "collect" ELSE "apply"
  /\ UNCHANGED <<available, units, frgt, dign, v, pairs, ina, up, pup, given>>

\* main copies the formula into `up' and starts project.
StartProject ==
  /\ pc = "copy"
  /\ up' = [clauses |-> clauses, active |-> active, units |-> units, nbActive |-> nbActive]
  /\ ina' = nbActive
  /\ frgt' = Vars \ given.prj
  /\ pc' = "project"
  /\ UNCHANGED <<storeVars, units, u, dign, v, pairs, pup, given>>

-----------------------------------------------------------------------------
(* project and forget *)

OccurrenceProduct(w) == Cardinality(idx[w]) * Cardinality(idx[-w])

\* The first variable of frgt with the least product.
Cheapest ==
  CHOOSE w \in frgt : \A o \in frgt :
    \/ OccurrenceProduct(w) < OccurrenceProduct(o)
    \/ OccurrenceProduct(w) = OccurrenceProduct(o) /\ w <= o

\* The literal of w that is a known unit, the positive one looked for first.
Unit(w) == IF w \in units THEN {w} ELSE {-w} \cap units

\* A unit is dropped and its negation taken out of the clauses.
ForgetUnit(w, l) ==
  /\ units' = units \ {l}
  /\ clauses' = [id \in Ids |-> IF id \in idx[-l] THEN clauses[id] \ {-l} ELSE clauses[id]]
  /\ idx' = [idx EXCEPT ![-l] = {}]
  /\ pairs' = {}
  /\ UNCHANGED <<active, available, nbActive>>

StartForgetting ==
  /\ pc = "project"
  /\ frgt # {}
  /\ v' = Cheapest
  /\ pc' = "resolve"
  /\ \/ \E l \in Unit(v') : ForgetUnit(v', l)
     \/ /\ Unit(v') = {}
        /\ pairs' = idx[v'] \X idx[-v']
        /\ UNCHANGED <<storeVars, units>>
  /\ UNCHANGED <<u, frgt, dign, ina, up, pup, given>>

NextPair ==
  CHOOSE q \in pairs : \A r \in pairs : q[1] < r[1] \/ (q[1] = r[1] /\ q[2] <= r[2])
Resolvent(q) == (clauses[q[1]] \ {v}) \cup (clauses[q[2]] \ {v, -v})

\* add_clause_nonredundant, which looks for a subsuming clause among the occurrences of
\* one literal only.  Faulty variants: inactive clauses count; the inclusion is reversed.
RedundantSuper(c, j) == \E id \in idx[j] : active[id] /\ c \subseteq clauses[id]
Redundant(c, j) == \E id \in idx[j] : active[id] /\ clauses[id] \subseteq c

Resolve ==
  /\ pc = "resolve"
  /\ pairs # {}
  /\ pairs' = pairs \ {NextPair}
  /\ LET c == Resolvent(NextPair)
     IN  /\ c # {}
         /\ IF Tautology(c) THEN UNCHANGED storeVars
            ELSE \E j \in Rarest(c) :
                   IF Redundant(c, j) THEN UNCHANGED storeVars ELSE AddClause(c)
  /\ UNCHANGED <<pc, units, u, frgt, dign, v, ina, up, pup, given>>

\* The first literal of an empty resolvent is read through a null pointer.
ResolveToEmpty ==
  /\ pc = "resolve"
  /\ pairs # {}
  /\ Resolvent(NextPair) = {}
  /\ pc' = "crashed"
  /\ UNCHANGED <<storeVars, units, u, frgt, dign, v, pairs, ina, up, pup, given>>

\* The clauses of v, which are removed the positive ones first.
Parents == {first \o second : first \in Ascending(idx[v]), second \in Ascending(idx[-v])}

StillToForget == frgt \ {v}

\* project goes on until nothing is left, three times as many clauses as at the start
\* are active, or the time is over, which it may be whenever it is looked at.
EndForgetting ==
  /\ pc = "resolve"
  /\ pairs = {}
  /\ \E order \in Parents : RmClauses(order)
  /\ frgt' = StillToForget
  /\ dign' = dign \cup {v}
  /\ \/ pc' = "project" /\ nbActive' < Wrap(3 * ina)
     \/ pc' = "write"
  /\ UNCHANGED <<units, u, v, pairs, ina, up, pup, given>>

NothingLeft ==
  /\ pc = "project"
  /\ frgt = {}
  /\ pc' = "write"
  /\ UNCHANGED <<storeVars, units, u, frgt, dign, v, pairs, ina, up, pup, given>>

-----------------------------------------------------------------------------
(* The files *)

VarsOf(c) == {IF l > 0 THEN l ELSE -l : l \in c}
UnitClauses(L) == {{l} : l \in L}

\* compute_true_projection.
TrueProjection == Vars \ dign

\* What <F>.p says before `c forgotten'.
Projected == {clauses[id] : id \in ActiveIds} \cup UnitClauses(units)

\* <F>.p: after `c forgotten', one more clause for every variable forgotten fixes it to
\* true, which D4 reads as it reads the others.
PClauses == Projected \cup UnitClauses(dign)

\* inplace_upper_bound calls rm_clause on every slot that mentions no forgotten
\* variable, in use or not; then the copy is printed with its units.
\* Faulty variant: a clause is removed as soon as it mentions the projection.
TouchesProjection(c) == VarsOf(c) \cap TrueProjection # {}
InProjection(c) == VarsOf(c) \subseteq TrueProjection

WriteFiles ==
  /\ pc = "write"
  /\ LET removed == {id \in DOMAIN up.clauses : InProjection(up.clauses[id])}
         left == {id \in DOMAIN up.clauses \ removed : up.active[id]}
     IN  pup' = [clauses |-> {up.clauses[id] : id \in left} \cup UnitClauses(up.units),
                 header |-> Wrap(up.nbActive - Cardinality(removed) + Cardinality(up.units))]
  /\ pc' = "done"
  /\ UNCHANGED <<storeVars, units, u, frgt, dign, v, pairs, ina, up, given>>

Next ==
  \/ RemoveTautologies \/ CollectUnits \/ \E l \in u : ApplyUnit(l)
  \/ StartProject \/ StartForgetting \/ Resolve \/ ResolveToEmpty \/ EndForgetting
  \/ NothingLeft \/ WriteFiles

Spec == Init /\ [][Next]_vars

-----------------------------------------------------------------------------
(* Properties *)

TypeOK ==
  /\ StoreTypeOK
  /\ pc \in {"tautologies", "collect", "apply", "copy", "project", "resolve", "write",
            "done", "crashed"}
  /\ units \subseteq Literals
  /\ u \subseteq Literals
  /\ frgt \subseteq Vars /\ dign \subseteq Vars /\ frgt \cap dign = {}
  /\ v \in Vars \cup {0}
  /\ pairs \subseteq Ids \X Ids
  /\ ina \in 0 .. 2^Width - 1
  /\ given \in InputFields

Given == {given.clauses[id] : id \in DOMAIN given.clauses}
Satisfiable == Models(Given) # {}

\* What assignments say of the variables that are not forgotten, nor being forgotten.
Gone == IF pc \in {"resolve", "crashed"} THEN dign \cup {v} ELSE dign
Kept(M) == {{l \in m : VarsOf({l}) \cap Gone = {}} : m \in M}

\* Whenever a file written now would be looked at, it says of the variables not forgotten
\* what the formula read says of them: resolution neither loses nor adds a model, although
\* resolvents are skipped as redundant and slots are reused.  An unsatisfiable formula
\* leaves an unsatisfiable file, also when a unit is dropped without a look at its
\* negation: the negation stays, and contradicts the clause that fixes the variable.
\* Of a satisfiable one, no clause is left on a variable forgotten and no resolvent is
\* empty, which forget does not survive.
\* (CNF.cpp:270-290,301-357,489-496,529-634)
ProjectionExact ==
  /\ pc \notin {"resolve", "crashed"} \/ Satisfiable
       => Kept(Models(PClauses)) = Kept(Models(Given))
  /\ Satisfiable => pc # "crashed" /\ \A c \in Projected : VarsOf(c) \cap dign = {}

\* The clauses and units of <F>.p and those of <F>.pup are together the formula: what is
\* left out of <F>.pup is what <F>.p implies, wherever project stopped.  The clauses that
\* fix the forgotten variables are dropped where the two circuits meet: NNF::init keeps
\* the variables <F>.proj.log shows.  (CNF.cpp:636-668, projection.cpp:84-107)
SplitExact ==
  pc = "done" => Models(Projected \cup pup.clauses) = Models(Given)

\* While variables are forgotten, idx lists exactly the active clauses, no slot that
\* add_clause may take is in use, and the counter that stops project is the number of
\* active clauses.  (CNF.cpp:328-355,465-487,515-522)
StoreConsistent ==
  /\ TypeOK
  /\ nbActive = Cardinality(ActiveIds)
  /\ \A j, k \in DOMAIN available : available[j] = available[k] => j = k
  /\ \A k \in DOMAIN available : ~active[available[k]]
  /\ pc \in {"project", "resolve", "write", "done"} => IdxLists(ActiveIds)
=============================================================================

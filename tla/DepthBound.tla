----------------------------- MODULE DepthBound -----------------------------
(***************************************************************************)
(* The second way to an upper bound that capkc's README describes: d4d     *)
(* compiles the whole formula with a limited depth, and the circuit is     *)
(* counted and sampled like any other.  D4d composed with Annf, which      *)
(* reads either what d4d has printed or a circuit from elsewhere.          *)
(***************************************************************************)
EXTENDS D4d, Annf

CONSTANT Readings    \* cubes, and what is counted, for the circuits of d4d

\* The cubes are disjoint, and models are counted.
ASSUME ReadingsAssumption ==
  \A r \in Readings :
    /\ r.count = "mc"
    /\ r.cubes \in Seq(SUBSET Lits(FormulaVars)) /\ r.cubes # <<>>
    /\ \A c \in DOMAIN r.cubes : ~Conflicts(r.cubes[c], r.cubes[c])
    /\ \A c, d \in DOMAIN r.cubes : c # d => Conflicts(r.cubes[c], r.cubes[d])

boundVars == <<d4dVars, annfVars>>

BoundInit == D4dInit /\ AnnfInit

BoundNext ==
  \/ D4dNext /\ mode = "read" /\ UNCHANGED annfVars
  \/ /\ \/ phase = "start" /\ \E p \in Queries : Read(p)
        \/ /\ phase = "printed"
           /\ \E r \in Readings : Read([circuit |-> dag, cubes |-> r.cubes, count |-> r.count])
        \/ AnnfStep
     /\ UNCHANGED d4dVars

BoundSpec == BoundInit /\ [][BoundNext]_boundVars

-----------------------------------------------------------------------------

\* What d4d prints is an upper bound: every model of the formula is one of the circuit,
\* whatever was cut and reused, and every model of the circuit assigns all variables, so
\* that counting it needs no correction.  A depth of one less than the variables is no
\* limit, and then the circuit is the formula.
\* ("the constructed d-DNNF is an upper bound of the input formula", capkc/README.md:88;
\* dDnnfCompiler.hh:155-283,336-404)
BoundSound ==
  phase = "printed" /\ query.circuit = dag /\ query.count = "mc" =>
    /\ ModelsOf(task.formula, {}) \subseteq Meaning[ROOT]
    /\ Meaning[ROOT] \subseteq Over(FormulaVars)
    /\ task.depth >= NbVars - 1 => Meaning[ROOT] = ModelsOf(task.formula, {})
=============================================================================

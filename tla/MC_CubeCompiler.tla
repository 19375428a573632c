-------------------------- MODULE MC_CubeCompiler --------------------------
(* Instances of CubeCompiler for TLC: formulas of one and two clauses over  *)
(* three variables, and larger ones with forced and contradictory           *)
(* decisions, an unsatisfiable one among them; every choice of .ign.        *)
EXTENDS CubeCompiler

Three == {1, 2, 3}
SmallClauses == {{1}, {-2}, {1, 2}, {-1, 2}, {1, -2}, {-1, -2}, {2, 3}, {-2, 3}, {1, -3},
                 {1, 2, 3}, {-1, -2, 3}}
SmallFormulas == {{c, d} : c, d \in SmallClauses} \cup {
  {{1, 2}, {-1, 3}, {-2, -3}},
  {{1, 2}, {-1, 2}, {1, -2, 3}},
  {{1, 2, 3}, {-1, -2}, {-1, -3}, {-2, -3}},
  {{1, 2}, {-1, 2}, {1, -2}, {-1, -2}}}
SmallProblems ==
  UNION {{[smp |-> F, ign |-> I] : I \in SUBSET F} : F \in SmallFormulas}
SmallLimits == {0, 2, 4}
=============================================================================

--------------------------- MODULE MC_Projection ---------------------------
(* Instances of Projection for TLC: every choice of the shown variables for  *)
(* every formula of up to two clauses and many larger ones over three and    *)
(* four variables: units, tautologies, subsumed and empty clauses, formulas  *)
(* that grow while variables are forgotten, unsatisfiable ones.              *)
EXTENDS Projection

Four == {1, 2, 3, 4}
SmallClauses == {{}, {1}, {-1}, {2}, {1, -1}, {1, 2}, {-1, 2}, {1, -2}, {-1, -2}, {-1, 3},
                 {-2, -3}, {1, 2, 3}, {-1, -2, 3}, {2, -3}}
PairFormulas == UNION {[1 .. n -> SmallClauses] : n \in 0 .. 2}
LargeFormulas == {
  <<{1}, {-1, 2}, {-2, 3}, {1, 3}>>,
  <<{1, -1}, {1, 2}, {-1, 3}, {-1, 4}, {1, -4}>>,
  <<{1, 2}, {1, 3}, {1, 4}, {-1, 2}, {-1, 3}, {-1, -4}>>,
  <<{1, 2}, {1, 3}, {-1, 4}, {-1, -2}, {2, -3, 4}>>,
  <<{1, 2}, {-1, 3}, {-3, 4}, {-4, 1}>>,
  <<{1, 2}, {-1, 3}, {1, -2}, {-1, -3}>>,
  <<{-2}, {1, 2, 3}, {-1, 4}, {-1, -4}>>,
  <<{4}, {-4, 1, 2}, {-1, 3}, {-2, 3}>>,
  <<{1, 2, 3}, {-1, 2, 4}, {-2, 3, 4}, {-3, -4}>>,
  <<{-1, -2}, {1, 3}, {-1, 3}, {-1, -3}>>,
  <<{1, 2, 3}, {2, 3}, {-1, 3, 4}, {-3, 4}>>,
  <<{1, 2}, {2, 3}, {-2, 4}, {-2, 1}, {-3, -4}>>}
SmallInputs == [clauses : PairFormulas, prj : SUBSET {1, 2, 3}] \cup
               [clauses : LargeFormulas, prj : SUBSET Four]
=============================================================================

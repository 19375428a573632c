---------------------------- MODULE MC_Simplify ----------------------------
(* Instances of Simplify for TLC: every formula of up to three clauses over *)
(* two variables, the empty clause and tautologies among them, and some     *)
(* formulas over three variables with chains of units and subsumed clauses. *)
EXTENDS Simplify

Pair == {1, 2}
PairClauses == SUBSET (Pair \cup {-v : v \in Pair})
PairFormulas == UNION {[1 .. n -> PairClauses] : n \in 0 .. 3}

Three == {1, 2, 3}
ThreeFormulas == {
  <<{1}, {-1, 2}, {-2, 3}, {1, 3}>>,
  <<{1, 2, 3}, {1, 2}, {1}, {-3, 2}>>,
  <<{-1, 2}, {1, 2}, {-2, 3}, {1, 2, 3}>>,
  <<{-1, 3}, {1, 2, -3}, {1, 2}, {1, 2, 3}>>,
  <<{1, 2, 3}, {2, 3}, {-1, 3}>>,
  <<{1}, {-1, -2}, {2, -3}, {3, -1}>>,
  <<{1, -1, 2}, {2, 3}, {2, 3}, {-2, 1}>>}

SmallFormulas == PairFormulas \cup ThreeFormulas
=============================================================================

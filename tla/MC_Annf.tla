------------------------------ MODULE MC_Annf ------------------------------
(* Instances of Annf for TLC: circuits as D4 prints them over up to five      *)
(* variables, with shared nodes, conjunctions of three parts, free variables  *)
(* and dead branches, each under several lists of disjoint cubes, cubes       *)
(* without a model among them; and formulas over four variables for d4d.     *)
EXTENDS DepthBound

T == Node("t", <<>>)
F == Node("f", <<>>)

\* x1 -> (x2 or x3), -x1 -> x3 with x2 free; the true node is shared.
Implications == <<
  Node("o", <<Edge(2, {}, <<>>)>>),
  Node("o", <<Edge(3, {1}, <<>>), Edge(4, {-1, 3}, <<2>>)>>),
  Node("o", <<Edge(4, {2}, <<3>>), Edge(4, {-2, 3}, <<>>)>>),
  T>>

\* Two independent parts below a unit, a free variable at the root.
Parts == <<
  Node("o", <<Edge(2, {1}, <<5>>)>>),
  Node("a", <<Edge(3, {}, <<>>), Edge(4, {}, <<>>)>>),
  Node("o", <<Edge(5, {2}, <<>>), Edge(5, {-2}, <<>>)>>),
  Node("o", <<Edge(5, {3}, <<4>>), Edge(5, {-3, 4}, <<>>)>>),
  T>>

\* A conjunction of three, one part of it shared with the other branch, a dead branch.
Shared == <<
  Node("o", <<Edge(2, {}, <<>>)>>),
  Node("o", <<Edge(3, {1}, <<>>), Edge(4, {-1}, <<2, 3>>)>>),
  Node("a", <<Edge(5, {}, <<>>), Edge(6, {}, <<>>), Edge(4, {}, <<>>)>>),
  Node("o", <<Edge(7, {4}, <<>>), Edge(7, {-4}, <<>>)>>),
  Node("o", <<Edge(7, {2}, <<>>), Edge(7, {-2}, <<>>)>>),
  Node("o", <<Edge(7, {3}, <<>>), Edge(8, {-3}, <<>>)>>),
  T,
  F>>

\* What the approximate compiler prints below its depth limit: unary nodes.
Unary == <<
  Node("o", <<Edge(2, {2}, <<>>)>>),
  Node("u", <<Edge(3, {-1}, <<4>>)>>),
  Node("a", <<Edge(4, {}, <<>>), Edge(5, {}, <<>>)>>),
  Node("u", <<Edge(6, {}, <<3>>)>>),
  Node("o", <<Edge(6, {5}, <<>>), Edge(6, {-5}, <<>>)>>),
  T>>

\* Nothing but free variables, and no model.
Free == <<Node("o", <<Edge(2, {}, <<1, 2, 3>>)>>), T>>
None == <<Node("o", <<Edge(2, {}, <<1>>)>>), F>>

CubeLists == {<<{}>>, <<{1}, {-1}>>, <<{2}, {-2, 3}, {-2, -3}>>, <<{-1, 3}, {1}>>,
              <<{-3}, {3, -2}>>, <<{1, 2, -3}>>}
SmallQueries ==
  [circuit : {Implications, Parts, Shared, Unary, Free, None}, cubes : CubeLists,
   count : {"mc"}] \cup
  [circuit : {Implications, Parts, Shared, Unary, None}, cubes : {<<{}>>, <<{3}>>},
   count : {"pc"}]

\* d4d: formulas with two components, with one that comes back below another decision,
\* with the same variables under other clauses, with literals that propagation does not
\* find, with units, with variables in no clause, without a model.
SmallFormulas == {
  {{1, 2, 3}, {-1, 4}, {-2, -4}, {3, 4}},
  {{1, 2}, {3, 4}},
  {{1, 2}, {-1, -2}, {2, 3}, {3, 4}},
  {{1, 2, 3}, {-1, -2, -3}},
  {{1, 2}, {1, -2}, {-1, 2}, {3, -4}},
  {{1}, {-1, 2, 3}, {-2, -3}},
  {{1, 2}, {1, -2}, {-1, 2}, {-1, -2}},
  {}}
SmallTasks == [formula : SmallFormulas, depth : 0 .. 3, cached : BOOLEAN]
SmallReadings == [cubes : {<<{}>>, <<{2}, {-2, 3}>>}, count : {"mc"}]
=============================================================================

------------------------------- MODULE MC_Up -------------------------------
(* Instances of Up for TLC: formulas over five variables as preprocessing     *)
(* leaves them, every partition, every matching; shares and numbers of        *)
(* clauses below, at and above the edges.                                     *)
EXTENDS Up

Formulas == {
  <<>>, <<{}, {1}>>, <<{1}>>, <<{1, 2}>>, <<{1}, {2, 3}>>,
  <<{1, 2}, {3, 4}>>, <<{1, 2}, {2, 3}, {-3, 4}>>, <<{1, -2}, {-1, 2}, {3}>>,
  <<{1, 2, 3}, {-1, 4}, {2, -4}>>, <<{1, 2}, {2, 3, 4}, {-1, -3}, {3, -4}>>,
  <<{1, 2, 3, 4}, {-1, -2}, {-3, -4}, {1, 3}>>, <<{1, 2}, {2, 3}, {3, 4}, {4, 5}>>,
  <<{1, 2}, {-2, 3, 4}, {4, 5}, {-1, -5}>>}

UpJob(order, F, q) == [tool |-> "up", order |-> order, clauses |-> F, quarters |-> q]

SmallJobs ==
  {UpJob(o, F, q) : o \in {"ascending", "random"}, F \in Formulas,
                    q \in {-4, 0, 1, 2, 3, 4, 5, 8, 16, 40}}
  \cup {UpJob("community", F, q) : F \in Formulas, q \in {2, 8}}
  \cup {[tool |-> "smp", order |-> "community", clauses |-> F, quarters |-> 0] : F \in Formulas}
=============================================================================

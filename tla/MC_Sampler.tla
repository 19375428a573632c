----------------------------- MODULE MC_Sampler -----------------------------
(* Instances of Sampler for TLC: each method on formulas over two and three *)
(* variables and several upper bounds, with teams of one to three threads.  *)
EXTENDS Sampler

Three == {1, 2, 3}
Team3 == {"t1", "t2", "t3"}

\* Formulas with two, three, one and no models.
Chain == <<{1, 2}, {-1, 2}, {-2, 3}>>
Choice == <<{1, 2, 3}, {-1, -2}, {-1, -3}, {-2, -3}>>
Corner == <<{1}, {2}, {3}, {-1, 2, 3}>>
Nothing == <<{1}, {-1, 2}, {-1, -2}>>

\* The models of the first k clauses, an upper bound as capkc computes it.
Everything == {{a, b, c} : a \in {1, -1}, b \in {2, -2}, c \in {3, -3}}
Upper(f, k) == {m \in Everything : \A id \in 1 .. k : \E l \in f[id] : l \in m}

Base == [method |-> "montecarlo", formula |-> Chain, bound |-> Upper(Chain, 2),
         team |-> Team3, n |-> 2, size |-> 2, keep |-> 1, sweeps |-> 1, block |-> 1,
         most |-> 0, descent |-> 1, burnin |-> 1]

Rejecting ==
  {[Base EXCEPT !.n = k, !.team = T] : k \in 0 .. 2, T \in SUBSET Team3 \ {{}}}
  \cup {[Base EXCEPT !.formula = Nothing, !.bound = Upper(Nothing, 1), !.team = {"t1", "t2"}]}

Walking ==
  {[Base EXCEPT !.method = "rwalk", !.formula = f, !.bound = Upper(f, 1), !.team = {"t1"},
                !.descent = d, !.burnin = b, !.n = k] :
     f \in {Chain, Choice, Corner}, d \in 0 .. 2, b \in 0 .. 2, k \in 0 .. 2}

Split == [Base EXCEPT !.method = "splitting", !.formula = Corner, !.bound = Upper(Corner, 1),
                      !.team = {"t1"}]
Pair == {"t1", "t2"}
Splits ==
  {[Split EXCEPT !.team = T, !.keep = k, !.block = b] :
     T \in {{"t1"}, Pair}, k \in 0 .. 2, b \in 1 .. 2}
  \cup {[Split EXCEPT !.sweeps = s] : s \in {0, 2}}
  \cup {[Split EXCEPT !.team = Pair, !.most = 1],
        [Split EXCEPT !.formula = Choice, !.bound = Everything, !.size = 3],
        [Split EXCEPT !.team = Pair, !.size = 1]}

AllJobs == Rejecting \cup Walking \cup Splits
=============================================================================

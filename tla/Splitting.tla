------------------------------ MODULE Splitting ------------------------------
(***************************************************************************)
(* The splitting sampler (class SplittingSampler of                        *)
(* capkc/capkc/src/assignment_generator.hpp): a population is drawn by a   *)
(* team of threads, then filtered by a threshold on the number of          *)
(* unsatisfied clauses, cloned to its old size and mutated under the       *)
(* threshold, until it holds models.                                       *)
(*                                                                         *)
(* The loop over the cubes to mutate is parallel.  Its iterations touch    *)
(* their own cube only, and are taken one after the other here, but all of *)
(* them shuffle and read the member `vars': with several threads an        *)
(* iteration may find any variables there.                                 *)
(***************************************************************************)
EXTENDS Team

VARIABLES
  population,   \* the cubes, as [m, nb]: the assignment and its nb_unsat
  thresh,
  cursor,       \* the cube to mutate
  sweep,        \* the sweeps it has had
  left,         \* how many variables of this sweep are still to come
  fresh         \* the variables that may come

mutateVars == <<cursor, sweep, left, fresh>>
splitVars == <<population, thresh, mutateVars>>

SplitInit ==
  /\ population = <<>>
  /\ thresh = 0
  /\ cursor = 1
  /\ sweep = 0
  /\ left = 0
  /\ fresh = {}

Still == Fixed /\ UNCHANGED <<nbDone, printed>>

-----------------------------------------------------------------------------
(* The initial population *)

NewPopulation ==
  /\ pc = "start"
  /\ job.method = "splitting"
  /\ nbDone < job.n
  /\ StartTeam
  /\ population' = <<>>
  /\ pc' = "fill"
  /\ Still /\ UNCHANGED <<thresh, mutateVars>>

EndSplitting ==
  /\ pc = "start"
  /\ job.method = "splitting"
  /\ nbDone >= job.n
  /\ pc' = "done"
  /\ Still /\ UNCHANGED <<teamVars, splitVars>>

Fit(m) == job.most = 0 \/ job.most >= NbUnsat(m)

Fill(t) ==
  /\ pc = "fill"
  /\ \/ (Test(t, job.size) \/ Try(t)) /\ UNCHANGED population
     \/ Check(t, job.size, Fit(held[t])) /\ UNCHANGED population
     \/ /\ Push(t, job.size)
        /\ population' = IF Room(job.size)
                         THEN Append(population, [m |-> held[t], nb |-> NbUnsat(held[t])])
                         ELSE population
  /\ Still /\ UNCHANGED <<pc, thresh, mutateVars>>

\* assert(population.size() == population_size)
Filled ==
  /\ pc = "fill"
  /\ Joined
  /\ pc' = IF Len(population) = job.size THEN "filter" ELSE "aborted"
  /\ Still /\ UNCHANGED <<teamVars, splitVars>>

-----------------------------------------------------------------------------
(* filter *)

Below(x) == Cardinality({i \in DOMAIN population : population[i].nb < x})

\* The threshold is the number of the cube at index keep of the sorted population, which is
\* out of range when the whole population is kept: then anything may be read there.
Threshes ==
  IF job.keep < Len(population)
  THEN {x \in {population[i].nb : i \in DOMAIN population} :
          Below(x) <= job.keep /\ job.keep < Below(x + 1)}
  ELSE 0 .. Len(clauses)

Filter ==
  /\ pc = "filter"
  /\ thresh' \in Threshes
  /\ \E order \in Ascending({i \in DOMAIN population : population[i].nb <= thresh'}) :
       population' = [j \in DOMAIN order |-> population[order[j]]]
  /\ pc' = IF population' = <<>> THEN "aborted"
           ELSE IF \E i \in DOMAIN population' : population'[i].nb = 0 THEN "harvest"
           ELSE "clone"
  /\ Still /\ UNCHANGED <<teamVars, mutateVars>>

\* Cubes without unsatisfied clauses are printed, in any order, until N are.
Solved == {i \in DOMAIN population : population[i].nb = 0}

Harvest ==
  /\ pc = "harvest"
  /\ LET want == job.n - nbDone
         k == IF Cardinality(Solved) < want THEN Cardinality(Solved) ELSE want
     IN  \E S \in SUBSET Solved : \E order \in Orders(S) :
           /\ Cardinality(S) = k
           /\ printed' = printed \o [j \in 1 .. k |-> population[order[j]].m]
           /\ nbDone' = nbDone + k
  /\ pc' = "start"
  /\ Fixed /\ UNCHANGED <<teamVars, splitVars>>

-----------------------------------------------------------------------------
(* splitting_clone *)

\* Every cube is copied as often as any other, once more for some of them if the sizes
\* do not divide.
Clonings ==
  LET ms == Len(population)
      copies(g, i) == Cardinality({j \in DOMAIN g : g[j] = i})
  IN  {g \in [1 .. job.size -> 1 .. ms] :
         /\ \A i \in 1 .. ms : copies(g, i) - job.size \div ms \in {0, 1}
         /\ \A j, k \in DOMAIN g : j < k => g[j] <= g[k]}

\* A sweep that begins.
StartSweep == left' = Cardinality(Vars) /\ fresh' = Vars

Clone ==
  /\ pc = "clone"
  /\ \E g \in Clonings : population' = [j \in 1 .. job.size |-> population[g[j]]]
  /\ cursor' = 1
  /\ sweep' = 0
  /\ StartSweep
  /\ pc' = "mutate"
  /\ Still /\ UNCHANGED <<teamVars, thresh>>

-----------------------------------------------------------------------------
(* mutate *)

\* `vars' is shuffled by several threads at once.
Raced == Cardinality(job.team) > 1 /\ Len(population) > 1

\* The next k variables of the sweep.
Draws(k) ==
  {vs \in [1 .. k -> fresh] : Raced \/ \A i, j \in 1 .. k : vs[i] = vs[j] => i = j}

Drawn(vs) ==
  /\ left' = left - Len(vs)
  /\ fresh' = IF Raced THEN fresh ELSE fresh \ SlotsOf(vs)
  /\ UNCHANGED <<cursor, sweep>>

Mutating == pc = "mutate" /\ cursor \in DOMAIN population /\ sweep < job.sweeps

\* mutate_cube_single: a literal is flipped on a coin if the threshold allows it.
FlipOne ==
  /\ Mutating
  /\ job.block = 1
  /\ left > 0
  /\ \E vs \in Draws(1) :
       LET c == population[cursor]
           nb == FlipCount(c.m, c.nb, vs[1])
           flipped == [m |-> Flip(c.m, {TrueOf(c.m, vs[1])}), nb |-> nb]
       IN  /\ Drawn(vs)
           /\ \/ nb <= thresh /\ population' = [population EXCEPT ![cursor] = flipped]
              \/ UNCHANGED population
  /\ Still /\ UNCHANGED <<teamVars, pc, thresh>>

\* m after each literal of a sequence is made true in turn: the last one of a variable stays.
Assign(m, lits) ==
  LET last == {i \in DOMAIN lits : \A j \in DOMAIN lits : j > i => lits[j] # -lits[i]}
      true == {lits[i] : i \in last}
  IN  (m \ {-l : l \in true}) \cup true

\* The assertions of mutate_cube on one block: the incremental number is the recount, of
\* what the literals make of the cube, and some assignment stays under the threshold.
BlockSound(c, vs) ==
  LET blocks == {[j \in DOMAIN vs |-> IF b[j] THEN vs[j] ELSE -vs[j]] :
                   b \in [DOMAIN vs -> BOOLEAN]}
      nb(lits) == FlipToCount(c.m, c.nb, SlotsOf(lits))
  IN  /\ \A lits \in blocks : nb(lits) = NbUnsat(Assign(c.m, lits))
      /\ \A lits \in blocks : SlotsOf(lits) \subseteq c.m => nb(lits) = c.nb
      /\ \E lits \in blocks : nb(lits) <= thresh

\* mutate_cube: blocks of variables are tried, and the cube is not changed.
TryBlock ==
  /\ Mutating
  /\ job.block > 1
  /\ left >= job.block
  /\ \E vs \in Draws(job.block) :
       /\ Drawn(vs)
       /\ pc' = IF BlockSound(population[cursor], vs) THEN "mutate" ELSE "aborted"
  /\ Still /\ UNCHANGED <<teamVars, population, thresh>>

EndSweep ==
  /\ Mutating
  /\ left < job.block
  /\ sweep' = sweep + 1
  /\ StartSweep
  /\ Still /\ UNCHANGED <<teamVars, pc, population, thresh, cursor>>

NextCube ==
  /\ pc = "mutate" /\ cursor \in DOMAIN population /\ sweep >= job.sweeps
  /\ cursor' = cursor + 1
  /\ sweep' = 0
  /\ Still /\ UNCHANGED <<teamVars, pc, population, thresh, left, fresh>>

EndMutation ==
  /\ pc = "mutate" /\ cursor \notin DOMAIN population
  /\ pc' = "filter"
  /\ Still /\ UNCHANGED <<teamVars, splitVars>>

SplitStep ==
  \/ NewPopulation \/ EndSplitting \/ Filled \/ Filter \/ Harvest \/ Clone
  \/ FlipOne \/ TryBlock \/ EndSweep \/ NextCube \/ EndMutation
  \/ \E t \in Threads : Fill(t)

SplitTypeOK ==
  /\ population \in Seq([m : Assignments, nb : Nat])
  /\ thresh \in Nat
  /\ cursor \in Nat /\ sweep \in Nat /\ left \in Nat
  /\ fresh \subseteq Vars
=============================================================================

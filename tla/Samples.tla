------------------------------ MODULE Samples ------------------------------
(***************************************************************************)
(* What the three samplers of capkc (class MonteCarlo, SplittingSampler    *)
(* and MetropolisHastings of capkc/capkc/src/assignment_generator.hpp)     *)
(* share: the formula, the options, the random generator, the samples      *)
(* printed, and the queries of cnf.cpp that keep the number or the set of  *)
(* unsatisfied clauses of an assignment when literals are flipped.         *)
(*                                                                         *)
(* An assignment is the set of its true literals.  A generator returns any *)
(* model of the upper bound, the set job.bound.                            *)
(***************************************************************************)
EXTENDS CnfStore

CONSTANTS
  Threads,   \* the threads a parallel region may have
  Jobs       \* the command lines and files a sampler is started with

\* The fields of a job are the options of sampler.cpp, with the formula, the models of the
\* upper bound and the team of OpenMP threads; keep is ceil(population * retention).
JobFields == [
  method : {"montecarlo", "splitting", "rwalk"},
  formula : Seq((SUBSET Literals) \ {{}}),
  bound : (SUBSET Assignments) \ {{}},
  team : (SUBSET Threads) \ {{}},
  n : Nat,
  size : Nat \ {0}, keep : Nat, sweeps : Nat, block : Nat \ {0}, most : Nat,
  descent : Nat, burnin : Nat]

ASSUME SamplesAssumption ==
  /\ IsFiniteSet(Threads)
  /\ Jobs \subseteq JobFields
  /\ \A j \in Jobs : Len(j.formula) < 2^Width

VARIABLES
  job,
  pc,        \* where the main thread stands
  nbDone,    \* nb_success, nb_done
  printed    \* the samples printed, in order

sampleVars == <<storeVars, job, pc, nbDone, printed>>

SamplesInit ==
  /\ job \in Jobs
  /\ Load(job.formula)
  /\ pc = "start"
  /\ nbDone = 0
  /\ printed = <<>>

\* The sampler's formula is never changed.
Fixed == UNCHANGED <<storeVars, job>>

-----------------------------------------------------------------------------
(* Queries on an assignment m *)

\* clause_is_sat, nb_unsat and unsat_clause_ids.
Unsat(S, m) == {id \in S : active[id] /\ ~Satisfies(m, clauses[id])}
UnsatIds(m) == Unsat(Ids, m)
NbUnsat(m) == Cardinality(UnsatIds(m))
Sat(m) == UnsatIds(m) = {}

\* The literal of l's variable that is true, and m once it is flipped.
TrueOf(m, l) == IF l \in m THEN l ELSE -l
Flip(m, L) == (m \ L) \cup {-l : l \in L}

\* nb_flip_unsatisfied, from the number n of m: the clauses of both literals are counted
\* before and after.
FlipCount(m, n, l) ==
  LET bad(S, a) == Cardinality(Unsat(S, a))
      after == Flip(m, {TrueOf(m, l)})
  IN  n - bad(idx[l], m) - bad(idx[-l], m) + bad(idx[l], after) + bad(idx[-l], after)

\* nb_unsat_flip: m is made to agree with the literals L, each clause counted once.
FlipToCount(m, n, L) ==
  LET flipped == {k \in m : -k \in L}
      touched == UNION {idx[k] \cup idx[-k] : k \in flipped}
  IN  n - Cardinality(Unsat(touched, m)) + Cardinality(Unsat(touched, Flip(m, flipped)))

\* unsat_clause_ids_flip, from the set ids of m: every clause of both literals is inserted
\* or erased.
\* Faulty variant: nothing is erased.
FlipIdsInsert(m, ids, l) ==
  ids \cup Unsat(idx[l] \cup idx[-l], Flip(m, {TrueOf(m, l)}))
FlipIds(m, ids, l) ==
  LET touched == idx[l] \cup idx[-l]
  IN  (ids \ touched) \cup Unsat(touched, Flip(m, {TrueOf(m, l)}))
=============================================================================

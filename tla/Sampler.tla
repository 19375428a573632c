------------------------------- MODULE Sampler -------------------------------
(***************************************************************************)
(* The sampler tool of capkc (setup_runner of capkc/capkc/src/sampler.cpp):*)
(* one of the three methods, on the formula of .smp and a generator of     *)
(* models of the upper bound.                                              *)
(***************************************************************************)
EXTENDS MonteCarlo, Splitting, Metropolis

vars == <<sampleVars, teamVars, rejected, splitVars, walkVars>>

Init ==
  /\ SamplesInit
  /\ TeamInit
  /\ rejected = 0
  /\ SplitInit
  /\ WalkInit

Next ==
  \/ MonteCarloStep /\ UNCHANGED <<splitVars, walkVars>>
  \/ SplitStep /\ UNCHANGED <<rejected, walkVars>>
  \/ WalkStep /\ UNCHANGED <<teamVars, rejected, splitVars>>

\* The threads of the rejection sampler run, and draws are independent: if models of the
\* formula can be drawn again and again one is.
Fairness ==
  /\ WF_vars((StartSampling \/ EndSampling) /\ UNCHANGED <<splitVars, walkVars>>)
  /\ \A t \in Threads : WF_vars(MonteCarloThread(t) /\ UNCHANGED <<splitVars, walkVars>>)
  /\ SF_vars(DrawModel /\ UNCHANGED <<splitVars, walkVars>>)

Spec == Init /\ [][Next]_vars /\ Fairness

-----------------------------------------------------------------------------
(* Properties *)

TypeOK ==
  /\ StoreTypeOK /\ TeamTypeOK /\ SplitTypeOK /\ WalkTypeOK
  /\ job \in Jobs
  /\ pc \in {"start", "team", "fill", "filter", "harvest", "clone", "mutate", "walk",
             "done", "aborted"}
  /\ nbDone \in Nat
  /\ printed \in Seq(Assignments)
  /\ rejected \in 0 .. 2^Width - 1

\* The number of unsatisfied clauses of a cube and the set of a chain, which are never
\* recounted, are what a recount gives after any sequence of flips; mutated cubes stay
\* under the threshold; and no assertion fails, unless blocks are drawn from the shared
\* variables by several threads or the threshold is read out of range.  TypeOK is part of it.
\* (assignment_generator.hpp:494-560,821-858; cnf.cpp:429-568)
CountsExact ==
  /\ TypeOK
  /\ \A i \in DOMAIN population :
       /\ population[i].nb = NbUnsat(population[i].m)
       /\ pc = "mutate" => population[i].nb <= thresh
  /\ pc = "walk" => unsat = UnsatIds(chain)
  /\ pc = "aborted" => job.keep >= job.size \/ (Raced /\ job.block > 1)

\* What is printed are models of the formula, at most N of them, and N are counted when
\* the tool ends, whatever the method and the team; the rejection sampler and splitting
\* print them all.  (assignment_generator.hpp:397-411,636-645,805-926)
SamplesSound ==
  /\ SlotsOf(printed) \subseteq Models({clauses[id] : id \in Ids})
  /\ Len(printed) <= nbDone /\ nbDone <= job.n
  /\ job.method # "rwalk" => Len(printed) = nbDone
  /\ pc = "done" => nbDone = job.n

\* If the upper bound holds a model of the formula the rejection sampler ends.
\* (assignment_generator.hpp:389)
Termination ==
  job.method = "montecarlo" /\ (\E m \in job.bound : Sat(m)) ~> pc = "done"

\* With --print-samples all the samples asked for are printed.
\* (sampler.cpp:24-26)
AllPrinted == pc = "done" => Len(printed) = job.n
=============================================================================

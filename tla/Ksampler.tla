------------------------------ MODULE Ksampler ------------------------------
(***************************************************************************)
(* divkc's sampler (ksampler of divkc/cppddnnf/src/pdac.cpp).  With at     *)
(* most k paths all solutions are counted and drawn from; with more, every *)
(* sample is drawn from the solutions of k random paths of its own.        *)
(***************************************************************************)
EXTENDS PathSet

StartK ==
  /\ job.tool = "sampler"
  /\ pc = "start"
  /\ IF Cardinality(Paths) <= job.k THEN GoInto("count", Paths)
     ELSE GoInto("heuristic", 1 .. job.nb)
  /\ UNCHANGED <<job, tmc, lines>>

\* One iteration of exact_uniform_sampling's first loop, which adds in a critical section.
CountPath(l) ==
  /\ job.tool = "sampler"
  /\ pc = "count"
  /\ l \in todo
  /\ tmc' = tmc + job.counts[l]
  /\ todo' = todo \ {l}
  /\ UNCHANGED <<job, pc, flight, lines>>

\* The distribution over all solutions is built before the second loop.
Counted ==
  /\ job.tool = "sampler"
  /\ pc = "count"
  /\ todo = {}
  /\ IF tmc = 0 THEN Crash ELSE GoInto("exact", 1 .. job.nb)
  /\ UNCHANGED <<job, tmc, lines>>

DrawExact(i) ==
  /\ job.tool = "sampler"
  /\ pc = "exact"
  /\ Free(i)
  /\ \E id \in 1 .. tmc : Begin(i, Selected(Paths, id))
  /\ UNCHANGED <<job, pc, tmc, lines>>

\* k different paths are drawn, then one of their solutions.
DrawHeuristic(i) ==
  /\ job.tool = "sampler"
  /\ pc = "heuristic"
  /\ Free(i)
  /\ \E P \in kSubset(job.k, Paths) :
       IF Mass(P) = 0 THEN Crash
       ELSE \E id \in 1 .. Mass(P) : Begin(i, Selected(P, id)) /\ UNCHANGED pc
  /\ UNCHANGED <<job, tmc, lines>>

KsamplerStep ==
  \/ StartK \/ Counted
  \/ \E i \in todo : CountPath(i) \/ DrawExact(i) \/ DrawHeuristic(i)
  \/ /\ job.tool = "sampler" /\ pc \in {"exact", "heuristic"}
     /\ Finish \/ \E i \in DOMAIN flight : PrintLine(i)
=============================================================================

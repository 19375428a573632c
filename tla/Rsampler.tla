------------------------------ MODULE Rsampler ------------------------------
(***************************************************************************)
(* divkc's rsampler (divkc/cppddnnf/src/rsampler.cpp): paths, k different  *)
(* random ones or all of them, pass through a reservoir of nb entries that *)
(* keeps each with a probability given by its number of solutions; then    *)
(* one solution of every entry is drawn and printed.                       *)
(***************************************************************************)
EXTENDS PathSet

VARIABLES
  visited,     \* the paths begun
  reservoir    \* the paths kept

reservoirVars == <<visited, reservoir>>

ReservoirInit == visited = {} /\ reservoir = <<>>

\* Whether paths are drawn.  Faulty variant: the two branches are exchanged.
FewPaths == Cardinality(Paths) < job.k
ManyPaths == Cardinality(Paths) > job.k

StartR ==
  /\ job.tool = "rsampler"
  /\ pc = "start"
  /\ GoInto("fill", IF ManyPaths THEN 1 .. job.k ELSE Paths)
  /\ UNCHANGED <<job, tmc, lines, reservoirVars>>

\* The path of an iteration: the loop's own, or one that no other iteration has drawn.
VisitPath(i) ==
  /\ job.tool = "rsampler"
  /\ pc = "fill"
  /\ Free(i)
  /\ \E l \in IF ManyPaths THEN Paths \ visited ELSE {i} :
       Begin(i, l) /\ visited' = visited \cup {l}
  /\ UNCHANGED <<job, pc, tmc, lines, reservoir>>

\* The reservoir once the path l, with a solutions, has passed: filled, or every entry
\* replaced if a draw of its own is at most a.
\* Faulty variant: the comparison is strict.
PassedStrict(l, a, draws) ==
  IF Len(reservoir) < job.nb
  THEN [j \in 1 .. job.nb |-> IF j \in DOMAIN reservoir THEN reservoir[j] ELSE l]
  ELSE [j \in DOMAIN reservoir |-> IF draws[j] < a THEN l ELSE reservoir[j]]
Passed(l, a, draws) ==
  IF Len(reservoir) < job.nb
  THEN [j \in 1 .. job.nb |-> IF j \in DOMAIN reservoir THEN reservoir[j] ELSE l]
  ELSE [j \in DOMAIN reservoir |-> IF draws[j] <= a THEN l ELSE reservoir[j]]

\* The second critical section.  No number can be drawn while there is no solution.
TallyPath(i) ==
  /\ job.tool = "rsampler"
  /\ pc = "fill"
  /\ i \in DOMAIN flight
  /\ tmc' = tmc + job.counts[flight[i]]
  /\ IF Len(reservoir) = job.nb /\ tmc' = 0
     THEN Crash /\ UNCHANGED reservoir
     ELSE /\ \E draws \in [DOMAIN reservoir -> 1 .. tmc'] :
               reservoir' = Passed(flight[i], job.counts[flight[i]], draws)
          /\ End(i)
          /\ UNCHANGED pc
  /\ UNCHANGED <<job, lines, visited>>

\* The reservoir is shuffled: the loop that prints takes its entries in any order anyway.
Filled ==
  /\ job.tool = "rsampler"
  /\ pc = "fill"
  /\ Over
  /\ GoInto("print", DOMAIN reservoir)
  /\ UNCHANGED <<job, tmc, lines, reservoirVars>>

DrawSolution(i) ==
  /\ job.tool = "rsampler"
  /\ pc = "print"
  /\ Free(i)
  /\ IF Solutions(reservoir[i]) = {} THEN Crash
     ELSE \E id \in Solutions(reservoir[i]) : Begin(i, <<reservoir[i], id>>) /\ UNCHANGED pc
  /\ UNCHANGED <<job, tmc, lines, reservoirVars>>

RsamplerStep ==
  \/ StartR \/ Filled
  \/ \E i \in todo : VisitPath(i) \/ DrawSolution(i)
  \/ \E i \in DOMAIN flight : TallyPath(i)
  \/ /\ job.tool = "rsampler" /\ pc = "print"
     /\ Finish \/ \E i \in DOMAIN flight : PrintLine(i)
     /\ UNCHANGED reservoirVars

ReservoirTypeOK ==
  /\ visited \subseteq Paths
  /\ reservoir \in Seq(Paths) /\ Len(reservoir) \in {0, job.nb}
=============================================================================

------------------------------ MODULE Rhsampler ------------------------------
(***************************************************************************)
(* divkc's rhsampler (divkc/cppddnnf/src/rhsampler.cpp), sequential.  All  *)
(* solutions, ordered by path and id, pass through a reservoir of nb of    *)
(* them; once it is full a random number of solutions is skipped after     *)
(* each one taken.  When 1000 paths have been visited whole paths are      *)
(* jumped over, at the mean number of solutions of those visited.          *)
(*                                                                         *)
(* Bounds: Warmup is the code's 1000; MaxSkip bounds the random skip and   *)
(* MaxVisits the visits, which are counted again when a path is revisited. *)
(***************************************************************************)
EXTENDS PathSet

CONSTANTS Warmup, MaxSkip, MaxVisits

ASSUME RhAssumption == Warmup \in Nat \ {0} /\ MaxSkip \in Nat /\ MaxVisits \in Nat

VARIABLES
  ipath, isol,   \* the next solution
  visits,        \* c_count
  found,         \* the reservoir
  jumped         \* history: whether paths have been jumped over

\* The code's cmc is tmc here.
skipVars == <<ipath, isol, visits, found, jumped>>

SkipInit == ipath = 1 /\ isol = 1 /\ visits = 0 /\ found = <<>> /\ jumped = FALSE

\* The path p becomes the current one; past the last one the loop ends.
Visit(p) ==
  /\ ipath' = p
  /\ tmc' = IF p \in Paths THEN tmc + job.counts[p] ELSE tmc
  /\ visits' = IF p \in Paths THEN visits + 1 ELSE visits

\* The first path is visited in any case: of a circuit without paths get_path finds
\* nothing and the upper bound is counted without assumptions.
StartRh ==
  /\ job.tool = "rhsampler"
  /\ pc = "start"
  /\ pc' = "skip"
  /\ Visit(1)
  /\ UNCHANGED <<job, todo, flight, lines, isol, found, jumped>>

Looking ==
  /\ job.tool = "rhsampler"
  /\ pc = "skip"
  /\ ipath \in Paths
  /\ visits <= MaxVisits

\* How far beyond the solutions of the path the next one is.
Left == isol - job.counts[ipath]
Near == visits < Warmup \/ Left < tmc \div visits

\* Faulty variant: a path that has been left is skipped past one solution of the next.
NextPathLate == isol' = Left + 1 /\ Visit(ipath + 1)
NextPathFirst == isol' = Left /\ Visit(ipath + 1)

NextPath ==
  /\ Looking
  /\ Left > 0
  /\ Near
  /\ NextPathFirst
  /\ UNCHANGED <<job, pc, todo, flight, lines, found, jumped>>

\* A jump over no path visits the current one again.
JumpPaths ==
  /\ Looking
  /\ Left > 0
  /\ ~Near
  /\ jumped' = TRUE
  /\ IF tmc = 0 THEN Crash /\ UNCHANGED <<tmc, ipath, isol, visits>>
     ELSE LET nb == (Left * visits) \div tmc
          IN  /\ Visit(ipath + nb)
              /\ isol' = Left - (nb * tmc) \div visits
              /\ UNCHANGED <<pc, todo, flight>>
  /\ UNCHANGED <<job, lines, found>>

\* The solutions seen when one has been taken, as compute_geomeric gets it.
Seen(next) == tmc - job.counts[ipath] + next + 1

\* The random skip: with a probability above 1 its logarithm is not a number.
Skip(next, size) ==
  IF size > Seen(next) THEN Crash /\ UNCHANGED isol
  ELSE /\ \E g \in 0 .. IF size = Seen(next) THEN 0 ELSE MaxSkip : isol' = isol + 1 + g
       /\ UNCHANGED <<pc, todo, flight>>

Fill ==
  /\ Looking
  /\ Left <= 0
  /\ Len(found) < job.nb
  /\ found' = Append(found, <<ipath, isol>>)
  /\ IF Len(found') = job.nb THEN Skip(isol + 1, job.nb)
     ELSE isol' = isol + 1 /\ UNCHANGED <<pc, todo, flight>>
  /\ UNCHANGED <<job, tmc, lines, ipath, visits, jumped>>

\* A random entry is replaced; a reservoir without entries is written out of range.
Replace ==
  /\ Looking
  /\ Left <= 0
  /\ Len(found) = job.nb
  /\ IF found = <<>> THEN Crash /\ UNCHANGED <<isol, found>>
     ELSE /\ \E r \in DOMAIN found : found' = [found EXCEPT ![r] = <<ipath, isol>>]
          /\ Skip(isol, job.nb)
  /\ UNCHANGED <<job, tmc, lines, ipath, visits, jumped>>

PrintFound ==
  /\ job.tool = "rhsampler"
  /\ pc = "skip"
  /\ ipath \notin Paths
  /\ lines' = found
  /\ pc' = "done"
  /\ UNCHANGED <<job, todo, flight, tmc, skipVars>>

RhsamplerStep ==
  StartRh \/ NextPath \/ JumpPaths \/ Fill \/ Replace \/ PrintFound

SkipTypeOK ==
  /\ ipath \in Nat \ {0} /\ isol \in Nat /\ visits \in Nat
  /\ found \in Seq(Paths \X Nat) /\ Len(found) <= job.nb
  /\ jumped \in BOOLEAN
=============================================================================

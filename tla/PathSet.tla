------------------------------ MODULE PathSet ------------------------------
(***************************************************************************)
(* What the tools of divkc (divkc/cppddnnf/src) share: the two circuits    *)
(* they have read, the parallel loops, the lines they print.               *)
(*                                                                         *)
(* The projected circuit has the paths 1, 2, ...; job.counts is the number *)
(* of models the upper bound has under each of them, which may be 0 where  *)
(* the projection was given up early.  A solution is a pair of a path and  *)
(* of an id: Annf shows that the ids of a path are its models.             *)
(***************************************************************************)
EXTENDS Integers, Sequences, FiniteSets, FiniteSetsExt, Functions

CONSTANT Jobs      \* the command lines and circuits a tool is started with

JobFields == [tool : {"sampler", "rsampler", "rhsampler", "appmc", "lmc", "pc"},
              counts : Seq(Nat), nb : Nat, k : Nat, threads : Nat \ {0}, verbose : BOOLEAN]

ASSUME JobsAssumption == Jobs \subseteq JobFields

VARIABLES
  job,
  pc,       \* where the main thread stands
  todo,     \* the iterations of a parallel loop that no thread has begun
  flight,   \* what the iterations begun and not ended hold
  tmc,      \* the number of solutions counted
  lines     \* the solutions printed, in order

pathVars == <<job, pc, todo, flight, tmc, lines>>

Paths == DOMAIN job.counts

\* The models of the upper bound under a path, and under a set of paths.
Solutions(p) == 1 .. job.counts[p]
Mass(P) == SumFunctionOnSet(job.counts, P)

PathInit ==
  /\ job \in Jobs
  /\ pc = "start"
  /\ todo = {} /\ flight = <<>>
  /\ tmc = 0
  /\ lines = <<>>

\* The assertion of a distribution over no number, an exception in a parallel region.
Crash == pc' = "crashed" /\ UNCHANGED <<todo, flight>>

-----------------------------------------------------------------------------
(* Parallel loops: any thread of the team takes any iteration that is left; what an    *)
(* iteration does on its own is done when it enters its first critical section.        *)

GoInto(label, iterations) == pc' = label /\ todo' = iterations /\ flight' = <<>>
Over == todo = {} /\ DOMAIN flight = {}

Free(i) == i \in todo /\ Cardinality(DOMAIN flight) < job.threads
Begin(i, x) ==
  /\ todo' = todo \ {i}
  /\ flight' = [j \in DOMAIN flight \cup {i} |-> IF j = i THEN x ELSE flight[j]]
End(i) == flight' = Restrict(flight, DOMAIN flight \ {i}) /\ UNCHANGED todo

\* The last critical section of the loops that print: one line at a time.
PrintLine(i) ==
  /\ i \in DOMAIN flight
  /\ lines' = Append(lines, flight[i])
  /\ End(i)
  /\ UNCHANGED <<job, pc, tmc>>

Finish ==
  /\ Over
  /\ pc' = "done"
  /\ UNCHANGED <<job, todo, flight, tmc, lines>>

\* The solution with the number id among those of the paths P, in their order.
\* Faulty variant: the number of the solutions before the path is not subtracted.
SelectedWhole(P, id) ==
  LET before(p) == Mass({q \in P : q < p})
      p == CHOOSE p \in P : before(p) < id /\ id <= before(p) + job.counts[p]
  IN  <<p, id>>
Selected(P, id) ==
  LET before(p) == Mass({q \in P : q < p})
      p == CHOOSE p \in P : before(p) < id /\ id <= before(p) + job.counts[p]
  IN  <<p, id - before(p)>>

IsSolution(x) == x[1] \in Paths /\ x[2] \in Solutions(x[1])

PathTypeOK ==
  /\ job \in Jobs
  /\ pc \in {"start", "count", "exact", "heuristic", "fill", "print", "skip",
            "sample", "tries", "done", "crashed"}
  /\ todo \subseteq Nat
  /\ DOMAIN flight \subseteq Nat /\ DOMAIN flight \cap todo = {}
  /\ Cardinality(DOMAIN flight) <= job.threads
  /\ tmc \in Nat
  /\ lines \in Seq(Nat \X Nat)
=============================================================================

-------------------------------- MODULE Team --------------------------------
(***************************************************************************)
(* The parallel region in which MonteCarlo and SplittingSampler (run of    *)
(* capkc/capkc/src/assignment_generator.hpp) collect generated             *)
(* assignments: a shared count is tested without a lock, before a draw and *)
(* after it, and once more in the critical section that increments it.     *)
(*                                                                         *)
(* The random streams the threads take on entry are left out: AppMC models *)
(* the same lines.                                                         *)
(***************************************************************************)
EXTENDS Samples

VARIABLES
  at,        \* where each thread stands
  held,      \* the assignment each thread has drawn
  nbTries,   \* nb_tries, a size_t
  count      \* result_count, population_count

teamVars == <<at, held, nbTries, count>>

TeamInit ==
  /\ at = [t \in Threads |-> "out"]
  /\ held = [t \in Threads |-> {}]
  /\ nbTries = 0
  /\ count = 0

StartTeam ==
  /\ at' = [t \in Threads |-> IF t \in job.team THEN "test" ELSE "out"]
  /\ held' = [t \in Threads |-> {}]
  /\ nbTries' = 0
  /\ count' = 0

GoTo(t, label) == at' = [at EXCEPT ![t] = label]

\* The condition of the loop.
\* Faulty variants: a try is counted before the condition is tested; the goal itself is
\* let through.
TestLate(t, goal) ==
  /\ at[t] = "test"
  /\ GoTo(t, IF count < goal THEN "try" ELSE "out")
  /\ nbTries' = IF count < goal THEN nbTries ELSE Wrap(nbTries + 1)
  /\ UNCHANGED <<held, count>>
TestInclusive(t, goal) ==
  /\ at[t] = "test"
  /\ GoTo(t, IF count <= goal THEN "try" ELSE "out")
  /\ UNCHANGED <<held, nbTries, count>>
Test(t, goal) ==
  /\ at[t] = "test"
  /\ GoTo(t, IF count < goal THEN "try" ELSE "out")
  /\ UNCHANGED <<held, nbTries, count>>

\* The atomic increment, and the draw, which is the thread's own.
Try(t) ==
  /\ at[t] = "try"
  /\ nbTries' = Wrap(nbTries + 1)
  /\ \E m \in job.bound : held' = [held EXCEPT ![t] = m]
  /\ GoTo(t, "check")
  /\ UNCHANGED count

\* The assignment is wanted if it is fit and the count has not reached the goal.
Check(t, goal, fit) ==
  /\ at[t] = "check"
  /\ GoTo(t, IF fit /\ count < goal THEN "push" ELSE "test")
  /\ held' = IF fit /\ count < goal THEN held ELSE [held EXCEPT ![t] = {}]
  /\ UNCHANGED <<nbTries, count>>

\* The critical section.
\* Faulty variant: the count is not tested again.
RoomAssumed(goal) == TRUE
Room(goal) == count < goal

Push(t, goal) ==
  /\ at[t] = "push"
  /\ count' = IF Room(goal) THEN count + 1 ELSE count
  /\ held' = [held EXCEPT ![t] = {}]
  /\ GoTo(t, "test")
  /\ UNCHANGED nbTries

Joined == \A t \in Threads : at[t] = "out"

TeamTypeOK ==
  /\ at \in [Threads -> {"test", "try", "check", "push", "out"}]
  /\ held \in [Threads -> Assignments \cup {{}}]
  /\ nbTries \in 0 .. 2^Width - 1
  /\ count \in Nat
=============================================================================

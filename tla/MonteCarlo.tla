----------------------------- MODULE MonteCarlo -----------------------------
(***************************************************************************)
(* The rejection sampler (class MonteCarlo of                              *)
(* capkc/capkc/src/assignment_generator.hpp): a team draws from the upper  *)
(* bound and prints the models of the formula among the draws until N are  *)
(* printed.  The estimate printed last is the bound's count times          *)
(* nb_success / nb_tries.                                                  *)
(***************************************************************************)
EXTENDS Team

VARIABLE rejected   \* history: draws that are no models, modulo 2^Width

StartSampling ==
  /\ pc = "start"
  /\ job.method = "montecarlo"
  /\ StartTeam
  /\ pc' = "team"
  /\ Fixed /\ UNCHANGED <<nbDone, printed, rejected>>

TestDone(t) ==
  /\ Test(t, job.n)
  /\ Fixed /\ UNCHANGED <<pc, nbDone, printed, rejected>>

DrawSample(t) ==
  /\ Try(t)
  /\ rejected' = IF Sat(held'[t]) THEN rejected ELSE Wrap(rejected + 1)
  /\ Fixed /\ UNCHANGED <<pc, nbDone, printed>>

CheckSample(t) ==
  /\ Check(t, job.n, Sat(held[t]))
  /\ Fixed /\ UNCHANGED <<pc, nbDone, printed, rejected>>

PushSample(t) ==
  /\ Push(t, job.n)
  /\ IF Room(job.n)
     THEN nbDone' = nbDone + 1 /\ printed' = Append(printed, held[t])
     ELSE UNCHANGED <<nbDone, printed>>
  /\ Fixed /\ UNCHANGED <<pc, rejected>>

EndSampling ==
  /\ pc = "team"
  /\ Joined
  /\ pc' = "done"
  /\ Fixed /\ UNCHANGED <<teamVars, nbDone, printed, rejected>>

MonteCarloThread(t) ==
  /\ pc = "team"
  /\ TestDone(t) \/ DrawSample(t) \/ CheckSample(t) \/ PushSample(t)

MonteCarloStep == StartSampling \/ EndSampling \/ \E t \in Threads : MonteCarloThread(t)

\* Some thread draws a model of the formula.
DrawModel == pc = "team" /\ \E t \in Threads : DrawSample(t) /\ Sat(held'[t])

-----------------------------------------------------------------------------
(* Properties *)

\* Tries that are neither rejected nor printed are models drawn too late.  Each thread has
\* at most one in hand, and the one that prints the last sample none, so the estimate is
\* too low by less than the size of the team in its denominator.
\* (assignment_generator.hpp:389-419)
TriesAccounted ==
  LET late == Wrap(nbTries - rejected - nbDone)
  IN  job.method = "montecarlo" =>
        /\ late <= Cardinality(job.team)
        /\ pc = "done" /\ job.n > 0 => late < Cardinality(job.team)
=============================================================================

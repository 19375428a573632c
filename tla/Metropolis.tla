----------------------------- MODULE Metropolis -----------------------------
(***************************************************************************)
(* The random walk sampler (class MetropolisHastings of                    *)
(* capkc/capkc/src/assignment_generator.hpp): a chain of assignments       *)
(* descends to a model, walks on for a number of steps, and then prints    *)
(* the first model it meets.  The set of unsatisfied clauses is carried    *)
(* along the chain.                                                        *)
(*                                                                         *)
(* Which move is made, whether a proposal is accepted and whether the      *)
(* chain is restarted depends on random numbers: each is a free choice.    *)
(***************************************************************************)
EXTENDS Samples

VARIABLES
  chain,         \* cube.lits
  unsat,         \* cube.unsat_ids
  phase,
  descentLeft,   \* descent_steps_left
  burninLeft,    \* burnin_steps_left
  walked         \* history: iterations since the descent ended, up to burnin + 1

walkVars == <<chain, unsat, phase, descentLeft, burninLeft, walked>>

WalkInit ==
  /\ chain = {}
  /\ unsat = {}
  /\ phase = "Descent"
  /\ descentLeft = 0
  /\ burninLeft = 0
  /\ walked = 0

\* The outer loop: a new chain.  One that starts on a model is counted, and not printed.
NewChain ==
  /\ pc = "start"
  /\ job.method = "rwalk"
  /\ nbDone < job.n
  /\ chain' \in job.bound
  /\ unsat' = UnsatIds(chain')
  /\ phase' = "Descent"
  /\ descentLeft' = job.descent
  /\ burninLeft' = job.burnin
  /\ walked' = 0
  /\ IF unsat' = {} THEN nbDone' = nbDone + 1 /\ pc' = "start"
                    ELSE nbDone' = nbDone /\ pc' = "walk"
  /\ Fixed /\ UNCHANGED printed

EndWalks ==
  /\ pc = "start"
  /\ job.method = "rwalk"
  /\ nbDone >= job.n
  /\ pc' = "done"
  /\ Fixed /\ UNCHANGED <<nbDone, printed, walkVars>>

FlipLiteral(l) ==
  /\ unsat' = FlipIds(chain, unsat, l)
  /\ chain' = Flip(chain, {TrueOf(chain, l)})

\* A literal of an unsatisfied clause is flipped; or such a literal, or any variable, is
\* proposed and the proposal accepted or not.
PureWalk == \E id \in unsat : \E l \in clauses[id] : FlipLiteral(l)
Propose == \E v \in Vars : FlipLiteral(v)
Move == PureWalk \/ Propose \/ UNCHANGED <<chain, unsat>>

WalkedOn == walked' = IF walked > job.burnin THEN walked ELSE walked + 1

\* What an iteration of the inner loop does after the move, by phase.
Descend ==
  /\ phase = "Descent" /\ descentLeft > 0 /\ unsat' # {}
  /\ descentLeft' = descentLeft - 1
  /\ pc' = "walk"
  /\ UNCHANGED <<phase, burninLeft, walked, nbDone, printed>>

GiveUp ==
  /\ phase = "Descent" /\ descentLeft = 0 /\ unsat' # {}
  /\ pc' = "start"
  /\ UNCHANGED <<phase, descentLeft, burninLeft, walked, nbDone, printed>>

\* The chain goes on, unless a restart is drawn in the sampling phase.
Continue == pc' \in IF phase' = "Sampling" THEN {"walk", "start"} ELSE {"walk"}

\* Faulty variant: the walk is taken for burnt in.
ReachModelBurnt ==
  /\ phase = "Descent" /\ unsat' = {}
  /\ burninLeft' = job.burnin
  /\ phase' = "Sampling"
  /\ walked' = 0
  /\ Continue
  /\ UNCHANGED <<descentLeft, nbDone, printed>>
ReachModel ==
  /\ phase = "Descent" /\ unsat' = {}
  /\ burninLeft' = job.burnin
  /\ phase' = IF job.burnin = 0 THEN "Sampling" ELSE "Burnin"
  /\ walked' = 0
  /\ Continue
  /\ UNCHANGED <<descentLeft, nbDone, printed>>

BurnIn ==
  /\ phase = "Burnin"
  /\ burninLeft' = IF burninLeft > 0 THEN burninLeft - 1 ELSE 0
  /\ phase' = IF burninLeft' = 0 THEN "Sampling" ELSE "Burnin"
  /\ WalkedOn
  /\ Continue
  /\ UNCHANGED <<descentLeft, nbDone, printed>>

Sample ==
  /\ phase = "Sampling" /\ unsat' = {}
  /\ nbDone' = nbDone + 1
  /\ printed' = Append(printed, chain')
  /\ WalkedOn
  /\ pc' = "start"
  /\ UNCHANGED <<phase, descentLeft, burninLeft>>

WalkOn ==
  /\ phase = "Sampling" /\ unsat' # {}
  /\ WalkedOn
  /\ UNCHANGED <<phase, descentLeft, burninLeft, nbDone, printed>>
  /\ Continue

Walk ==
  /\ pc = "walk"
  /\ Move
  /\ Descend \/ GiveUp \/ ReachModel \/ BurnIn \/ Sample \/ WalkOn
  /\ Fixed

WalkStep == NewChain \/ EndWalks \/ Walk

WalkTypeOK ==
  /\ chain \in Assignments \cup {{}}
  /\ unsat \subseteq Ids
  /\ phase \in {"Descent", "Burnin", "Sampling"}
  /\ descentLeft \in Nat /\ burninLeft \in Nat /\ walked \in Nat

-----------------------------------------------------------------------------
(* Properties *)

\* A chain prints a sample only after more iterations than the burn-in asks for since it
\* first met a model.  (assignment_generator.hpp:874-928)
BurnedIn ==
  [][job.method = "rwalk" /\ printed' # printed => walked' > job.burnin]_<<printed, walked>>
=============================================================================

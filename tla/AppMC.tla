------------------------------- MODULE AppMC -------------------------------
(***************************************************************************)
(* The approximate counter of capkc (setup_runner of                       *)
(* capkc/capkc/src/appmc.cpp): OpenMP threads draw assignments from the    *)
(* upper bound and tally, one at a time, how many satisfy the formula,     *)
(* until one of them finds that the estimate is precise enough or that the *)
(* maximum number of samples is reached.                                   *)
(*                                                                         *)
(* The interval around the estimate is a function of the two counters: the *)
(* constant Precise holds the values at which it is narrow enough.         *)
(***************************************************************************)
EXTENDS Integers, Sequences, FiniteSets

CONSTANTS
  Threads,    \* the threads of the parallel region
  Maxima,     \* values of --nb
  Minima,     \* values of --lnb (0: never stop early)
  Precise     \* pairs <<nb_tries, nb_success>>

ASSUME AppMCAssumption ==
  /\ IsFiniteSet(Threads) /\ Threads # {}
  /\ Maxima \subseteq Nat
  /\ Minima \subseteq Nat
  /\ Precise \subseteq Nat \X Nat

VARIABLES
  N, lN, verbose,   \* the options
  stage,            \* where each thread stands
  prng,             \* how often the shared generator has jumped
  lprng,            \* the stream of each thread's own generator
  hit,              \* whether the assignment a thread holds satisfies the formula
  done, nb_tries, nb_success, return_code,
  lines,            \* the estimates printed, as <<nb_tries, nb_success>>
  late              \* history: tallies made after done was set

inputs == <<N, lN, verbose>>
counterVars == <<inputs, stage, prng, lprng, hit, done, nb_tries, nb_success, return_code, lines, late>>

CounterInit ==
  /\ N \in Maxima
  /\ lN \in Minima
  /\ verbose \in BOOLEAN
  /\ stage = [t \in Threads |-> "init"]
  /\ prng = 0
  /\ lprng = [t \in Threads |-> 0]
  /\ hit = [t \in Threads |-> FALSE]
  /\ done = FALSE
  /\ nb_tries = 0
  /\ nb_success = 0
  /\ return_code = 0
  /\ lines = <<>>
  /\ late = 0

GoTo(t, label) == stage' = [stage EXCEPT ![t] = label]

\* Faulty variant: the shared generator is copied without jumping.
NoJump == prng
Jump == prng + 1

\* The critical section `init': copy the generator, then let it jump.
TakeStream(t) ==
  /\ stage[t] = "init"
  /\ lprng' = [lprng EXCEPT ![t] = prng]
  /\ prng' = Jump
  /\ GoTo(t, "check")
  /\ UNCHANGED <<inputs, hit, done, nb_tries, nb_success, return_code, lines, late>>

Check(t) ==
  /\ stage[t] = "check"
  /\ GoTo(t, IF done THEN "end" ELSE "draw")
  /\ UNCHANGED <<inputs, prng, lprng, hit, done, nb_tries, nb_success, return_code, lines, late>>

\* rag(lprng): any assignment of the upper bound.
Draw(t) ==
  /\ stage[t] = "draw"
  /\ \E sat \in BOOLEAN : hit' = [hit EXCEPT ![t] = sat]
  /\ GoTo(t, "tally")
  /\ UNCHANGED <<inputs, prng, lprng, done, nb_tries, nb_success, return_code, lines, late>>

\* The early stop: enough samples, a success and a narrow interval.
Enough(n, s) == s > 0 /\ lN > 0 /\ n >= lN /\ <<n, s>> \in Precise

\* Faulty variant: the limit is noticed one sample late.
LimitPassed(n) == n > N
LimitReached(n) == n >= N

\* The lines of one tally: the regular one, and the one of the early stop.
\* Faulty variant: without --verbose only the early stop prints.
LinesEarly(n, s) ==
  (IF verbose THEN <<<<n, s>>>> ELSE <<>>) \o
  (IF Enough(n, s) /\ ~verbose THEN <<<<n, s>>>> ELSE <<>>)
Lines(n, s) ==
  (IF verbose \/ n = N THEN <<<<n, s>>>> ELSE <<>>) \o
  (IF Enough(n, s) /\ ~verbose THEN <<<<n, s>>>> ELSE <<>>)

\* nb_tries++.
\* Faulty variants: the increment is lost to a concurrent one; only successes count.
TriesRaced(t) == IF \E w \in Threads \ {t} : stage[w] = "tally" THEN nb_tries ELSE nb_tries + 1
TriesHit(t) == IF hit[t] THEN nb_tries + 1 ELSE nb_tries
Tries(t) == nb_tries + 1

\* The unnamed critical section, which does nothing but count on the first sample.
Tally(t) ==
  LET n == Tries(t)
      s == IF hit[t] THEN nb_success + 1 ELSE nb_success
  IN  /\ stage[t] = "tally"
      /\ nb_tries' = n
      /\ nb_success' = s
      /\ lines' = IF n > 1 THEN lines \o Lines(n, s) ELSE lines
      /\ done' = (done \/ (n > 1 /\ (Enough(n, s) \/ LimitReached(n))))
      /\ return_code' = IF n > 1 /\ LimitReached(n) /\ s = 0 THEN 1 ELSE return_code
      /\ late' = IF done THEN late + 1 ELSE late
      /\ GoTo(t, "check")
      /\ UNCHANGED <<inputs, prng, lprng, hit>>

Step(t) == TakeStream(t) \/ Check(t) \/ Draw(t) \/ Tally(t)

CounterNext == \E t \in Threads : Step(t)

\* Every thread of the team runs, and none waits for ever at a critical section.
CounterSpec == CounterInit /\ [][CounterNext]_counterVars /\ \A t \in Threads : WF_counterVars(Step(t))

-----------------------------------------------------------------------------
(* Properties *)

CounterTypeOK ==
  /\ N \in Maxima /\ lN \in Minima /\ verbose \in BOOLEAN
  /\ stage \in [Threads -> {"init", "check", "draw", "tally", "end"}]
  /\ prng \in Nat
  /\ lprng \in [Threads -> Nat]
  /\ hit \in [Threads -> BOOLEAN]
  /\ done \in BOOLEAN
  /\ nb_tries \in Nat /\ nb_success \in 0 .. nb_tries
  /\ return_code \in {0, 1}
  /\ lines \in Seq(Nat \X Nat)
  /\ late \in Nat

Ended == \A t \in Threads : stage[t] = "end"

\* Two threads never draw from the same stream of random numbers, so their samples are
\* independent.  (appmc.cpp:70-75)
StreamsDistinct ==
  \A t, w \in Threads : t # w /\ stage[t] # "init" /\ stage[w] # "init" => lprng[t] # lprng[w]

\* After the decision to stop every other thread tallies at most the one sample it may
\* hold, so the maximum is passed by less than the number of threads; no tally is lost and
\* no more samples have succeeded than were tried (CounterTypeOK).  (appmc.cpp:77-82)
Overshoot ==
  /\ CounterTypeOK
  /\ late < Cardinality(Threads)
  /\ nb_tries <= (IF N > 2 THEN N ELSE 2) + Cardinality(Threads) - 1

\* The run ends with an estimate printed if at least two samples are asked for, and exit
\* code 0 promises a non-zero one: some sample satisfied the formula.
\* (appmc.cpp:127-145)
OutcomeReported ==
  Ended =>
    /\ N >= 2 => lines # <<>>
    /\ return_code = 0 => nb_success > 0

\* Whatever the samples are, all threads leave the loop.  (appmc.cpp:77,131-141)
Termination == <>Ended
=============================================================================

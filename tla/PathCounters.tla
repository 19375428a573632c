---------------------------- MODULE PathCounters ----------------------------
(***************************************************************************)
(* The counters of divkc over the same circuits: appmc (a mean over random *)
(* paths, drawn by a team of threads until it is precise or there are nb;  *)
(* appmc of divkc/cppddnnf/src/pdac.cpp), lmc (the least of nb means of k  *)
(* paths each; lmc.cpp) and pc (the number of paths; pc.cpp).              *)
(*                                                                         *)
(* An estimate is a sum of solutions over a number of paths, times the     *)
(* same factor for all of them.  For appmc job.k is the option lnb.        *)
(***************************************************************************)
EXTENDS PathSet

VARIABLES
  stream,     \* the random streams of the threads that have started
  jumps,      \* how often the common generator has jumped
  out,        \* the threads that have left the loop
  stop,       \* appmc's flag `done'
  counted,    \* appmc's k
  lowest,     \* lmc's result, -1 before there is one
  ended       \* history: the sums of the tries that have ended

counterVars == <<stream, jumps, out, stop, counted, lowest, ended>>

CounterInit ==
  /\ stream = <<>> /\ jumps = 0 /\ out = {}
  /\ stop = FALSE /\ counted = 0
  /\ lowest = -1 /\ ended = {}

-----------------------------------------------------------------------------
(* appmc.  No number can be drawn if there is no path. *)

StartAppmc ==
  /\ job.tool = "appmc"
  /\ pc = "start"
  /\ GoInto("sample", 1 .. job.threads)
  /\ UNCHANGED <<job, tmc, lines, counterVars>>

\* Faulty variant: the common generator does not jump.
TakeSameStream(t) ==
  /\ job.tool = "appmc"
  /\ t \in todo
  /\ stream' = [s \in DOMAIN stream \cup {t} |-> IF s = t THEN jumps ELSE stream[s]]
  /\ todo' = todo \ {t}
  /\ UNCHANGED <<job, pc, flight, tmc, lines, out, stop, counted, lowest, ended, jumps>>
TakeStream(t) ==
  /\ job.tool = "appmc"
  /\ t \in todo
  /\ stream' = [s \in DOMAIN stream \cup {t} |-> IF s = t THEN jumps ELSE stream[s]]
  /\ jumps' = jumps + 1
  /\ todo' = todo \ {t}
  /\ UNCHANGED <<job, pc, flight, tmc, lines, out, stop, counted, lowest, ended>>

\* The flag is tested outside the critical section.
SamplePath(t) ==
  /\ job.tool = "appmc"
  /\ pc = "sample"
  /\ t \in DOMAIN stream \ (out \cup DOMAIN flight)
  /\ IF stop THEN out' = out \cup {t} /\ UNCHANGED <<pc, todo, flight>>
     ELSE /\ UNCHANGED out
          /\ IF Paths = {} THEN Crash
             ELSE \E l \in Paths : Begin(t, l) /\ UNCHANGED pc
  /\ UNCHANGED <<job, tmc, lines, stream, jumps, stop, counted, lowest, ended>>

\* Lines about n paths: one for verbose or the last path, one more when the mean is precise.
Estimates(n, sum, precise) ==
  (IF n > 1 /\ (job.verbose \/ n = job.nb) THEN <<<<n, sum>>>> ELSE <<>>) \o
  (IF precise /\ ~job.verbose THEN <<<<n, sum>>>> ELSE <<>>)

\* The critical section.  The interval may be narrow or not.
\* Faulty variant: the loop ends only when the number of paths is nb.
TallyUntilEqual(t) ==
  /\ job.tool = "appmc"
  /\ pc = "sample"
  /\ t \in DOMAIN flight
  /\ counted' = counted + 1
  /\ tmc' = tmc + job.counts[flight[t]]
  /\ \E precise \in BOOLEAN :
       /\ precise => counted' > 1 /\ job.k > 0 /\ counted' >= job.k
       /\ stop' = (stop \/ precise \/ counted' = job.nb)
       /\ lines' = lines \o Estimates(counted', tmc', precise)
  /\ End(t)
  /\ counted < 6
  /\ UNCHANGED <<job, pc, stream, jumps, out, lowest, ended>>
TallySample(t) ==
  /\ job.tool = "appmc"
  /\ pc = "sample"
  /\ t \in DOMAIN flight
  /\ counted' = counted + 1
  /\ tmc' = tmc + job.counts[flight[t]]
  /\ \E precise \in BOOLEAN :
       /\ precise => counted' > 1 /\ job.k > 0 /\ counted' >= job.k
       /\ stop' = (stop \/ precise \/ counted' >= job.nb)
       /\ lines' = lines \o Estimates(counted', tmc', precise)
  /\ End(t)
  /\ UNCHANGED <<job, pc, stream, jumps, out, lowest, ended>>

EndAppmc ==
  /\ job.tool = "appmc"
  /\ pc = "sample"
  /\ out = 1 .. job.threads
  /\ pc' = "done"
  /\ UNCHANGED <<job, todo, flight, tmc, lines, counterVars>>

-----------------------------------------------------------------------------
(* lmc and pc *)

StartLmc ==
  /\ job.tool = "lmc"
  /\ pc = "start"
  /\ IF Paths = {} THEN Crash ELSE GoInto("tries", 1 .. job.nb)
  /\ UNCHANGED <<job, tmc, lines, counterVars>>

\* One try draws its k paths, the same one several times perhaps.
Try(i) ==
  /\ job.tool = "lmc"
  /\ pc = "tries"
  /\ Free(i)
  /\ \E path \in [1 .. job.k -> Paths] :
       Begin(i, SumFunction([j \in 1 .. job.k |-> job.counts[path[j]]]))
  /\ UNCHANGED <<job, pc, tmc, lines, counterVars>>

\* Faulty variant: the first try is not told from one that found nothing.
LeastSoFarUnset(sum) == IF sum < lowest THEN sum ELSE lowest
LeastSoFar(sum) == IF lowest = -1 \/ sum < lowest THEN sum ELSE lowest

KeepLeast(i) ==
  /\ job.tool = "lmc"
  /\ pc = "tries"
  /\ i \in DOMAIN flight
  /\ lowest' = LeastSoFar(flight[i])
  /\ ended' = ended \cup {flight[i]}
  /\ End(i)
  /\ UNCHANGED <<job, pc, tmc, lines, stream, jumps, out, stop, counted>>

CountPaths ==
  /\ job.tool = "pc"
  /\ pc = "start"
  /\ tmc' = Cardinality(Paths)
  /\ pc' = "done"
  /\ UNCHANGED <<job, todo, flight, lines, counterVars>>

CounterStep ==
  \/ StartAppmc \/ EndAppmc \/ StartLmc \/ CountPaths
  \/ \E t \in 1 .. job.threads : TakeStream(t) \/ SamplePath(t) \/ TallySample(t)
  \/ \E i \in todo : Try(i)
  \/ \E i \in DOMAIN flight : KeepLeast(i)
  \/ job.tool = "lmc" /\ pc = "tries" /\ Finish /\ UNCHANGED counterVars

CounterTypeOK ==
  /\ DOMAIN stream \subseteq 1 .. job.threads /\ out \subseteq DOMAIN stream
  /\ jumps \in Nat /\ counted \in Nat
  /\ stop \in BOOLEAN
  /\ lowest \in Nat \cup {-1}

\* Each thread has a stream of its own.  No sample is counted twice or lost: the paths
\* counted and the last one in hand of every thread are all there were.  The result of lmc
\* is the least of the tries that have ended, in whatever order they do.
CounterTally ==
  /\ IsInjective(stream)
  /\ counted <= Max({1, job.nb}) + job.threads - 1
  /\ lowest = IF ended = {} THEN -1 ELSE Min(ended)

\* appmc stops when it has nb paths or is precise, at most one path per other thread later,
\* and prints an estimate unless nb is less than two; verbose shows all of them but the
\* first.  lmc has a result if it was asked for one.
CounterOutcome ==
  LET shown == {lines[j][1] : j \in DOMAIN lines}
  IN  pc = "done" =>
        /\ job.tool = "appmc" =>
             /\ counted >= job.nb \/ (job.k > 0 /\ counted >= Max({2, job.k}))
             /\ job.verbose => shown = 2 .. counted /\ Len(lines) = counted - 1
             /\ job.nb >= 2 => lines # <<>>
             /\ job.nb \in 2 .. counted => job.nb \in shown
        /\ job.tool = "lmc" => (lowest = -1 <=> job.nb = 0)
        /\ job.tool = "pc" => tmc = Len(job.counts)
=============================================================================

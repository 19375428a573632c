------------------------------ MODULE PathTools ------------------------------
(***************************************************************************)
(* The samplers sampler, rsampler and rhsampler of divkc and its counters  *)
(* appmc, lmc and pc, each a process of its own: one of them is run, on    *)
(* the two circuits of the split.                                          *)
(***************************************************************************)
EXTENDS Ksampler, Rsampler, Rhsampler, PathCounters

vars == <<pathVars, reservoirVars, skipVars, counterVars>>

Init == PathInit /\ ReservoirInit /\ SkipInit /\ CounterInit

Ksampling == KsamplerStep /\ UNCHANGED <<reservoirVars, skipVars, counterVars>>
Rsampling == RsamplerStep /\ UNCHANGED <<skipVars, counterVars>>
Rhsampling == RhsamplerStep /\ UNCHANGED <<reservoirVars, counterVars>>
Counting == CounterStep /\ UNCHANGED <<reservoirVars, skipVars>>

Next == Ksampling \/ Rsampling \/ Rhsampling \/ Counting

\* The threads of the parallel tools run until the loops are over; a thread of appmc that
\* is in the team enters the critical sections.
Spec ==
  /\ Init /\ [][Next]_vars
  /\ WF_vars(Ksampling) /\ WF_vars(Rsampling) /\ WF_vars(Counting)

-----------------------------------------------------------------------------
(* Properties *)

TypeOK == PathTypeOK /\ ReservoirTypeOK /\ SkipTypeOK /\ CounterTypeOK

\* The solutions at or before the position of rhsampler, the last one excluded.
Passed1 == {x \in UNION {{p} \X Solutions(p) : p \in Paths} :
              x[1] < ipath \/ (x[1] = ipath /\ x[2] < isol)}

\* However the threads interleave, tmc is the number of solutions of the paths counted so
\* far, the one each draw is weighed by; the paths kept are among those, and have a
\* solution as soon as a counted path has one, although the reservoir is filled with the
\* first path whatever it holds.  Before it jumps, rhsampler has counted the paths up to
\* its own, and holds different solutions it has passed: all of them until it is full.
\* The counters sample from streams of their own and lose no try: see CounterTally.
\* (pdac.cpp:352-367, rsampler.cpp:72-89, rhsampler.cpp:110-166, lmc.cpp:53-55)
TallyExact ==
  LET tallied == visited \ Range(flight)
      few == Cardinality(Paths) <= job.k
  IN  /\ TypeOK
      /\ CounterTally
      /\ job.tool = "sampler" =>
           tmc = IF pc = "start" \/ ~few THEN 0 ELSE Mass(Paths \ (IF pc = "count" THEN todo ELSE {}))
      /\ job.tool = "rsampler" /\ pc = "fill" =>
           /\ tmc = Mass(tallied)
           /\ \A j \in DOMAIN reservoir :
                reservoir[j] \in tallied /\ (tmc > 0 => job.counts[reservoir[j]] > 0)
      /\ job.tool = "rhsampler" /\ ~jumped /\ pc = "skip" =>
           /\ tmc = Mass({p \in Paths : p <= ipath})
           /\ IsInjective(found) /\ Range(found) \subseteq Passed1
           /\ Len(found) < job.nb => Range(found) = Passed1

\* What the samplers print are solutions, and those asked for: all of them by sampler, and
\* by rsampler if it has visited a path; different ones by rhsampler, as many as there are,
\* if it has not jumped.  The counters end as CounterOutcome says.  A tool ends otherwise
\* only if the paths it counts have no solution, or in rhsampler if no solution is asked
\* for or it has jumped; appmc and lmc, only if there is no path.
\* (pdac.cpp:125-146,372-413,455-488, rsampler.cpp:93-121, rhsampler.cpp:143-173, lmc.cpp:30)
OutcomeSound ==
  LET sampling == job.tool \in {"sampler", "rsampler", "rhsampler"}
      solutions == Cardinality(Range(lines))
  IN  /\ sampling /\ ~jumped => \A j \in DOMAIN lines : IsSolution(lines[j])
      /\ CounterOutcome
      /\ pc = "done" =>
           CASE job.tool = "sampler" -> Len(lines) = job.nb
             [] job.tool = "rsampler" -> Len(lines) = IF visited = {} THEN 0 ELSE job.nb
             [] job.tool = "rhsampler" /\ ~jumped ->
                  /\ solutions = Len(lines)
                  /\ solutions = job.nb \/ (solutions = Mass(Paths) /\ solutions < job.nb)
             [] OTHER -> TRUE
      /\ pc = "crashed" =>
           CASE job.tool = "sampler" ->
                  IF Cardinality(Paths) <= job.k THEN Mass(Paths) = 0
                  ELSE \E P \in kSubset(job.k, Paths) : Mass(P) = 0
             [] job.tool = "rsampler" -> tmc = 0
             [] job.tool = "rhsampler" -> job.nb = 0 \/ jumped
             [] OTHER -> Paths = {}

\* The parallel tools end: rsampler never looks for a path that is not left, and every
\* thread of appmc leaves its loop.  (rsampler.cpp:57-64,202-213, pdac.cpp:107,143-145)
Termination == job.tool # "rhsampler" => <>(pc \in {"done", "crashed"})
=============================================================================

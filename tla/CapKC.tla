------------------------------- MODULE CapKC -------------------------------
(***************************************************************************)
(* The n-ary search of capkc/capkc/src/capkc.cpp.  The active clauses of   *)
(* the formula are ordered (clids); D4 is assumed to compile the prefix    *)
(* clids[0..low] and assumed to fail on clids[0..high].  A round (`test')  *)
(* writes up to n intermediate prefixes to files, runs D4 on them in       *)
(* parallel (module RunMany), and narrows the bracket with the results.    *)
(* When the bounds are adjacent the formula is split into the upper bound  *)
(* (.up), the ignored clauses (.ign) and the whole formula (.smp).         *)
(*                                                                         *)
(* A clause is its position in clids, a prefix is its last position.       *)
(***************************************************************************)
EXTENDS RunMany

CONSTANTS
  Sizes,     \* numbers of clauses of the ordered formula
  Threads,   \* values of --n
  Lows,      \* values of --low
  Highs      \* values of --high (0: not given)

ASSUME SearchAssumption ==
  /\ Sizes \subseteq Nat
  /\ Threads \subseteq Nat
  /\ Lows \subseteq Nat
  /\ Highs \subseteq Nat

VARIABLES
  size, n, ilow, limit,   \* the inputs of run; limit is the first value of high
  low, high,
  pc,
  files,     \* the candidate files <cnf>.up<i> on disk: prefix -> clauses written
  kept,      \* the RunRes `rr' of run: the last improvement and the count printed for it
  hist,      \* history: every result of every round
  output     \* the files .up, .ign and .smp once written

searchVars == <<size, n, ilow, limit, low, high, pc, files, kept, hist, output>>
vars == <<rmVars, searchVars>>

Clauses == 0 .. size - 1
NoFiles == [i \in {} |-> {}]
Nothing == [at |-> None, out |-> None]
NoOutput == [up |-> {}, ign |-> {}, smp |-> {}]

StartHigh(sz, ihigh) == IF ihigh > 0 /\ ihigh < sz THEN ihigh ELSE sz

Init ==
  /\ RunManyInit
  /\ size \in Sizes
  /\ n \in Threads
  /\ ilow \in Lows
  /\ \E ihigh \in Highs : limit = StartHigh(size, ihigh)
  /\ low = ilow
  /\ high = limit
  /\ pc = "search"
  /\ files = NoFiles
  /\ kept = Nothing
  /\ hist = {}
  /\ output = NoOutput

-----------------------------------------------------------------------------
(* One round. *)

\* Faulty variant: the range is divided by n instead of n + 1.
StepByThreads ==
  LET share == (high - low + 1) \div n
  IN  IF n > 0 /\ share > 1 THEN share ELSE 1

Step ==
  LET share == (high - low + 1) \div (n + 1)
  IN  IF share > 1 THEN share ELSE 1

\* Faulty variant: candidates are counted down from low.
CandidatesDown == {low - k * Step : k \in 1 .. n}

Candidates == {i \in low + 1 .. high - 1 : \E k \in 1 .. n : i = low + k * Step}

\* Faulty variant: the piece switched on for a candidate stops before it.
ActiveBefore(i) ==
  (0 .. low) \cup UNION {j - Step .. j - 1 : j \in {c \in Candidates : c <= i}}

\* The clauses active when file i is written: all of clids was switched off, then
\* 0..low switched on, then for each candidate up to i the positions j-step..j.
ActiveAt(i) ==
  (0 .. low) \cup UNION {j - Step .. j : j \in {c \in Candidates : c <= i}}

Launch ==
  /\ pc = "search"
  /\ low + 1 < high
  /\ CallRunMany(Candidates)
  /\ files' = [i \in Candidates |-> ActiveAt(i)]
  /\ pc' = "test"
  /\ UNCHANGED <<size, n, ilow, limit, low, high, kept, hist, output>>

Successes == {i \in cand : status[i] = "Done"}

\* The scan goes down from the last result and stops at the first Done.
Scanned(i) == \A d \in Successes : d <= i
Fatal == \E i \in cand : Scanned(i) /\ status[i] \in {"Void", "Running", "Error", "Impossible"}

\* Faulty variants: the scan stops at the first Done from below, or forgets that a
\* failure lowers high.
NarrowToFirst(lo, hi) ==
  /\ lo \in Successes \cup {low}
  /\ \A d \in Successes : lo <= d \/ lo = low
  /\ Successes # {} => lo # low
  /\ hi \in {i \in cand : lo < i} \cup {high}
  /\ \A i \in cand : lo < i => hi <= i
  /\ low' = lo
  /\ high' = hi
NarrowLowOnly(lo, hi) ==
  /\ lo \in Successes \cup {low}
  /\ Scanned(lo)
  /\ low' = lo
  /\ high' = high

\* low becomes the largest success, high the candidate above it (if there is one).
NarrowTo(lo, hi) ==
  /\ lo \in Successes \cup {low}
  /\ Scanned(lo)
  /\ hi \in {i \in cand : lo < i} \cup {high}
  /\ \A i \in cand : lo < i => hi <= i
  /\ low' = lo
  /\ high' = hi

\* run keeps the result when it is Done and for another input, then prints its count.
KeepResult ==
  kept' = IF low' \in Successes /\ kept.at # low'
          THEN [at |-> low', out |-> out[low']]
          ELSE kept

Results == {[at |-> i, status |-> status[i], out |-> out[i]] : i \in cand}

\* The end of test: results are logged, the bracket narrowed and the files removed.
\* exit(1) on a result that is neither Done, Memory nor Time leaves the files there.
Scan ==
  /\ pc = "test"
  /\ phase = "returned"
  /\ hist' = hist \cup Results
  /\ IF Fatal
     THEN /\ pc' = "exited"
          /\ UNCHANGED <<low, high, files, kept, printed>>
     ELSE /\ pc' = "search"
          /\ \E lo \in cand \cup {low} : \E hi \in cand \cup {high} : NarrowTo(lo, hi)
          /\ files' = NoFiles
          /\ KeepResult
          /\ printed' = printed \cup {kept'.out}
  /\ phase' = "idle"
  /\ cand' = {}
  /\ proc' = [i \in {} |-> "unborn"]
  /\ running' = [i \in {} |-> FALSE]
  /\ status' = [i \in {} |-> "Void"]
  /\ out' = [i \in {} |-> None]
  /\ cursor' = None
  /\ UNCHANGED <<late, expired, faults, size, n, ilow, limit, output>>

\* Faulty variant: the two halves overlap.
FinishOverlapping ==
  /\ pc = "search"
  /\ low + 1 >= high
  /\ output' = [up |-> {i \in Clauses : i <= low},
                ign |-> {i \in Clauses : i >= low},
                smp |-> Clauses]
  /\ pc' = "finished"
  /\ UNCHANGED <<rmVars, size, n, ilow, limit, low, high, files, kept, hist>>

\* The bounds are adjacent: write the three formulas.
Finish ==
  /\ pc = "search"
  /\ low + 1 >= high
  /\ output' = [up |-> {i \in Clauses : i <= low},
                ign |-> {i \in Clauses : i > low},
                smp |-> Clauses]
  /\ pc' = "finished"
  /\ UNCHANGED <<rmVars, size, n, ilow, limit, low, high, files, kept, hist>>

Running ==
  /\ pc = "test"
  /\ RunManyStep
  /\ UNCHANGED searchVars

Next == Launch \/ Scan \/ Finish \/ Running

\* The program's only thread is scheduled, and time passes.  Nothing is assumed of D4.
Fairness ==
  /\ WF_vars(Launch \/ Scan \/ Finish)
  /\ WF_vars(pc = "test" /\ ThreadStep /\ UNCHANGED searchVars)
  /\ WF_vars(pc = "test" /\ Tick /\ UNCHANGED searchVars)

Spec == Init /\ [][Next]_vars /\ Fairness
-----------------------------------------------------------------------------
(* Properties *)

\* Every variable keeps its type.
TypeOK ==
  /\ RunManyTypeOK
  /\ size \in Nat /\ n \in Nat /\ ilow \in Nat /\ limit \in Nat
  /\ low \in Nat /\ high \in Nat
  /\ pc \in {"search", "test", "finished", "exited"}
  /\ DOMAIN files \subseteq Nat
  /\ kept \in [at : Nat \cup {None}, out : Nat \cup {None}]
  /\ hist \subseteq [at : Nat, status : Statuses, out : Nat \cup {None}]
  /\ output \in [up : SUBSET Nat, ign : SUBSET Nat, smp : SUBSET Nat]

\* What is known at any time about the bracket: a bound that moved was measured, low
\* as a success and high as a failure, and every measurement agrees with the bounds:
\* no success above low, no failure strictly inside.  (capkc.cpp:86-125)
BracketMeasured ==
  /\ low # ilow => \E h \in hist : h.at = low /\ h.status = "Done"
  /\ high # limit => \E h \in hist : h.at = high /\ h.status # "Done"
  /\ \A h \in hist : IF h.status = "Done" THEN h.at <= low
                                          ELSE h.at < low \/ high <= h.at

\* D4 is given exactly the prefix its result is booked under, and the prefix lies in
\* clids, although the clauses are switched on by overlapping pieces.  (capkc.cpp:41-63)
CandidateFiles ==
  pc = "test" => \A i \in cand : i < size /\ files[i] = 0 .. i

\* When run_many returns no D4 process of the batch runs and none is a zombie, in
\* whatever order they ended, were killed or were waited for.  (util.cpp:284-342)
AllReaped ==
  phase = "returned" => \A i \in cand : proc[i] \notin Living \cup Zombies

\* The result run keeps, whose input and count it prints, is the one of low.
\* (capkc.cpp:166-177)
KeptIsLow == kept.at = IF low = ilow THEN None ELSE low

\* The files written at the end split the formula at the best prefix measured: no
\* success is left out of .up, and if something is ignored the prefix with one clause
\* more was measured as a failure or is the limit of the search.  (capkc.cpp:186-217)
FinalSplit ==
  pc = "finished" =>
    /\ output.up \cup output.ign = output.smp
    /\ output.up \cap output.ign = {}
    /\ output.smp = Clauses
    /\ \A h \in hist : h.status = "Done" => h.at \in output.up
    /\ \A i \in output.ign :
         \/ limit <= i
         \/ \E h \in hist : h.status # "Done" /\ h.at <= i /\ h.at - 1 \in output.up \cup {low}

\* No prefix is measured twice: a round proposes only prefixes without a result.
\* (capkc.cpp:49)
NeverRetested == [][\A i \in cand' \ cand : \A h \in hist : h.at # i]_vars

\* With at least one thread every round narrows the bracket.  (capkc.cpp:32-33,49)
RoundsNarrow ==
  [][pc = "test" /\ pc' = "search" /\ n > 0 => high' - low' < high - low]_vars

Stopped == pc = "finished" \/ Hung \/ phase = "suicide"

\* With at least one thread the search ends, whatever the D4 processes do, unless a
\* failed fork leaves run_many reading from its own pipe or a failed pipe makes it kill
\* its process group.  (capkc.cpp:167-179, util.cpp:284-342)
Termination == n > 0 ~> Stopped

\* The search is an n-ary search: each round measures points strictly inside the
\* bracket and moves its ends to the measured points around the best success.
PS == INSTANCE ProbeSearch
        WITH Bottoms <- Lows,
             Tops <- {StartHigh(sz, h) : sz \in Sizes, h \in Highs},
             lo <- low,
             hi <- high,
             good <- {h.at : h \in {r \in hist : r.status = "Done"}}
ImplementsProbeSearch == PS!PSSpec

\* A result is Done only when D4 counted the models of that prefix: what the doc of
\* `low' assumes and what the Error arm of the scan is there for.  (capkc.cpp:23,99-102)
DoneMeansCounted == \A h \in hist : h.status = "Done" => h.out = h.at
=============================================================================

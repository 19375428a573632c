---------------------------- MODULE CapKC_proofs ----------------------------
(***************************************************************************)
(* Theorems about the n-ary search, for every formula size, number of      *)
(* threads and initial bounds.                                             *)
(***************************************************************************)
EXTENDS CapKC, TLAPS

FinalStatuses == {"Done", "Memory", "Time"}

\* What run_many keeps between its steps.
RunManyInv ==
  /\ \A i \in cand : proc[i] \in Living \cup Zombies => running[i]
  /\ phase \in {"collect", "returned"} => \A i \in cand : ~running[i]
  /\ phase = "returned" => \A i \in cand : status[i] \in FinalStatuses

-----------------------------------------------------------------------------
(* run_many *)

\* Leaving the visit of a child keeps the cursor among the children, and the loop
\* is left only when none is running.
LEMMA AdvanceType ==
  ASSUME NEW run \in [cand -> BOOLEAN], Advance(run)
  PROVE  /\ cursor' \in cand \cup {None}
         /\ phase' \in {"collect", "poll"}
         /\ phase' = "collect" => \A i \in cand : ~run[i]
  BY DEF Advance

LEMMA ThreadStepTypes ==
  ASSUME RunManyTypeOK, ThreadStep
  PROVE  RunManyTypeOK'
<1> USE DEF RunManyTypeOK, ProcStates, Living, Zombies, NoChild, Phases, Statuses
<1>1. CASE StartPolling
  BY <1>1, AdvanceType DEF StartPolling
<1>2. CASE Collect
  BY <1>2 DEF Collect, FinalStatus
<1>3. ASSUME NEW i \in cand,
             Fork(i) \/ PipeFails(i) \/ ForkFails(i)
      PROVE  RunManyTypeOK'
  <2>1. CASE Fork(i)
    BY <2>1 DEF Fork, NextToFork
  <2>2. CASE PipeFails(i)
    BY <2>2 DEF PipeFails, NextToFork
  <2>3. CASE ForkFails(i)
    BY <2>3 DEF ForkFails, NextToFork
  <2> QED
    BY <1>3, <2>1, <2>2, <2>3
<1>4. ASSUME NEW i \in cand, StopAndAdvance(i)
      PROVE  /\ running' \in [cand -> BOOLEAN]
             /\ cursor' \in cand \cup {None}
             /\ phase' \in Phases
  <2>1. running' \in [cand -> BOOLEAN]
    BY <1>4 DEF StopAndAdvance
  <2>2. Advance(running')
    BY <1>4 DEF StopAndAdvance
  <2> QED
    BY <2>1, <2>2, AdvanceType
<1>5. ASSUME NEW i \in cand, Reap(i)
      PROVE  RunManyTypeOK'
  BY <1>4, <1>5 DEF Reap
<1>6. ASSUME NEW i \in cand, FindRunning(i) \/ FindStolen(i)
      PROVE  RunManyTypeOK'
  BY <1>6 DEF FindRunning, FindStolen
<1>7. ASSUME NEW i \in cand, StrayRead(i)
      PROVE  out' \in [cand -> Nat \cup {None}]
  BY <1>7 DEF StrayRead, None
<1>8. ASSUME NEW i \in cand, FindNoExit(i)
      PROVE  RunManyTypeOK'
  BY <1>7, <1>8 DEF FindNoExit
<1>9. ASSUME NEW i \in cand, NEW z \in cand, StealExit(i, z)
      PROVE  RunManyTypeOK'
  BY <1>4, <1>7, <1>9 DEF StealExit
<1>10. ASSUME NEW i \in cand, KillLate(i) \/ KillBig(i)
       PROVE  RunManyTypeOK'
  BY <1>4, <1>10 DEF KillLate, KillBig, KillFor
<1>11. ASSUME NEW i \in cand, WithinLimits(i)
       PROVE  RunManyTypeOK'
  BY <1>11, AdvanceType DEF WithinLimits
<1>12. ASSUME NEW i \in cand, KillGroup(i)
       PROVE  RunManyTypeOK'
  BY <1>12 DEF KillGroup
<1> QED
  BY <1>1, <1>2, <1>3, <1>5, <1>6, <1>8, <1>9, <1>10, <1>11, <1>12 DEF ThreadStep

LEMMA ProcessesStepTypes ==
  ASSUME RunManyTypeOK, ProcessesStep \/ Tick
  PROVE  RunManyTypeOK'
<1> USE DEF RunManyTypeOK, ProcStates, Living, Zombies, NoChild
<1>1. CASE Tick
  BY <1>1 DEF Tick
<1>2. ASSUME NEW i \in cand, NEW from, NEW to \in ProcStates, ProcessStep(i, from, to)
      PROVE  proc' \in [cand -> ProcStates]
  BY <1>2 DEF ProcessStep
<1>3. ASSUME NEW i \in cand, Exec(i) \/ D4Grows(i) \/ D4Dies(i)
      PROVE  RunManyTypeOK'
  BY <1>3 DEF Exec, D4Grows, D4Dies, ProcessStep
<1>4. ASSUME NEW i \in cand, ExecFails(i)
      PROVE  RunManyTypeOK'
  BY <1>4 DEF ExecFails, ProcessStep
<1>5. ASSUME NEW i \in cand, D4Counts(i)
      PROVE  RunManyTypeOK'
  BY <1>5 DEF D4Counts, ProcessStep
<1> QED
  BY <1>1, <1>3, <1>4, <1>5 DEF ProcessesStep

\* A step of run_many keeps the set of candidates and does not return to idle.
LEMMA RunManyStepFrame ==
  ASSUME RunManyTypeOK, RunManyStep, phase # "idle"
  PROVE  cand' = cand /\ printed' = printed /\ phase' # "idle"
<1> USE DEF RunManyTypeOK
<1>1. CASE StartPolling
  BY <1>1, AdvanceType DEF StartPolling
<1>2. CASE Collect
  BY <1>2 DEF Collect
<1>3. ASSUME NEW i \in cand, Fork(i) \/ PipeFails(i) \/ ForkFails(i)
      PROVE  cand' = cand /\ printed' = printed /\ phase' # "idle"
  BY <1>3 DEF Fork, PipeFails, ForkFails, NextToFork
<1>4. ASSUME NEW i \in cand, StopAndAdvance(i)
      PROVE  phase' # "idle"
  BY <1>4 DEF StopAndAdvance, Advance
<1>5. ASSUME NEW i \in cand, Reap(i)
      PROVE  cand' = cand /\ printed' = printed /\ phase' # "idle"
  BY <1>4, <1>5 DEF Reap
<1>6. ASSUME NEW i \in cand, FindRunning(i) \/ FindStolen(i) \/ FindNoExit(i)
      PROVE  cand' = cand /\ printed' = printed /\ phase' # "idle"
  BY <1>6 DEF FindRunning, FindStolen, FindNoExit
<1>7. ASSUME NEW i \in cand, NEW z \in cand, StealExit(i, z)
      PROVE  cand' = cand /\ printed' = printed /\ phase' # "idle"
  BY <1>4, <1>7 DEF StealExit
<1>8. ASSUME NEW i \in cand, KillLate(i) \/ KillBig(i)
      PROVE  cand' = cand /\ printed' = printed /\ phase' # "idle"
  BY <1>4, <1>8 DEF KillLate, KillBig, KillFor
<1>9. ASSUME NEW i \in cand, WithinLimits(i)
      PROVE  cand' = cand /\ printed' = printed /\ phase' # "idle"
  BY <1>9 DEF WithinLimits, Advance
<1>10. ASSUME NEW i \in cand, KillGroup(i)
       PROVE  cand' = cand /\ printed' = printed /\ phase' # "idle"
  BY <1>10 DEF KillGroup
<1>11. CASE ProcessesStep
  BY <1>11 DEF ProcessesStep, Exec, ExecFails, D4Grows, D4Counts, D4Dies, ProcessStep
<1>12. CASE Tick
  BY <1>12 DEF Tick
<1> QED
  BY <1>1, <1>2, <1>3, <1>5, <1>6, <1>7, <1>8, <1>9, <1>10, <1>11, <1>12
     DEF RunManyStep, ThreadStep

\* A D4 process that runs or is a zombie is still polled; after the loop there is
\* none; and the results that are returned have one of three statuses.
LEMMA RunManyStepInv ==
  ASSUME RunManyTypeOK, RunManyInv, RunManyStep
  PROVE  RunManyInv'
<1> USE DEF RunManyTypeOK, RunManyInv, Living, Zombies
<1>1. CASE StartPolling
  BY <1>1, AdvanceType DEF StartPolling
<1>2. CASE Collect
  BY <1>2 DEF Collect, FinalStatus, FinalStatuses
<1>3. ASSUME NEW i \in cand, Fork(i) \/ PipeFails(i) \/ ForkFails(i)
      PROVE  RunManyInv'
  BY <1>3 DEF Fork, PipeFails, ForkFails, NextToFork
<1>4. ASSUME NEW i \in cand, StopAndAdvance(i)
      PROVE  /\ running' = [running EXCEPT ![i] = FALSE]
             /\ phase' \in {"collect", "poll"}
             /\ phase' = "collect" => \A j \in cand : ~running'[j]
  BY <1>4 DEF StopAndAdvance, Advance
<1>5. ASSUME NEW i \in cand, Reap(i)
      PROVE  RunManyInv'
  BY <1>4, <1>5 DEF Reap
<1>6. ASSUME NEW i \in cand, FindRunning(i) \/ FindStolen(i) \/ FindNoExit(i)
      PROVE  RunManyInv'
  BY <1>6 DEF FindRunning, FindStolen, FindNoExit
<1>7. ASSUME NEW i \in cand, NEW z \in cand, StealExit(i, z)
      PROVE  RunManyInv'
  BY <1>4, <1>7 DEF StealExit
<1>8. ASSUME NEW i \in cand, KillLate(i) \/ KillBig(i)
      PROVE  RunManyInv'
  BY <1>4, <1>8 DEF KillLate, KillBig, KillFor
<1>9. ASSUME NEW i \in cand, WithinLimits(i)
      PROVE  RunManyInv'
  BY <1>9 DEF WithinLimits, Advance
<1>10. ASSUME NEW i \in cand, KillGroup(i)
       PROVE  RunManyInv'
  BY <1>10 DEF KillGroup, NoChild
<1>11. CASE ProcessesStep
  BY <1>11 DEF ProcessesStep, Exec, ExecFails, D4Grows, D4Counts, D4Dies, ProcessStep
<1>12. CASE Tick
  BY <1>12 DEF Tick
<1> QED
  BY <1>1, <1>2, <1>3, <1>5, <1>6, <1>7, <1>8, <1>9, <1>10, <1>11, <1>12
     DEF RunManyStep, ThreadStep

-----------------------------------------------------------------------------
(* The search *)

LEMMA SearchAssumptions ==
  \A sz \in Sizes, h \in Highs : StartHigh(sz, h) \in Nat /\ StartHigh(sz, h) <= sz
BY SearchAssumption DEF StartHigh

LEMMA InitTypeOK == Init => TypeOK
<1> SUFFICES ASSUME Init PROVE TypeOK
  OBVIOUS
<1>1. RunManyTypeOK
  BY DEF Init, RunManyInit, RunManyTypeOK, Phases, None
<1>2. size \in Nat /\ n \in Nat /\ ilow \in Nat /\ limit \in Nat /\ low \in Nat /\ high \in Nat
  BY SearchAssumption, SearchAssumptions DEF Init
<1>3. /\ pc \in {"search", "test", "finished", "exited"}
      /\ DOMAIN files \subseteq Nat
      /\ kept \in [at : Nat \cup {None}, out : Nat \cup {None}]
      /\ hist \subseteq [at : Nat, status : Statuses, out : Nat \cup {None}]
      /\ output \in [up : SUBSET Nat, ign : SUBSET Nat, smp : SUBSET Nat]
  BY DEF Init, NoFiles, Nothing, NoOutput, None
<1> QED
  BY <1>1, <1>2, <1>3 DEF TypeOK

\* The results logged by a round are well typed.
LEMMA ResultsType ==
  ASSUME RunManyTypeOK
  PROVE  Results \subseteq [at : Nat, status : Statuses, out : Nat \cup {None}]
BY DEF RunManyTypeOK, Results

LEMMA NextTypeOK == TypeOK /\ [Next]_vars => TypeOK'
<1> SUFFICES ASSUME TypeOK, [Next]_vars PROVE TypeOK'
  OBVIOUS
<1>1. CASE Launch
  <2>1. Candidates \subseteq Nat
    BY DEF Candidates, TypeOK
  <2>2. RunManyTypeOK'
    BY <1>1, <2>1 DEF Launch, CallRunMany, TypeOK, RunManyTypeOK, Phases, ProcStates,
                      NoChild, Statuses, None
  <2> QED
    BY <1>1, <2>1, <2>2 DEF Launch, TypeOK
<1>2. CASE Scan
  <2>1. RunManyTypeOK'
    <3>1. kept'.out \in Nat \cup {None}
      BY <1>2 DEF Scan, KeepResult, TypeOK, RunManyTypeOK, Successes
    <3> QED
      BY <1>2, <3>1 DEF Scan, TypeOK, RunManyTypeOK, Phases, None
  <2>2. hist' \subseteq [at : Nat, status : Statuses, out : Nat \cup {None}]
    BY <1>2, ResultsType DEF Scan, TypeOK
  <2>3. low' \in Nat /\ high' \in Nat
    BY <1>2 DEF Scan, NarrowTo, TypeOK, RunManyTypeOK, Successes
  <2>4. kept' \in [at : Nat \cup {None}, out : Nat \cup {None}]
    BY <1>2, <2>3 DEF Scan, KeepResult, TypeOK, RunManyTypeOK, Successes
  <2> QED
    BY <1>2, <2>1, <2>2, <2>3, <2>4 DEF Scan, TypeOK, NoFiles
<1>3. CASE Finish
  BY <1>3 DEF Finish, TypeOK, RunManyTypeOK, rmVars, Clauses
<1>4. CASE Running
  <2>1. RunManyTypeOK'
    BY <1>4, ThreadStepTypes, ProcessesStepTypes DEF Running, RunManyStep, TypeOK
  <2> QED
    BY <1>4, <2>1 DEF Running, TypeOK, searchVars
<1>5. CASE UNCHANGED vars
  BY <1>5 DEF vars, rmVars, searchVars, TypeOK, RunManyTypeOK
<1> QED
  BY <1>1, <1>2, <1>3, <1>4, <1>5 DEF Next

\* Every variable keeps its type, whatever the inputs of the search are.
THEOREM TypeCorrect == Spec => []TypeOK
<1> QED
  BY InitTypeOK, NextTypeOK, PTL DEF Spec

\* Why the bracket is right: candidates lie strictly inside it, they are in flight
\* only between Launch and Scan, and low < high unless the search never moved.
SearchInv ==
  /\ pc # "exited"
  /\ pc # "test" => cand = {} /\ phase = "idle"
  /\ pc = "test" => phase # "idle" /\ low + 1 < high
  /\ cand \subseteq low + 1 .. high - 1
  /\ ilow <= low /\ high <= limit /\ limit <= size
  /\ low < high \/ (low = ilow /\ high = limit)
  /\ \A h \in hist : h.at < limit
  /\ BracketMeasured
  /\ KeptIsLow

IInv == TypeOK /\ RunManyInv /\ SearchInv

LEMMA InitIInv == Init => IInv
<1> SUFFICES ASSUME Init PROVE IInv
  OBVIOUS
<1>1. TypeOK
  BY InitTypeOK
<1>2. RunManyInv
  BY DEF Init, RunManyInit, RunManyInv
<1>3. limit <= size
  BY SearchAssumptions DEF Init
<1>4. SearchInv
  BY <1>1, <1>3 DEF Init, RunManyInit, SearchInv, BracketMeasured, KeptIsLow, Nothing,
                    TypeOK, RunManyTypeOK
<1> QED
  BY <1>1, <1>2, <1>4 DEF IInv

\* The results of a round: no scan of them is fatal, they succeed exactly at the
\* Successes, and they all lie inside the bracket.
LEMMA RoundResults ==
  ASSUME IInv, pc = "test", phase = "returned"
  PROVE  /\ ~Fatal
         /\ \A r \in Results : r.at \in cand /\ (r.status = "Done" <=> r.at \in Successes)
         /\ \A i \in cand : \E r \in Results : r.at = i
         /\ Successes \subseteq cand
         /\ \A i \in cand : i \in Nat /\ low < i /\ i < high
<1> USE DEF IInv, TypeOK, RunManyTypeOK, RunManyInv, SearchInv
<1>1. ~Fatal
  BY DEF Fatal, FinalStatuses
<1>2. \A r \in Results : r.at \in cand /\ (r.status = "Done" <=> r.at \in Successes)
  BY DEF Results, Successes
<1>3. \A i \in cand : \E r \in Results : r.at = i
  <2> TAKE i \in cand
  <2>1. [at |-> i, status |-> status[i], out |-> out[i]] \in Results
    BY DEF Results
  <2> QED
    BY <2>1
<1>4. \A i \in cand : i \in Nat /\ low < i /\ i < high
  OBVIOUS
<1> QED
  BY <1>1, <1>2, <1>3, <1>4 DEF Successes

\* What narrowing to (lo, hi) does to the bracket.
LEMMA Narrowed ==
  ASSUME IInv, pc = "test", phase = "returned", NEW lo, NEW hi, NarrowTo(lo, hi)
  PROVE  /\ low' = lo /\ high' = hi /\ lo \in Nat /\ hi \in Nat
         /\ low <= lo /\ lo < hi /\ hi <= high
         /\ lo = low \/ (lo \in Successes /\ low < lo)
         /\ hi = high \/ (hi \in cand /\ hi \notin Successes)
         /\ \A i \in cand : i <= lo \/ (hi <= i /\ i \notin Successes)
<1>1. \A i \in cand : i \in Nat /\ low < i /\ i < high
  BY RoundResults
<1>2. Successes \subseteq cand
  BY RoundResults
<1>3. low \in Nat /\ high \in Nat /\ low < high
  BY DEF IInv, TypeOK, SearchInv
<1> QED
  BY <1>1, <1>2, <1>3 DEF NarrowTo, Scanned

LEMMA NextIInv == IInv /\ [Next]_vars => IInv'
<1> SUFFICES ASSUME IInv, [Next]_vars PROVE IInv'
  OBVIOUS
<1>0. TypeOK'
  BY NextTypeOK DEF IInv
<1>1. CASE Launch
  <2>1. RunManyInv'
    BY <1>1 DEF Launch, CallRunMany, RunManyInv, Living, Zombies
  <2>2. SearchInv'
    BY <1>1 DEF Launch, CallRunMany, Candidates, IInv, SearchInv, BracketMeasured, KeptIsLow
  <2> QED
    BY <1>0, <2>1, <2>2 DEF IInv
<1>2. CASE Scan
  <2>1. pc = "test" /\ phase = "returned" /\ hist' = hist \cup Results
    BY <1>2 DEF Scan
  <2>2. PICK lo \in cand \cup {low}, hi \in cand \cup {high} : NarrowTo(lo, hi)
    BY <1>2, <2>1, RoundResults DEF Scan
  <2>3. /\ low' = lo /\ high' = hi /\ lo \in Nat /\ hi \in Nat
        /\ low <= lo /\ lo < hi /\ hi <= high
        /\ lo = low \/ (lo \in Successes /\ low < lo)
        /\ hi = high \/ (hi \in cand /\ hi \notin Successes)
        /\ \A i \in cand : i <= lo \/ (hi <= i /\ i \notin Successes)
    BY <2>1, <2>2, Narrowed
  <2>4. /\ \A r \in Results : r.at \in cand /\ (r.status = "Done" <=> r.at \in Successes)
        /\ \A i \in cand : \E r \in Results : r.at = i
        /\ Successes \subseteq cand
        /\ \A i \in cand : i \in Nat /\ low < i /\ i < high
    BY <2>1, RoundResults
  <2>5. /\ pc' = "search" /\ phase' = "idle" /\ cand' = {}
        /\ KeepResult
        /\ UNCHANGED <<size, ilow, limit>>
    BY <1>2, <2>1, RoundResults DEF Scan
  <2>6. RunManyInv'
    BY <2>5 DEF RunManyInv
  <2>7. BracketMeasured'
    <3>1. low' # ilow' => \E h \in hist' : h.at = low' /\ h.status = "Done"
      BY <2>1, <2>3, <2>4, <2>5 DEF IInv, SearchInv, BracketMeasured
    <3>2. high' # limit' => \E h \in hist' : h.at = high' /\ h.status # "Done"
      BY <2>1, <2>3, <2>4, <2>5 DEF IInv, SearchInv, BracketMeasured
    <3>3. ASSUME NEW h \in hist
          PROVE  IF h.status = "Done" THEN h.at <= low' ELSE h.at < low' \/ high' <= h.at
      <4>1. IF h.status = "Done" THEN h.at <= low ELSE h.at < low \/ high <= h.at
        BY DEF IInv, SearchInv, BracketMeasured
      <4>2. h.at \in Nat /\ low \in Nat /\ high \in Nat
        BY DEF IInv, TypeOK
      <4> QED
        BY <2>3, <4>1, <4>2
    <3>4. ASSUME NEW h \in Results
          PROVE  IF h.status = "Done" THEN h.at <= low' ELSE h.at < low' \/ high' <= h.at
      <4>1. h.at \in cand /\ h.at \in Nat
        BY <2>4
      <4>2. CASE h.at \in Successes
        BY <2>3, <2>4, <4>1, <4>2
      <4>3. CASE h.at \notin Successes
        <5>1. h.at # lo
          BY <2>3, <2>4, <4>1, <4>3 DEF IInv, TypeOK
        <5> QED
          BY <2>3, <2>4, <4>1, <4>3, <5>1
      <4> QED
        BY <4>2, <4>3
    <3> QED
      BY <2>1, <3>1, <3>2, <3>3, <3>4 DEF BracketMeasured
  <2>8. KeptIsLow'
    <3>1. CASE lo = low
      <4>1. lo \notin Successes
        BY <2>4, <3>1 DEF IInv, TypeOK
      <4> QED
        BY <2>3, <2>5, <3>1, <4>1 DEF KeepResult, KeptIsLow, IInv, SearchInv
    <3>2. CASE lo \in Successes /\ low < lo
      BY <2>3, <2>5, <3>2 DEF KeepResult, KeptIsLow, IInv, SearchInv, TypeOK
    <3> QED
      BY <2>3, <3>1, <3>2
  <2>9. \A h \in hist' : h.at < limit'
    <3>1. high \in Nat /\ limit \in Nat /\ high <= limit /\ limit' = limit
      BY <2>5 DEF IInv, SearchInv, TypeOK
    <3>2. \A h \in Results : h.at < limit
      BY <2>4, <3>1
    <3>3. \A h \in hist : h.at < limit
      BY DEF IInv, SearchInv
    <3> QED
      BY <2>1, <3>1, <3>2, <3>3
  <2>10. SearchInv'
    BY <2>3, <2>5, <2>7, <2>8, <2>9 DEF SearchInv, IInv, TypeOK
  <2> QED
    BY <1>0, <2>6, <2>10 DEF IInv
<1>3. CASE Finish
  <2>1. RunManyInv'
    BY <1>3 DEF Finish, rmVars, RunManyInv, IInv
  <2>2. SearchInv'
    BY <1>3 DEF Finish, rmVars, SearchInv, IInv, BracketMeasured, KeptIsLow
  <2> QED
    BY <1>0, <2>1, <2>2 DEF IInv
<1>4. CASE Running
  <2>1. RunManyInv'
    BY <1>4, RunManyStepInv DEF Running, IInv, TypeOK
  <2>2. cand' = cand /\ phase' # "idle"
    BY <1>4, RunManyStepFrame DEF Running, IInv, TypeOK, SearchInv
  <2>3. SearchInv'
    BY <1>4, <2>2 DEF Running, searchVars, SearchInv, IInv, BracketMeasured, KeptIsLow
  <2> QED
    BY <1>0, <2>1, <2>3 DEF IInv
<1>5. CASE UNCHANGED vars
  <2>1. RunManyInv' /\ SearchInv'
    BY <1>5 DEF vars, rmVars, searchVars, RunManyInv, SearchInv, IInv, BracketMeasured, KeptIsLow
  <2> QED
    BY <1>0, <2>1 DEF IInv
<1> QED
  BY <1>1, <1>2, <1>3, <1>4, <1>5 DEF Next

LEMMA SpecIInv == Spec => []IInv
<1> QED
  BY InitIInv, NextIInv, PTL DEF Spec

\* The bracket is measured: see BracketMeasured in CapKC.
THEOREM BracketCorrect == Spec => []BracketMeasured
<1>1. IInv => BracketMeasured
  BY DEF IInv, SearchInv
<1> QED
  BY <1>1, SpecIInv, PTL

\* What is printed for the search belongs to its lower bound.
THEOREM KeptCorrect == Spec => []KeptIsLow
<1>1. IInv => KeptIsLow
  BY DEF IInv, SearchInv
<1> QED
  BY <1>1, SpecIInv, PTL

\* run_many leaves neither a D4 process nor a zombie behind.
THEOREM ReapedCorrect == Spec => []AllReaped
<1>1. IInv => AllReaped
  BY DEF IInv, RunManyInv, AllReaped
<1> QED
  BY <1>1, SpecIInv, PTL

\* The arms of the scan that exit on an error are never taken: run_many turns every
\* result that is not a kill into Done.
THEOREM NoFatalResult == Spec => [](pc # "exited")
<1>1. IInv => pc # "exited"
  BY DEF IInv, SearchInv
<1> QED
  BY <1>1, SpecIInv, PTL

\* The files written at the end split the formula at the best prefix measured.
THEOREM SplitCorrect == Spec => []FinalSplit
<1> DEFINE Inv == IInv /\ (pc = "finished" => low + 1 >= high) /\ FinalSplit
<1>1. Init => Inv
  BY InitIInv DEF Init, FinalSplit
<1>2. Inv /\ [Next]_vars => Inv'
  <2> SUFFICES ASSUME Inv, [Next]_vars PROVE Inv'
    OBVIOUS
  <2>1. IInv'
    BY NextIInv
  <2>2. CASE Launch \/ Scan \/ Running
    <3>1. pc' # "finished"
      BY <2>2 DEF Launch, Scan, Running, searchVars
    <3> QED
      BY <2>1, <3>1 DEF FinalSplit
  <2>3. CASE Finish
    <3>1. /\ low \in Nat /\ high \in Nat /\ size \in Nat /\ limit \in Nat /\ ilow \in Nat
          /\ low + 1 >= high /\ limit <= size
          /\ low < high \/ high = limit
          /\ high # limit => \E h \in hist : h.at = high /\ h.status # "Done"
          /\ \A h \in hist : h.at \in Nat /\ h.at < limit /\ (h.status = "Done" => h.at <= low)
      BY <2>3 DEF Finish, IInv, TypeOK, SearchInv, BracketMeasured
    <3>2. /\ output'.up = {i \in Clauses : i <= low}
          /\ output'.ign = {i \in Clauses : i > low}
          /\ output'.smp = Clauses
          /\ UNCHANGED <<size, limit, low, high, hist>>
      BY <2>3 DEF Finish
    <3>3. \A i \in Clauses : i \in Nat
      BY <3>1 DEF Clauses
    <3>4. /\ output'.up \cup output'.ign = output'.smp
          /\ output'.up \cap output'.ign = {}
          /\ output'.smp = Clauses'
      BY <3>1, <3>2, <3>3 DEF Clauses
    <3>5. \A h \in hist' : h.status = "Done" => h.at \in output'.up
      BY <3>1, <3>2 DEF Clauses
    <3>6. ASSUME NEW i \in output'.ign
          PROVE  \/ limit' <= i
                 \/ \E h \in hist' : h.status # "Done" /\ h.at <= i
                                     /\ h.at - 1 \in output'.up \cup {low'}
      <4>1. i \in Nat /\ low < i /\ high <= i
        BY <3>1, <3>2, <3>3
      <4>2. CASE high = limit
        BY <3>2, <4>1, <4>2
      <4>3. CASE high # limit
        <5>1. high - 1 = low
          BY <3>1, <4>3
        <5>2. PICK h \in hist : h.at = high /\ h.status # "Done"
          BY <3>1, <4>3
        <5> QED
          BY <3>2, <4>1, <5>1, <5>2
      <4> QED
        BY <4>2, <4>3
    <3>7. FinalSplit'
      BY <3>4, <3>5, <3>6 DEF FinalSplit
    <3> QED
      BY <2>1, <3>1, <3>2, <3>7
  <2>4. CASE UNCHANGED vars
    BY <2>1, <2>4 DEF vars, rmVars, searchVars, FinalSplit, Clauses
  <2> QED
    BY <2>2, <2>3, <2>4 DEF Next
<1>3. Inv => FinalSplit
  OBVIOUS
<1> QED
  BY <1>1, <1>2, <1>3, PTL DEF Spec

\* A round only measures prefixes that have no result yet.
THEOREM NeverRetestedCorrect == Spec => NeverRetested
<1>1. IInv /\ [Next]_vars => [\A i \in cand' \ cand : \A h \in hist : h.at # i]_vars
  <2> SUFFICES ASSUME IInv, [Next]_vars, NEW i \in cand' \ cand, NEW h \in hist
               PROVE  h.at # i
    OBVIOUS
  <2>1. CASE Launch
    <3>1. i \in low + 1 .. high - 1
      BY <2>1 DEF Launch, CallRunMany, Candidates
    <3>2. h.at \in Nat /\ low \in Nat /\ high \in Nat
      BY DEF IInv, TypeOK
    <3>3. h.at <= low \/ high <= h.at
      BY <3>2 DEF IInv, SearchInv, BracketMeasured
    <3> QED
      BY <3>1, <3>2, <3>3
  <2>2. CASE Scan \/ Finish \/ Running \/ UNCHANGED vars
    <3>1. cand' \subseteq cand
      BY <2>2, RunManyStepFrame
         DEF Scan, Finish, Running, vars, rmVars, IInv, TypeOK, SearchInv
    <3> QED
      BY <3>1
  <2> QED
    BY <2>1, <2>2 DEF Next
<1> QED
  BY <1>1, SpecIInv, PTL DEF Spec, NeverRetested

-----------------------------------------------------------------------------
(* The search is an n-ary search *)

Good == {h.at : h \in {r \in hist : r.status = "Done"}}

LEMMA InitSimulates == Init => PS!PSInit
<1> SUFFICES ASSUME Init PROVE PS!PSInit
  OBVIOUS
<1>1. low \in Lows /\ hist = {}
  BY DEF Init
<1>2. high \in {StartHigh(sz, h) : sz \in Sizes, h \in Highs}
  BY DEF Init
<1> QED
  BY <1>1, <1>2 DEF PS!PSInit

LEMMA ScanSimulates ==
  ASSUME IInv, Scan
  PROVE  PS!PSNext
<1>1. pc = "test" /\ phase = "returned" /\ hist' = hist \cup Results
  BY DEF Scan
<1>2. PICK lo \in cand \cup {low}, hi \in cand \cup {high} : NarrowTo(lo, hi)
  BY <1>1, RoundResults DEF Scan
<1>3. /\ low' = lo /\ high' = hi /\ lo \in Nat /\ hi \in Nat
      /\ low <= lo /\ lo < hi /\ hi <= high
      /\ lo = low \/ (lo \in Successes /\ low < lo)
      /\ hi = high \/ (hi \in cand /\ hi \notin Successes)
      /\ \A i \in cand : i <= lo \/ (hi <= i /\ i \notin Successes)
  BY <1>1, <1>2, Narrowed
<1>4. /\ \A r \in Results : r.at \in cand /\ (r.status = "Done" <=> r.at \in Successes)
      /\ \A i \in cand : \E r \in Results : r.at = i
      /\ Successes \subseteq cand
      /\ \A i \in cand : i \in Nat /\ low < i /\ i < high
  BY <1>1, RoundResults
<1>5. low \in Nat /\ high \in Nat
  BY DEF IInv, TypeOK
<1>6. Good' = Good \cup Successes
  <2>1. \A x : x \in Good' <=> \E h \in hist' : h.status = "Done" /\ h.at = x
    BY DEF Good
  <2>2. \A x : x \in Good <=> \E h \in hist : h.status = "Done" /\ h.at = x
    BY DEF Good
  <2>3. \A x : x \in Successes <=> \E h \in Results : h.status = "Done" /\ h.at = x
    BY <1>4
  <2>4. \A x : x \in Good' <=> x \in Good \/ x \in Successes
    BY <1>1, <2>1, <2>2, <2>3
  <2> QED
    BY <2>4
<1>7. cand \in SUBSET (low + 1 .. high - 1) /\ Successes \in SUBSET cand
  BY <1>4, <1>5
<1>8. /\ cand \subseteq {p \in Int : low < p /\ p < high}
      /\ \A g \in Successes : g <= low'
      /\ \A p \in cand : p <= low' \/ high' <= p
      /\ low' \in Successes \cup {low}
      /\ high' \in cand \cup {high}
      /\ low' < high'
  BY <1>3, <1>4
<1>9. {h.at : h \in {r \in hist' : r.status = "Done"}}
        = {h.at : h \in {r \in hist : r.status = "Done"}} \cup Successes
  BY <1>6, Zenon DEF Good
<1> QED
  BY <1>4, <1>7, <1>8, <1>9, Zenon DEF PS!PSNext, PS!Round

\* Every behaviour of the search, with its processes, faults and files, is a behaviour
\* of the abstract search.
THEOREM SearchRefinement == Spec => PS!PSSpec
<1>1. IInv /\ [Next]_vars => [PS!PSNext]_PS!psVars
  <2> SUFFICES ASSUME IInv, [Next]_vars PROVE [PS!PSNext]_PS!psVars
    OBVIOUS
  <2>1. CASE Scan
    BY <2>1, ScanSimulates
  <2>2. CASE Launch \/ Finish \/ Running \/ UNCHANGED vars
    <3>1. UNCHANGED <<low, high, hist>>
      BY <2>2 DEF Launch, Finish, Running, vars, searchVars
    <3> QED
      BY <3>1 DEF PS!psVars
  <2> QED
    BY <2>1, <2>2 DEF Next
<1> QED
  BY <1>1, InitSimulates, SpecIInv, PTL DEF Spec, PS!PSSpec

-----------------------------------------------------------------------------
(* Progress *)

LEMMA HalfAtMost ==
  ASSUME NEW r \in Nat, NEW d \in Nat, d >= 2
  PROVE  r \div d \in Nat /\ 2 * (r \div d) <= r
<1>1. r \div d \in Nat
  BY SMT
<1>2. 2 * (r \div d) <= r
  BY Z3
<1> QED
  BY <1>1, <1>2

\* With a thread, a bracket with something inside has a candidate: the first step from
\* low stays below high.
LEMMA SomeCandidate ==
  ASSUME TypeOK, n > 0, low + 1 < high
  PROVE  Candidates # {}
<1>1. low \in Nat /\ high \in Nat /\ n \in Nat
  BY DEF TypeOK
<1> DEFINE share == (high - low + 1) \div (n + 1)
<1>2. share \in Nat /\ 2 * share <= high - low + 1
  BY <1>1, HalfAtMost
<1>3. Step = IF share > 1 THEN share ELSE 1
  BY DEF Step
<1> HIDE DEF share
<1>4. Step \in Nat /\ Step >= 1 /\ low + Step < high
  BY <1>1, <1>2, <1>3
<1>5. low + Step \in low + 1 .. high - 1
  BY <1>1, <1>4
<1>6. 1 \in 1 .. n /\ low + Step = low + 1 * Step
  BY <1>1, <1>4
<1>7. low + Step \in Candidates
  BY <1>5, <1>6 DEF Candidates
<1> QED
  BY <1>7

\* Every round of a search with a thread narrows the bracket: the loop of run cannot
\* repeat the same round for ever.
THEOREM RoundsNarrowCorrect == Spec => RoundsNarrow
<1> DEFINE Inv == IInv /\ (pc = "test" /\ n > 0 => cand # {})
<1>1. Init => Inv
  BY InitIInv DEF Init
<1>2. Inv /\ [Next]_vars => Inv'
  <2> SUFFICES ASSUME Inv, [Next]_vars PROVE Inv'
    OBVIOUS
  <2>1. IInv'
    BY NextIInv
  <2>2. CASE Launch
    BY <2>1, <2>2, SomeCandidate DEF Launch, CallRunMany, IInv
  <2>3. CASE Running
    <3>1. cand' = cand
      BY <2>3, RunManyStepFrame DEF Running, IInv, TypeOK, SearchInv
    <3> QED
      BY <2>1, <2>3, <3>1 DEF Running, searchVars
  <2>4. CASE Scan \/ Finish
    BY <2>1, <2>4 DEF Scan, Finish
  <2>5. CASE UNCHANGED vars
    BY <2>1, <2>5 DEF vars, rmVars, searchVars
  <2> QED
    BY <2>2, <2>3, <2>4, <2>5 DEF Next
<1>3. Inv /\ [Next]_vars
        => [pc = "test" /\ pc' = "search" /\ n > 0 => high' - low' < high - low]_vars
  <2> SUFFICES ASSUME Inv, [Next]_vars, pc = "test", pc' = "search", n > 0
               PROVE  high' - low' < high - low
    OBVIOUS
  <2>1. Scan
    BY DEF Next, Launch, Running, Finish, vars, searchVars
  <2>2. phase = "returned"
    BY <2>1 DEF Scan
  <2>3. PICK lo \in cand \cup {low}, hi \in cand \cup {high} : NarrowTo(lo, hi)
    BY <2>1, <2>2, RoundResults DEF Scan
  <2>4. /\ low' = lo /\ high' = hi /\ lo \in Nat /\ hi \in Nat
        /\ low <= lo /\ hi <= high
        /\ \A i \in cand : i <= lo \/ hi <= i
    BY <2>2, <2>3, Narrowed
  <2>5. PICK i \in cand : i \in Nat /\ low < i /\ i < high
    BY <2>2, RoundResults
  <2>6. low \in Nat /\ high \in Nat
    BY DEF IInv, TypeOK
  <2> QED
    BY <2>4, <2>5, <2>6
<1> QED
  BY <1>1, <1>2, <1>3, PTL DEF Spec, RoundsNarrow

-----------------------------------------------------------------------------
(* The candidate files *)

\* Where the offset z falls among the multiples of s, and that this counts them.
LEMMA Multiples ==
  ASSUME NEW s \in Nat \ {0}, NEW z \in Nat
  PROVE  \E q \in Nat : q * s <= z /\ z < (q + 1) * s
<1>1. z \div s \in Nat
  BY SMT
<1>2. (z \div s) * s <= z /\ z < ((z \div s) + 1) * s
  BY Z3
<1> QED
  BY <1>1, <1>2

LEMMA FewerMultiples ==
  ASSUME NEW s \in Nat \ {0}, NEW q \in Nat, NEW k \in Nat, q * s < k * s
  PROVE  q < k
BY Z3

LEMMA StepPositive ==
  ASSUME low \in Nat, high \in Nat, n \in Nat
  PROVE  Step \in Nat \ {0}
<1> DEFINE share == (high - low + 1) \div (n + 1)
<1>1. share \in Int
  BY SMT
<1>2. Step = IF share > 1 THEN share ELSE 1
  BY DEF Step
<1> HIDE DEF share
<1> QED
  BY <1>1, <1>2

\* The pieces switched on up to a candidate are the prefix that ends there: they overlap
\* or touch, and none sticks out.
LEMMA PrefixActive ==
  ASSUME TypeOK, NEW i \in Candidates
  PROVE  ActiveAt(i) = 0 .. i
<1> DEFINE s == Step
<1>1. low \in Nat /\ high \in Nat /\ n \in Nat
  BY DEF TypeOK
<1>2. s \in Nat \ {0}
  BY <1>1, StepPositive
<1>3. PICK k \in 1 .. n : i = low + k * s /\ low < i /\ i < high
  BY <1>1 DEF Candidates
<1>4. \A j \in Candidates : \E c \in 1 .. n : j = low + c * s /\ low < j /\ j < high
  BY <1>1 DEF Candidates
<1> HIDE DEF s
<1>5. ASSUME NEW j \in Candidates, j <= i, NEW x \in j - s .. j
      PROVE  x \in 0 .. i
  <2>1. PICK c \in 1 .. n : j = low + c * s /\ low < j
    BY <1>4
  <2>2. c * s \in Nat /\ s <= c * s
    BY <1>1, <1>2, Z3
  <2>3. i \in Int
    BY <1>1 DEF Candidates
  <2> QED
    BY <1>1, <1>2, <1>5, <2>1, <2>2, <2>3
<1>6. ASSUME NEW x \in low + 1 .. i
      PROVE  \E j \in Candidates : j <= i /\ x \in j - s .. j
  <2>1. k * s \in Nat
    BY <1>1, <1>2, Z3
  <2>2. x - low - 1 \in Nat /\ x - low - 1 < k * s
    BY <1>1, <1>3, <1>6, <2>1
  <2>3. PICK q \in Nat : q * s <= x - low - 1 /\ x - low - 1 < (q + 1) * s
    BY <1>2, <2>2, Multiples
  <2>4. q * s \in Nat /\ (q + 1) * s \in Nat /\ (q + 1) * s = q * s + s
    BY <1>2, Z3
  <2>5. q * s < k * s
    BY <2>1, <2>2, <2>3, <2>4
  <2>6. q < k
    BY <1>1, <1>2, <2>5, FewerMultiples
  <2> DEFINE j == low + (q + 1) * s
  <2>7. q + 1 \in 1 .. n /\ q + 1 <= k
    BY <1>1, <2>6
  <2>8. (q + 1) * s <= k * s
    BY <1>1, <1>2, <2>7, Z3
  <2>9. j <= i /\ low < j /\ x \in j - s .. j
    BY <1>1, <1>2, <1>3, <1>6, <2>1, <2>2, <2>3, <2>4, <2>8
  <2>10. j \in low + 1 .. high - 1
    BY <1>1, <1>3, <2>4, <2>9
  <2>11. j \in Candidates
    BY <2>7, <2>10 DEF Candidates, s
  <2> QED
    BY <2>9, <2>11
<1>7. \A x : x \in ActiveAt(i)
             <=> x \in 0 .. low \/ \E j \in Candidates : j <= i /\ x \in j - s .. j
  BY DEF ActiveAt, s
<1>8. \A x \in 0 .. low : x \in 0 .. i
  BY <1>1, <1>3
<1>9. \A x \in 0 .. i : x \in 0 .. low \/ x \in low + 1 .. i
  BY <1>1, <1>3
<1>10. \A x : x \in ActiveAt(i) <=> x \in 0 .. i
  BY <1>5, <1>6, <1>7, <1>8, <1>9
<1> QED
  BY <1>10

\* While a round runs, every D4 process has its prefix of the ordering in its file, and
\* no prefix is the whole formula (capkc.cpp:41-66).
THEOREM FilesCorrect == Spec => []CandidateFiles
<1> DEFINE Inv == IInv /\ CandidateFiles
<1>1. Init => Inv
  BY InitIInv DEF Init, CandidateFiles
<1>2. Inv /\ [Next]_vars => Inv'
  <2> SUFFICES ASSUME Inv, [Next]_vars PROVE Inv'
    OBVIOUS
  <2>1. IInv'
    BY NextIInv
  <2>2. CASE Launch
    <3>1. cand' = Candidates /\ files' = [i \in Candidates |-> ActiveAt(i)] /\ size' = size
      BY <2>2 DEF Launch, CallRunMany
    <3>2. \A i \in Candidates : files'[i] = 0 .. i
      BY <3>1, PrefixActive DEF IInv
    <3>3. \A i \in Candidates : i < size
      BY DEF Candidates, IInv, SearchInv, TypeOK
    <3> QED
      BY <2>1, <3>1, <3>2, <3>3 DEF CandidateFiles
  <2>3. CASE Running
    <3>1. cand' = cand
      BY <2>3, RunManyStepFrame DEF Running, IInv, TypeOK, SearchInv
    <3> QED
      BY <2>1, <2>3, <3>1 DEF Running, searchVars, CandidateFiles
  <2>4. CASE Scan \/ Finish
    BY <2>1, <2>4 DEF Scan, Finish, CandidateFiles
  <2>5. CASE UNCHANGED vars
    BY <2>1, <2>5 DEF vars, rmVars, searchVars, CandidateFiles
  <2> QED
    BY <2>2, <2>3, <2>4, <2>5 DEF Next
<1> QED
  BY <1>1, <1>2, SpecIInv, PTL DEF Spec
=============================================================================

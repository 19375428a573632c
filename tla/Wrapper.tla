------------------------------ MODULE Wrapper ------------------------------
(***************************************************************************)
(* The resource wrapper around D4 (capkc/D4/wrapper/src/main.cpp and       *)
(* divkc's copy of it): fork, execute the command, look every millisecond  *)
(* at its memory, its end and the clock, kill it beyond a limit, and print *)
(* one line with a status.                                                 *)
(*                                                                         *)
(* The child runs beside the wrapper.  D4 writes the circuit at the end of *)
(* its work; what becomes of the file is `file'.                           *)
(***************************************************************************)
VARIABLES
  setup,    \* how the wrapper is built and started
  wpc,      \* where the wrapper stands in its loop
  child,    \* the process forked
  fate,     \* how the child ended
  file,     \* the circuit it writes
  big,      \* the child is beyond the memory limit
  late,     \* the time limit has passed
  seen,     \* mem > max_mem, a maximum over all readings
  due,      \* dur > max_time, as read in this round
  report    \* the status printed

wrapperVars == <<setup, wpc, child, fate, file, big, late, seen, due, report>>

\* strict: capkc's copy, which looks at the exit code.  autoreap: SIGCHLD is ignored,
\* which a process inherits; children that end are then waited for by nobody.
Setups == [strict : BOOLEAN, autoreap : BOOLEAN]

Alive == {"forked", "running"}
Exited(strict) == {"success", "exec failed"} \cup IF strict THEN {} ELSE {"failure"}

WrapperInit ==
  /\ setup = [strict |-> FALSE, autoreap |-> FALSE]
  /\ wpc = "idle" /\ child = "none" /\ fate = "none" /\ file = "none" /\ report = "none"
  /\ big = FALSE /\ late = FALSE /\ seen = FALSE /\ due = FALSE

StartWrapper(s) ==
  /\ setup' = s
  /\ wpc' = "fork" /\ child' = "none" /\ fate' = "none" /\ file' = "none" /\ report' = "none"
  /\ big' = FALSE /\ late' = FALSE /\ seen' = FALSE /\ due' = FALSE

Fork ==
  /\ wpc = "fork"
  /\ \/ wpc' = "read" /\ child' = "forked" /\ UNCHANGED report
     \/ wpc' = "over" /\ report' = "fork failed" /\ UNCHANGED child
  /\ UNCHANGED <<setup, fate, file, big, late, seen, due>>

-----------------------------------------------------------------------------
(* The child *)

ChildEnds(how) ==
  /\ fate' = how
  /\ child' = IF setup.autoreap THEN "gone" ELSE "zombie"

Exec ==
  /\ child = "forked"
  /\ child' = "running"
  /\ UNCHANGED <<setup, wpc, fate, file, big, late, seen, due, report>>

\* After a failed execv the child runs into the final `return 0'.
ExecFails ==
  /\ child = "forked"
  /\ ChildEnds("exec failed")
  /\ UNCHANGED <<setup, wpc, file, big, late, seen, due, report>>

Grow ==
  /\ child = "running" /\ ~big
  /\ big' = TRUE
  /\ UNCHANGED <<setup, wpc, child, fate, file, late, seen, due, report>>

WriteCircuit ==
  /\ child = "running"
  /\ \/ file = "none" /\ file' = "partial"
     \/ file = "partial" /\ file' = "complete"
  /\ UNCHANGED <<setup, wpc, child, fate, big, late, seen, due, report>>

ChildReturns ==
  /\ child = "running"
  /\ \/ file = "complete" /\ ChildEnds("success")
     \/ \E how \in {"failure", "crash"} : ChildEnds(how)
  /\ UNCHANGED <<setup, wpc, file, big, late, seen, due, report>>

TimePasses ==
  /\ wpc \in {"read", "poll", "check"} /\ ~late
  /\ late' = TRUE
  /\ UNCHANGED <<setup, wpc, child, fate, file, big, seen, due, report>>

ChildStep == Exec \/ ExecFails \/ Grow \/ WriteCircuit \/ ChildReturns

-----------------------------------------------------------------------------
(* The loop.  A child that is no longer there has no memory. *)

ReadMem ==
  /\ wpc = "read"
  /\ seen' = (seen \/ (big /\ child \in Alive))
  /\ wpc' = "poll"
  /\ UNCHANGED <<setup, child, fate, file, big, late, due, report>>

\* waitpid with WNOHANG, and the clock.
Poll ==
  /\ wpc = "poll"
  /\ due' = late
  /\ IF child = "zombie"
     THEN /\ child' = "gone"
          /\ report' = IF fate \in Exited(setup.strict) THEN "done" ELSE "err"
          /\ wpc' = "over"
     ELSE wpc' = "check" /\ UNCHANGED <<child, report>>
  /\ UNCHANGED <<setup, fate, file, big, late, seen>>

\* kill(pid, SIGINT), which ends D4, unless it has just ended by itself.
Interrupt ==
  IF child \in Alive THEN ChildEnds("interrupted") ELSE UNCHANGED <<child, fate>>

\* Faulty variant: only the memory is looked at.
CheckMemory ==
  /\ wpc = "check"
  /\ IF seen THEN Interrupt /\ wpc' = "wait"
     ELSE wpc' = "read" /\ UNCHANGED <<child, fate>>
  /\ UNCHANGED <<setup, file, big, late, seen, due, report>>
Check ==
  /\ wpc = "check"
  /\ IF seen \/ due THEN Interrupt /\ wpc' = "wait"
     ELSE wpc' = "read" /\ UNCHANGED <<child, fate>>
  /\ UNCHANGED <<setup, file, big, late, seen, due, report>>

\* Faulty variant: the wrapper does not wait for the child it has killed.
ReturnAtOnce ==
  /\ wpc = "wait"
  /\ report' = IF seen THEN "mem" ELSE "timeout"
  /\ wpc' = "over"
  /\ UNCHANGED <<setup, child, fate, file, big, late, seen, due>>

\* The second waitpid, which blocks; there may be nobody to wait for.
Wait ==
  /\ wpc = "wait"
  /\ \/ /\ child = "zombie"
        /\ child' = "gone"
        /\ report' = IF seen THEN "mem" ELSE "timeout"
     \/ /\ child = "gone"
        /\ report' = IF seen THEN "mem err" ELSE "timeout err"
        /\ UNCHANGED child
  /\ wpc' = "over"
  /\ UNCHANGED <<setup, fate, file, big, late, seen, due>>

LoopStep == Fork \/ ReadMem \/ Poll \/ Check \/ Wait

WrapperStep == LoopStep \/ ChildStep \/ TimePasses

-----------------------------------------------------------------------------
(* Properties *)

WrapperTypeOK ==
  /\ setup \in Setups
  /\ wpc \in {"idle", "fork", "read", "poll", "check", "wait", "over"}
  /\ child \in {"none", "forked", "running", "zombie", "gone"}
  /\ fate \in {"none", "success", "exec failed", "failure", "crash", "interrupted"}
  /\ file \in {"none", "partial", "complete"}
  /\ big \in BOOLEAN /\ late \in BOOLEAN /\ seen \in BOOLEAN /\ due \in BOOLEAN
  /\ report \in {"none", "done", "err", "mem", "timeout", "mem err", "timeout err", "fork failed"}

\* What the status says once the wrapper has returned.
StatusTrue ==
  wpc = "over" =>
    /\ child \in {"none", "gone"}
    /\ report = "done" =>
         file = "complete" \/ fate = "exec failed" \/ (~setup.strict /\ fate = "failure")
    /\ report = "err" => fate \in {"failure", "crash"}
    /\ report \in {"mem", "mem err"} => big
    /\ report \in {"timeout", "timeout err"} => late
    /\ fate = "interrupted" => report \notin {"done", "err"}
    /\ report \in {"mem err", "timeout err"} => setup.autoreap

\* When the wrapper returns, no process it has started runs or waits to be reaped, and
\* the status is true although the child may end between any two looks at it: `done' is
\* said of a complete circuit only, unless the command could not be executed, or failed
\* under the copy that ignores the exit code; `err' of a child that failed by itself;
\* `mem' and `timeout' of one that was beyond the limit, or ended just before it was
\* killed, whose circuit may be complete all the same.  (main.cpp:68-117)
WrapperSound == WrapperTypeOK /\ StatusTrue

\* The wrapper returns, whatever D4 does.  (main.cpp:76-119)
WrapperEnds == wpc = "fork" ~> wpc = "over"
=============================================================================

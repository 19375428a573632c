------------------------------ MODULE RunMany ------------------------------
(***************************************************************************)
(* run_many of capkc/capkc/src/util.cpp: D4 is started once per candidate  *)
(* formula of a batch, as a child process with a pipe on its standard      *)
(* output, and one thread polls the children until none is running.        *)
(*                                                                         *)
(* A child is named by the index of its candidate prefix; the vectors      *)
(* `res' and `children' of the code are ordered by that index, so they are *)
(* functions on the set cand.  The polling thread interleaves with the     *)
(* D4 processes and with the passing of time; system calls are atomic and  *)
(* the code between two of them is merged into the first.                  *)
(***************************************************************************)
EXTENDS Integers, FiniteSets

CONSTANT MaxFaults      \* how many pipe() or fork() calls may fail in a run

ASSUME MaxFaultsAssumption == MaxFaults \in Nat

VARIABLES
  phase,     \* where the thread in run_many stands
  cand,      \* the candidate prefixes of this batch
  proc,      \* the operating system's view of each child
  running,   \* ForkRes::running
  status,    \* RunRes::status
  out,       \* the model count in a child's output: the index of the prefix it counts
  cursor,    \* the child the polling loop visits
  late,      \* elapsed > time_seconds, as sampled by the current visit
  expired,   \* the time limit of the batch has passed
  printed,   \* counts of the "s " lines that may sit in the unflushed stdout buffer
  faults     \* failed pipe() and fork() calls so far

rmVars == <<phase, cand, proc, running, status, out, cursor, late, expired,
            printed, faults>>

None == -1

Phases   == {"idle", "fork", "poll", "limits", "collect", "returned", "suicide"}
Living   == {"forked", "alive", "big"}    \* before execvp, D4 within and beyond its memory limit
Zombies  == {"finished", "crashed"}       \* has ended and was not waited for
NoChild  == {"unborn", "nopipe", "nofork"}
ProcStates == Living \cup Zombies \cup NoChild \cup {"reaped"}

\* The members of enum class RunStatus a result can take.
Statuses == {"Void", "Running", "Done", "Error", "Impossible", "Memory", "Time"}

RunManyInit ==
  /\ phase = "idle"
  /\ cand = {}
  /\ proc = [i \in {} |-> "unborn"]
  /\ running = [i \in {} |-> FALSE]
  /\ status = [i \in {} |-> "Void"]
  /\ out = [i \in {} |-> None]
  /\ cursor = None
  /\ late = FALSE
  /\ expired = FALSE
  /\ printed = {}
  /\ faults = 0

\* The call of run_many with one path per member of C.
CallRunMany(C) ==
  /\ phase = "idle"
  /\ phase' = "fork"
  /\ cand' = C
  /\ proc' = [i \in C |-> "unborn"]
  /\ running' = [i \in C |-> FALSE]
  /\ status' = [i \in C |-> "Void"]
  /\ out' = [i \in C |-> None]
  /\ cursor' = None
  /\ late' = FALSE
  /\ expired' = FALSE
  /\ UNCHANGED <<printed, faults>>

-----------------------------------------------------------------------------
(* Forking, in the order of the candidates. *)

NextToFork(i) ==
  /\ phase = "fork"
  /\ proc[i] = "unborn"
  /\ \A j \in cand : proc[j] = "unborn" => i <= j

Fork(i) ==
  /\ NextToFork(i)
  /\ proc' = [proc EXCEPT ![i] = "forked"]
  /\ running' = [running EXCEPT ![i] = TRUE]
  /\ UNCHANGED <<phase, cand, status, out, cursor, late, expired, printed, faults>>

\* pipe() fails: fork_one returns with running = true and pid = 0.
PipeFails(i) ==
  /\ NextToFork(i)
  /\ faults < MaxFaults
  /\ faults' = faults + 1
  /\ proc' = [proc EXCEPT ![i] = "nopipe"]
  /\ running' = [running EXCEPT ![i] = TRUE]
  /\ UNCHANGED <<phase, cand, status, out, cursor, late, expired, printed>>

\* fork() fails: running = false, and the blocking read end and the write end
\* of the pipe both stay open in this process.
ForkFails(i) ==
  /\ NextToFork(i)
  /\ faults < MaxFaults
  /\ faults' = faults + 1
  /\ proc' = [proc EXCEPT ![i] = "nofork"]
  /\ UNCHANGED <<phase, cand, running, status, out, cursor, late, expired, printed>>

-----------------------------------------------------------------------------
(* The polling loop. *)

\* Go on to the next running child in the order of the vector, to the first one
\* when the pass is over, or leave the loop when none is running.
Advance(run) ==
  LET live == {j \in cand : run[j]}
  IN  \/ /\ live = {}
         /\ phase' = "collect"
         /\ cursor' = None
      \/ /\ phase' = "poll"
         /\ cursor' \in live
         /\ \/ /\ cursor' > cursor
               /\ \A k \in live : k > cursor => cursor' <= k
            \/ \A k \in live : k <= cursor /\ cursor' <= k

StartPolling ==
  /\ phase = "fork"
  /\ \A i \in cand : proc[i] # "unborn"
  /\ Advance(running)
  /\ UNCHANGED <<cand, proc, running, status, out, late, expired, printed, faults>>

\* Set running to false for child i and visit the next child.
StopAndAdvance(i) ==
  /\ running' = [running EXCEPT ![i] = FALSE]
  /\ Advance(running')

\* waitpid(pid, WNOHANG) reaps the child: its exit status is not kept in the result.
Reap(i) ==
  /\ phase = "poll" /\ cursor = i
  /\ proc[i] \in Zombies
  /\ proc' = [proc EXCEPT ![i] = "reaped"]
  /\ StopAndAdvance(i)
  /\ UNCHANGED <<cand, status, out, late, expired, printed, faults>>

\* waitpid returns 0: the child runs.  `elapsed' was computed just before.
FindRunning(i) ==
  /\ phase = "poll" /\ cursor = i
  /\ proc[i] \in Living
  /\ phase' = "limits"
  /\ late' = expired
  /\ UNCHANGED <<cand, proc, running, status, out, cursor, expired, printed, faults>>

\* waitpid returns -1: another entry has already waited for this child.
\* The visit goes on to the limits.
FindStolen(i) ==
  /\ phase = "poll" /\ cursor = i
  /\ proc[i] = "reaped"
  /\ running' = [running EXCEPT ![i] = FALSE]
  /\ phase' = "limits"
  /\ late' = expired
  /\ UNCHANGED <<cand, proc, status, out, cursor, expired, printed, faults>>

\* The entry without a pipe reads from an uninitialised descriptor: nothing, or the
\* text another child of the batch has written and nobody has read yet.
StrayRead(i) ==
  \/ UNCHANGED out
  \/ \E z \in cand \ {i} :
       /\ out[z] # None
       /\ out' = [out EXCEPT ![i] = out[z], ![z] = None]

\* The entry without a pipe has pid 0: its waitpid reaps any child of the group.
StealExit(i, z) ==
  /\ phase = "poll" /\ cursor = i
  /\ proc[i] = "nopipe"
  /\ proc[z] \in Zombies
  /\ proc' = [proc EXCEPT ![z] = "reaped"]
  /\ StopAndAdvance(i)
  /\ StrayRead(i)
  /\ UNCHANGED <<cand, status, late, expired, printed, faults>>

\* With no zombie in the group the same waitpid returns 0, or -1 when no child is left.
FindNoExit(i) ==
  /\ phase = "poll" /\ cursor = i
  /\ proc[i] = "nopipe"
  /\ \A z \in cand : proc[z] \notin Zombies
  /\ running' = [running EXCEPT ![i] = \E z \in cand : proc[z] \in Living]
  /\ phase' = "limits"
  /\ late' = expired
  /\ StrayRead(i)
  /\ UNCHANGED <<cand, proc, status, cursor, expired, printed, faults>>

\* Faulty variant: the killed child is not waited for.
KillWithoutWait(i, why) ==
  /\ proc' = [proc EXCEPT ![i] = IF proc[i] \in Living THEN "crashed" ELSE @]
  /\ status' = [status EXCEPT ![i] = why]
  /\ StopAndAdvance(i)
  /\ UNCHANGED <<cand, out, late, expired, printed, faults>>

\* SIGKILL and a blocking wait; the result is final.
KillFor(i, why) ==
  /\ proc' = [proc EXCEPT ![i] = "reaped"]
  /\ status' = [status EXCEPT ![i] = why]
  /\ StopAndAdvance(i)
  /\ UNCHANGED <<cand, out, late, expired, printed, faults>>

\* The child may have ended since waitpid looked: it is a timeout all the same.
KillLate(i) ==
  /\ phase = "limits" /\ cursor = i
  /\ late
  /\ proc[i] # "nopipe"
  /\ KillFor(i, "Time")

KillBig(i) ==
  /\ phase = "limits" /\ cursor = i
  /\ ~late
  /\ proc[i] = "big"
  /\ KillFor(i, "Memory")

WithinLimits(i) ==
  /\ phase = "limits" /\ cursor = i
  /\ ~late
  /\ proc[i] # "big"
  /\ Advance(running)
  /\ UNCHANGED <<cand, proc, running, status, out, late, expired, printed, faults>>

\* kill(0, SIGKILL) for the entry without a pipe ends the whole process group.
KillGroup(i) ==
  /\ phase = "limits" /\ cursor = i
  /\ late
  /\ proc[i] = "nopipe"
  /\ phase' = "suicide"
  /\ proc' = [j \in cand |-> IF proc[j] \in NoChild THEN proc[j] ELSE "reaped"]
  /\ UNCHANGED <<cand, running, status, out, cursor, late, expired, printed, faults>>

-----------------------------------------------------------------------------
(* After the loop: every child that was not killed is Done. *)

FinalStatus(i) == IF status[i] \in {"Memory", "Time"} THEN status[i] ELSE "Done"

\* The final read of a pipe whose write end this process holds open never returns.
Hung == phase = "collect" /\ \E i \in cand : proc[i] = "nofork"

Collect ==
  /\ phase = "collect"
  /\ ~Hung
  /\ status' = [i \in cand |-> FinalStatus(i)]
  /\ phase' = "returned"
  /\ UNCHANGED <<cand, proc, running, out, cursor, late, expired, printed, faults>>

-----------------------------------------------------------------------------
(* The D4 processes and the clock. *)

ProcessStep(i, from, to) ==
  /\ phase \notin {"suicide", "idle"}
  /\ proc[i] \in from
  /\ proc' = [proc EXCEPT ![i] = to]
  /\ UNCHANGED <<phase, cand, running, status, cursor, late, expired, printed, faults>>

Exec(i) == ProcessStep(i, {"forked"}, "alive") /\ UNCHANGED out

\* execvp fails and the copy of this program exits, which flushes into the pipe
\* the part of the parent's stdout that was still buffered at the fork.
ExecFails(i) ==
  /\ ProcessStep(i, {"forked"}, "crashed")
  /\ \E o \in printed \cup {None} : out' = [out EXCEPT ![i] = o]

D4Grows(i) == ProcessStep(i, {"alive"}, "big") /\ UNCHANGED out

D4Counts(i) ==
  /\ ProcessStep(i, {"alive", "big"}, "finished")
  /\ out' = [out EXCEPT ![i] = i]

\* A signal, std::bad_alloc, the kernel's out-of-memory killer, a file it cannot read.
D4Dies(i) == ProcessStep(i, {"alive", "big"}, "crashed") /\ UNCHANGED out

Tick ==
  /\ phase \in {"poll", "limits"}
  /\ ~expired
  /\ expired' = TRUE
  /\ UNCHANGED <<phase, cand, proc, running, status, out, cursor, late, printed, faults>>

-----------------------------------------------------------------------------
\* What the thread in run_many does, between the call and the return.
ThreadStep ==
  \/ StartPolling
  \/ Collect
  \/ \E i \in cand :
       \/ Fork(i) \/ PipeFails(i) \/ ForkFails(i)
       \/ Reap(i) \/ FindRunning(i) \/ FindStolen(i) \/ FindNoExit(i)
       \/ \E z \in cand : StealExit(i, z)
       \/ KillLate(i) \/ KillBig(i) \/ WithinLimits(i) \/ KillGroup(i)

ProcessesStep ==
  \E i \in cand : Exec(i) \/ ExecFails(i) \/ D4Grows(i) \/ D4Counts(i) \/ D4Dies(i)

RunManyStep == ThreadStep \/ ProcessesStep \/ Tick

RunManyTypeOK ==
  /\ phase \in Phases
  /\ cand \subseteq Nat
  /\ proc \in [cand -> ProcStates]
  /\ running \in [cand -> BOOLEAN]
  /\ status \in [cand -> Statuses]
  /\ out \in [cand -> Nat \cup {None}]
  /\ cursor \in cand \cup {None}
  /\ late \in BOOLEAN
  /\ expired \in BOOLEAN
  /\ printed \subseteq Nat \cup {None}
  /\ faults \in Nat
=============================================================================

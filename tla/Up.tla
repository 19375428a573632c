--------------------------------- MODULE Up ---------------------------------
(***************************************************************************)
(* The tools up and smp of capkc (capkc/capkc/src/up.cpp, smp.cpp): up     *)
(* orders the clauses, removes as many as it is told from the end, and     *)
(* writes what is left (.up), what is removed (.ign) and everything (.smp),*)
(* by switching the clauses of one store off and on.  smp writes .smp only.*)
(***************************************************************************)
EXTENDS Ordering

VARIABLES
  active,     \* which clauses are in use
  nbActive,   \* the counter of active clauses, which the headers show
  files       \* the files written: their clauses, and the number in their headers

vars == <<orderingVars, active, nbActive, files>>

Init ==
  /\ OrderingInit
  /\ active = [id \in Ids |-> TRUE]
  /\ nbActive = Cardinality(Ids)
  /\ files = <<>>

Order == OrderingStep /\ UNCHANGED <<active, nbActive, files>>

\* The number of clauses of .up.  The option is a double, here a number of quarters; below
\* one it is a share of the clauses.  size_t truncates.
Low ==
  IF job.quarters < 4 THEN (4 * Len(res) - (job.quarters * Len(res) - 4)) \div 4
  ELSE IF job.quarters >= 4 * Len(res) THEN 0
  ELSE (4 * Len(res) - job.quarters) \div 4

Position(id) == CHOOSE k \in DOMAIN res : res[k] = id

\* set_active on every clause of the order, which counts only what it changes.
Switch(On) ==
  LET wanted == [id \in Ids |-> IF id \in Range(res) THEN id \in On ELSE active[id]]
      changed(b) == Cardinality({id \in Ids : active[id] # wanted[id] /\ wanted[id] = b})
  IN  /\ active' = wanted
      /\ nbActive' = nbActive + changed(TRUE) - changed(FALSE)

Write(name) ==
  files' = [f \in DOMAIN files \cup {name} |->
              IF f = name THEN [clauses |-> {id \in Ids : active'[id]}, header |-> nbActive']
              ELSE files[f]]

WriteUp ==
  /\ pc = "ordered"
  /\ Switch({id \in Range(res) : Position(id) <= Low})
  /\ Write("up")
  /\ pc' = "ign"
  /\ UNCHANGED <<job, graph, clustering, i, level, clids, res>>

\* Faulty variant: the first clause removed is in neither file.
WriteIgnAfter ==
  /\ pc = "ign"
  /\ Switch({id \in Range(res) : Position(id) > Low + 1})
  /\ Write("ign")
  /\ pc' = "smp"
  /\ UNCHANGED <<job, graph, clustering, i, level, clids, res>>
WriteIgn ==
  /\ pc = "ign"
  /\ Switch({id \in Range(res) : Position(id) > Low})
  /\ Write("ign")
  /\ pc' = "smp"
  /\ UNCHANGED <<job, graph, clustering, i, level, clids, res>>

WriteSmp ==
  /\ pc = IF job.tool = "smp" THEN "start" ELSE "smp"
  /\ Switch(Range(res))
  /\ Write("smp")
  /\ pc' = "done"
  /\ UNCHANGED <<job, graph, clustering, i, level, clids, res>>

Next == Order \/ WriteUp \/ WriteIgn \/ WriteSmp

Spec == Init /\ [][Next]_vars

-----------------------------------------------------------------------------
(* Properties *)

Ceiling(quarters) == (quarters + 3) \div 4

\* How many clauses are removed: the number asked for, or one fewer than the share below one
\* that is asked for, both rounded up.
Removed ==
  LET asked == IF job.quarters < 4 THEN Ceiling(job.quarters * Cardinality(Ids)) - 1
               ELSE Ceiling(job.quarters)
  IN  Min({Cardinality(Ids), Max({0, asked})})

\* The three files split the formula: no clause is in .up and in .ign, none is in neither,
\* .smp has them all, the headers count the clauses written, and the number of clauses
\* removed is the one above at every edge of the option: a number is met, a share below
\* one is missed by one clause.  (up.cpp:43-87)
FilesSplit ==
  pc = "done" =>
    /\ files["smp"].clauses = Ids
    /\ \A f \in DOMAIN files : files[f].header = Cardinality(files[f].clauses)
    /\ job.tool = "up" =>
         /\ files["up"].clauses \cap files["ign"].clauses = {}
         /\ files["up"].clauses \cup files["ign"].clauses = Ids
         /\ Cardinality(files["ign"].clauses) = Removed
=============================================================================

---------------------------- MODULE CubeCompiler ----------------------------
(***************************************************************************)
(* The cube generator of capkc/dnf (compiler.hpp, cubes.cpp): the models   *)
(* of the whole formula .smp are cut into cubes, always cutting a cube     *)
(* with the most clauses of .ign it does not satisfy yet, until no cube    *)
(* has any, there are N cubes or the time is up.                           *)
(*                                                                         *)
(* Clauses are sets of literals, subsumption leaves no duplicate.  The     *)
(* solver (CaDiCaL) answers as its interface says: propagation returns     *)
(* some literals that follow from the formula and the assumptions.  The    *)
(* priority queue is the sequence of its entries in order of insertion.    *)
(***************************************************************************)
EXTENDS Integers, Sequences, FiniteSets

CONSTANTS
  Vars,       \* the variables, positive integers
  Problems,   \* pairs of clause sets [smp, ign], ign a part of smp
  Limits      \* values of --n

Literals == Vars \cup {-v : v \in Vars}

ASSUME ProblemAssumption ==
  /\ Vars \subseteq Nat \ {0}
  /\ Problems \subseteq [smp : SUBSET SUBSET Literals, ign : SUBSET SUBSET Literals]
  /\ \A p \in Problems : IsFiniteSet(p.smp) /\ p.ign \subseteq p.smp
  /\ Limits \subseteq Nat

VARIABLES
  problem, limit,   \* the inputs
  cubes,            \* Cubes::mcubes: literals, undecided variables and unknown clauses of .ign
  queue,            \* Compiler::mcubes: cube number and weight
  pc,
  timedOut          \* history: the loop was left for the timeout

vars == <<problem, limit, cubes, queue, pc, timedOut>>

Assignments == {{IF v \in T THEN v ELSE -v : v \in Vars} : T \in SUBSET Vars}
Models == {m \in Assignments : \A c \in problem.smp : c \cap m # {}}
ModelsUnder(L) == {m \in Models : L \subseteq m}

VarOf(l) == IF l < 0 THEN -l ELSE l

\* The solver: what follows from the formula and L, and what propagation may return.
Entailed(L) == {l \in Literals : \A m \in ModelsUnder(L) : l \in m}
Consistent(L) == \A l \in L : -l \notin L
Implicants(L) == {E \cup L : E \in {S \in SUBSET Entailed(L) : Consistent(S)}}

\* insert: literals leave the undecided variables and the clauses of idx the unknown ones.
Insert(cube, L) ==
  [lits |-> cube.lits \cup L,
   vars |-> cube.vars \ {VarOf(l) : l \in L},
   unknown |-> {c \in cube.unknown : c \cap L = {}}]

EmptyCube(p) ==
  [lits |-> {},
   vars |-> {VarOf(l) : l \in UNION p.ign},
   unknown |-> p.ign]

Entry(id, cube) == [id |-> id, weight |-> Cardinality(cube.unknown)]

\* init and new_cube: one cube, with what propagation alone gives.
Init ==
  /\ problem \in Problems
  /\ limit \in Limits
  /\ \E L \in Implicants({}) : cubes = <<Insert(EmptyCube(problem), L)>>
  /\ queue = <<Entry(1, cubes[1])>>
  /\ pc = "compile"
  /\ timedOut = FALSE

-----------------------------------------------------------------------------
(* One iteration of compile. *)

\* Faulty variant: the queue gives the smallest weight first.
IsBottom(k) == \A j \in DOMAIN queue : queue[k].weight <= queue[j].weight
IsTop(k) == \A j \in DOMAIN queue : queue[j].weight <= queue[k].weight

\* The cube of entry k is taken to be cut.
Popped(k) ==
  /\ pc = "compile"
  /\ Len(queue) < limit
  /\ IsTop(k)
  /\ cubes[queue[k].id].unknown # {}

Without(k) == SubSeq(queue, 1, k - 1) \o SubSeq(queue, k + 1, Len(queue))

Occurrences(cube, l) == Cardinality({c \in cube.unknown : l \in c})

\* The heuristic LitCount: the variable of a literal most unknown clauses contain, if
\* any contains one.  Of several the code takes the first.
Decisions(cube) ==
  LET undecided == cube.vars \cup {-v : v \in cube.vars}
  IN  {VarOf(l) : l \in {k \in undecided :
         /\ Occurrences(cube, k) > 0
         /\ \A j \in undecided : Occurrences(cube, j) <= Occurrences(cube, k)}}

\* Whether propagate answers SATISFIABLE for the literals of a cube and a decision.
\* Faulty variant: the assumptions are gone when solve is called after propagation.
SatisfiableAlone(L) == Models # {}
Satisfiable(L) == ModelsUnder(L) # {}

\* The loop goes on, or the clock has passed the timeout.
GoOn ==
  /\ pc' \in {"compile", "done"}
  /\ timedOut' = (pc' = "done")
  /\ UNCHANGED <<problem, limit>>

\* Faulty variants: the copy is made after the cube was extended; the clone is
\* queued with the weight of the cube it was cloned from.
SplitLate(k, P, N) ==
  LET id == queue[k].id
      positive == Insert(cubes[id], P)
      negative == Insert(positive, N)
  IN  /\ cubes' = Append([cubes EXCEPT ![id] = positive], negative)
      /\ queue' = Without(k) \o <<Entry(id, positive), Entry(Len(cubes) + 1, negative)>>
SplitStale(k, P, N) ==
  LET id == queue[k].id
      positive == Insert(cubes[id], P)
      negative == Insert(cubes[id], N)
  IN  /\ cubes' = Append([cubes EXCEPT ![id] = positive], negative)
      /\ queue' = Without(k) \o <<Entry(id, positive),
                                  [id |-> Len(cubes) + 1, weight |-> queue[k].weight]>>

SplitInto(k, P, N) ==
  LET id == queue[k].id
      positive == Insert(cubes[id], P)
      negative == Insert(cubes[id], N)
  IN  /\ cubes' = Append([cubes EXCEPT ![id] = positive], negative)
      /\ queue' = Without(k) \o <<Entry(id, positive), Entry(Len(cubes) + 1, negative)>>

\* Both decisions have a model: the cube is cloned and cut.
Split(k, v) ==
  LET lits == cubes[queue[k].id].lits
  IN  /\ Popped(k)
      /\ v \in Decisions(cubes[queue[k].id])
      /\ Satisfiable(lits \cup {v}) /\ Satisfiable(lits \cup {-v})
      /\ \E P \in Implicants(lits \cup {v}), N \in Implicants(lits \cup {-v}) :
           SplitInto(k, P \ lits, N \ lits)
      /\ GoOn

\* Only the decision l has a model: it is added to the cube.
Extend(k, v) ==
  LET id == queue[k].id
      lits == cubes[id].lits
  IN  /\ Popped(k)
      /\ v \in Decisions(cubes[id])
      /\ \E l \in {v, -v} :
           /\ Satisfiable(lits \cup {l}) /\ ~Satisfiable(lits \cup {-l})
           /\ \E P \in Implicants(lits \cup {l}) :
                /\ cubes' = [cubes EXCEPT ![id] = Insert(@, P)]
                /\ queue' = Append(Without(k), Entry(id, cubes'[id]))
      /\ GoOn

\* An assertion fails: there is no variable to decide, or neither decision has a model.
Abort(k) ==
  LET cube == cubes[queue[k].id]
  IN  /\ Popped(k)
      /\ \/ Decisions(cube) = {}
         \/ \E v \in Decisions(cube) :
              ~Satisfiable(cube.lits \cup {v}) /\ ~Satisfiable(cube.lits \cup {-v})
      /\ pc' = "aborted"
      /\ UNCHANGED <<problem, limit, cubes, queue, timedOut>>

\* The loop ends and the cubes are written.
Stop ==
  /\ pc = "compile"
  /\ \/ Len(queue) >= limit
     \/ \E k \in DOMAIN queue : IsTop(k) /\ cubes[queue[k].id].unknown = {}
  /\ pc' = "done"
  /\ UNCHANGED <<problem, limit, cubes, queue, timedOut>>

Next ==
  \/ Stop
  \/ \E k \in DOMAIN queue :
       \/ Abort(k)
       \/ \E v \in Vars : Split(k, v) \/ Extend(k, v)

Spec == Init /\ [][Next]_vars

-----------------------------------------------------------------------------
(* Properties *)

TypeOK ==
  /\ problem \in Problems
  /\ limit \in Limits
  /\ cubes \in Seq([lits : SUBSET Literals, vars : SUBSET Vars, unknown : SUBSET problem.ign])
  /\ queue \in Seq([id : DOMAIN cubes, weight : Nat])
  /\ pc \in {"compile", "done", "aborted"}
  /\ timedOut \in BOOLEAN

\* At any time every model of .smp satisfies exactly one cube: the sampler, which draws
\* a cube and then an assignment under it, can reach every model and none by two ways.
\* (compiler.hpp:52-90)
OneCubePerModel ==
  \A m \in Models : Cardinality({i \in DOMAIN cubes : cubes[i].lits \subseteq m}) = 1

\* Every cube is queued once with its current weight, and its unknown clauses and
\* undecided variables are those its literals leave, although a cube changes after it was
\* cloned and queued; TypeOK is part of it.  (cubes.cpp:145-165, compiler.hpp:68-90,111-113)
BookkeepingExact ==
  /\ TypeOK
  /\ pc # "aborted" =>
       /\ Len(queue) = Len(cubes)
       /\ \A i \in DOMAIN cubes :
            /\ \E k \in DOMAIN queue : queue[k] = Entry(i, cubes[i])
            /\ cubes[i].unknown = {c \in problem.ign : c \cap cubes[i].lits = {}}
            /\ cubes[i].vars =
                 {VarOf(l) : l \in UNION problem.ign} \ {VarOf(l) : l \in cubes[i].lits}

\* On a satisfiable formula no assertion fails: a cube with an unknown clause always has
\* an undecided variable in one, and one of its decisions has a model.  And when the loop
\* stops below the limit and in time, every cube satisfies every clause of .ign: the cubes
\* are then a disjoint cover on which .up is exact.
\* (compiler.hpp:40-44,52-93, heuristics.hpp:595-601)
Complete ==
  /\ Models # {} => pc # "aborted"
  /\ Len(cubes) <= limit \/ Len(cubes) = 1
  /\ pc = "done" /\ ~timedOut /\ Len(cubes) < limit =>
       \A i \in DOMAIN cubes : \A c \in problem.ign : c \cap cubes[i].lits # {}

\* The generator cuts the models of .smp cell by cell.
MP == INSTANCE ModelPartition
        WITH Wholes <- {{m \in Assignments : \A c \in p.smp : c \cap m # {}} : p \in Problems},
             whole <- Models,
             cells <- {ModelsUnder(cubes[i].lits) : i \in DOMAIN cubes}
ImplementsPartition == MP!CutSpec
=============================================================================

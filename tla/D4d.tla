--------------------------------- MODULE D4d ---------------------------------
(***************************************************************************)
(* d4d, the D4 compiler with a limit on the depth of the circuit           *)
(* (capkc/D4/d4d/compilers/dDnnfCompiler.hh): compile_ and                 *)
(* compileDecisionNode, which call each other.  A call of either is a      *)
(* frame of `calls`.  The SAT solver inside answers by the models of the   *)
(* formula, but which entailed literals it has found when it is asked is   *)
(* free, as long as unit propagation finds nothing more; so is the choice  *)
(* of the variable and of its phase.                                       *)
(*                                                                         *)
(* Nodes are numbered as they are built, after the root, TRUE and FALSE;   *)
(* the file numbers those it prints anew.  Certificates, projected         *)
(* variables and the options but -max-depth and -optCache are left out.    *)
(***************************************************************************)
EXTENDS Integers, Sequences, FiniteSets, SequencesExt

CONSTANTS
  NbVars,
  Tasks      \* a formula (a set of clauses), the depth and whether the cache is used

FormulaVars == 1 .. NbVars
Lits(V) == V \cup {-v : v \in V}

ASSUME TasksAssumption ==
  /\ NbVars \in Nat
  /\ Tasks \subseteq [formula : SUBSET SUBSET Lits(FormulaVars), depth : Nat, cached : BOOLEAN]

VARIABLES
  phase,     \* "start", "compile", "printed"
  task,
  clauses,   \* what the literals known at level 0 leave of the formula
  calls,
  dag,
  cache      \* key of a component -> node

d4dVars == <<phase, task, clauses, calls, dag, cache>>

VarsOf(c) == {v \in FormulaVars : v \in c \/ -v \in c}
Increasing(V) == CHOOSE q \in SetToSeqs(V) : \A i, j \in DOMAIN q : i < j => q[i] < q[j]

Edge(d, L, f) == [dst |-> d, units |-> L, free |-> f]
Node(t, es) == [type |-> t, children |-> es]
TRUENODE == 2
FALSENODE == 3

D4dInit ==
  /\ phase = "start"
  /\ task = [formula |-> {}, depth |-> 0, cached |-> FALSE]
  /\ clauses = {}
  /\ calls = <<>>
  /\ dag = <<Node("o", <<>>), Node("t", <<>>), Node("f", <<>>)>>
  /\ cache = <<>>

-----------------------------------------------------------------------------
(* The solver and the residual formula *)

\* The sets that give each of the variables V one sign.
Over(V) == {T \cup {-v : v \in V \ T} : T \in SUBSET V}
ModelsOf(F, A) == {m \in Over(FormulaVars) : A \subseteq m /\ \A c \in F : c \cap m # {}}

\* What the literals A leave of F.
Residual(F, A) == {{l \in c : -l \notin A} : c \in {d \in F : d \cap A = {}}}
Propagated(F, A) == \A c \in Residual(F, A) : Cardinality(c) > 1

\* collectUnit: the literals of V the solver may have assigned under the assumptions A.
UnitSets(F, A, V) ==
  {U \in SUBSET {l \in Lits(V) : \A m \in ModelsOf(F, A) : l \in m} :
     A \cap Lits(V) \subseteq U /\ Propagated(F, A \cup U)}

\* computeConnectedComponent: a variable in no clause is alone, and not one of them.
Connected(F, C) == \A c \in F : VarsOf(c) \cap C \in {{}, VarsOf(c)}
Components(F, V) ==
  LET present == V \cap UNION {VarsOf(c) : c \in F}
  IN  {C \in (SUBSET present) \ {{}} :
         Connected(F, C) /\ \A D \in (SUBSET C) \ {{}, C} : ~Connected(F, D)}

\* The component of the least variable comes first.
LowestFirst(P) == CHOOSE q \in SetToSeqs(P) : \A i, j \in DOMAIN q : i < j =>
                    \E v \in q[i] : \A w \in q[j] : v < w

\* searchInCache: a component is known by its variables and by what is left of those of
\* its clauses that have lost a literal (cacheStore NT).
\* Faulty variant: by its variables alone.
KeyOfVars(C, A) == <<C, {}>>
Key(C, A) ==
  LET touched == {c \in clauses : \E l \in c : -l \in A}
  IN  <<C, {c \in Residual(touched, A) : VarsOf(c) \subseteq C}>>

-----------------------------------------------------------------------------
(* compile_ *)

Active == calls[Len(calls)]
Caller == Front(calls)

\* Replaces the frame at the end of the stack fs, which the callee above it has left.
WithKid(fs, k) == [fs EXCEPT ![Len(fs)].kids = Append(@, k)]
WithEdge(fs, e) == [fs EXCEPT ![Len(fs)].edges = Append(@, e)]

\* The call on the variables V once the units U are collected: at depth 0 the components
\* are given up and their variables are free.
CallOf(F, V, path, U, depth) ==
  LET parts == Components(Residual(F, path \cup U), V)
      lone == {v \in V : v \notin UNION parts /\ v \notin VarsOf(U)}
      cut == depth = 0
  IN  [of |-> "compile_", path |-> path \cup U, units |-> U, depth |-> depth, kids |-> <<>>,
       free |-> Increasing(lone) \o (IF cut THEN Increasing(UNION parts) ELSE <<>>),
       todo |-> IF cut THEN <<>>
                ELSE LowestFirst(parts)]

\* The constructor and compile, on a formula that has a model: U0 are the literals known
\* when the clauses are copied.
Compile(t) ==
  /\ phase = "start"
  /\ ModelsOf(t.formula, {}) # {}
  /\ \E U \in UnitSets(t.formula, {}, FormulaVars) :
       /\ \E U0 \in UnitSets(t.formula, {}, FormulaVars) :
            U0 \subseteq U /\ clauses' = Residual(t.formula, U0)
       /\ calls' = <<CallOf(t.formula, FormulaVars, {}, U, t.depth)>>
  /\ phase' = "compile"
  /\ task' = t
  /\ UNCHANGED <<dag, cache>>

\* A formula without a model: the root keeps the literals propagated before the conflict.
Refute(t) ==
  /\ phase = "start"
  /\ ModelsOf(t.formula, {}) = {}
  /\ \E m \in Over(FormulaVars) : \E L \in SUBSET m :
       dag' = [dag EXCEPT ![1].children = <<Edge(FALSENODE, L, <<>>)>>]
  /\ phase' = "printed"
  /\ task' = t
  /\ UNCHANGED <<clauses, calls, cache>>

\* The next component is in the cache, whatever depth it was compiled with.
Reuse ==
  /\ phase = "compile"
  /\ Active.of = "compile_"
  /\ Active.todo # <<>>
  /\ task.cached
  /\ LET k == Key(Head(Active.todo), Active.path)
     IN  /\ k \in DOMAIN cache
         /\ calls' = [WithKid(calls, cache[k]) EXCEPT ![Len(calls)].todo = Tail(@)]
  /\ UNCHANGED <<phase, task, clauses, dag, cache>>

Missed ==
  /\ phase = "compile"
  /\ Active.of = "compile_"
  /\ Active.todo # <<>>
  /\ task.cached => Key(Head(Active.todo), Active.path) \notin DOMAIN cache

\* All components are compiled: the result is TRUE, the only component or their conjunction.
Leave ==
  /\ phase = "compile"
  /\ Active.of = "compile_"
  /\ Active.todo = <<>>
  /\ LET kids == Active.kids
         result == CASE kids = <<>> -> TRUENODE
                     [] Len(kids) = 1 -> kids[1]
                     [] OTHER -> Len(dag) + 1
         grown == IF Len(kids) > 1
                  THEN Append(dag, Node("a", [k \in DOMAIN kids |-> Edge(kids[k], {}, <<>>)]))
                  ELSE dag
         edge == Edge(result, Active.units, Active.free)
     IN  IF Caller = <<>>
         THEN /\ dag' = [grown EXCEPT ![1].children = <<edge>>]
              /\ calls' = <<>>
              /\ phase' = "printed"
         ELSE /\ dag' = grown
              /\ calls' = WithEdge(Caller, edge)
              /\ UNCHANGED phase
  /\ UNCHANGED <<task, clauses, cache>>

-----------------------------------------------------------------------------
(* compileDecisionNode *)

Remember(k, n) ==
  IF task.cached THEN [x \in {k} \cup DOMAIN cache |-> IF x = k THEN n ELSE cache[x]] ELSE cache

\* A variable the solver has not assigned is decided; the branches get a smaller depth.
Decide(l) ==
  /\ Missed
  /\ LET C == Head(Active.todo)
     IN  /\ l \in Lits(C)
         /\ calls' = Append([calls EXCEPT ![Len(calls)].todo = Tail(@)],
                            [of |-> "compileDecisionNode", vars |-> C, lit |-> l,
                             path |-> Active.path, depth |-> Active.depth - 1,
                             key |-> Key(C, Active.path), edges |-> <<>>])
  /\ UNCHANGED <<phase, task, clauses, dag, cache>>

\* The solver has learnt all of its variables meanwhile (createTrueNode).
KnownMeanwhile ==
  /\ Missed
  /\ LET C == Head(Active.todo)
         k == Key(C, Active.path)
     IN  \E U \in UnitSets(clauses, Active.path, C) :
           /\ VarsOf(U) = C
           /\ dag' = Append(dag, Node("u", <<Edge(TRUENODE, U, <<>>)>>))
           /\ cache' = Remember(k, Len(dag'))
           /\ calls' = [WithKid(calls, Len(dag')) EXCEPT ![Len(calls)].todo = Tail(@)]
  /\ UNCHANGED <<phase, task, clauses>>

\* compile_ is called under one sign of the literal, then under the other; it returns at
\* once when there is no model (manageUnsat).
Assume ==
  /\ phase = "compile"
  /\ Active.of = "compileDecisionNode"
  /\ Len(Active.edges) < 2
  /\ LET l == IF Active.edges = <<>> THEN Active.lit ELSE -Active.lit
         A == Active.path \cup {l}
     IN  IF ModelsOf(clauses, A) = {}
         THEN calls' = WithEdge(calls, Edge(FALSENODE, {l}, <<>>))
         ELSE \E U \in UnitSets(clauses, A, Active.vars) :
                calls' = Append(calls, CallOf(clauses, Active.vars, Active.path, U, Active.depth))
  /\ UNCHANGED <<phase, task, clauses, dag, cache>>

\* Both branches are there: the node goes to the caller and into the cache.
Build ==
  /\ phase = "compile"
  /\ Active.of = "compileDecisionNode"
  /\ Len(Active.edges) = 2
  /\ dag' = Append(dag, Node("o", Active.edges))
  /\ cache' = Remember(Active.key, Len(dag'))
  /\ calls' = WithKid(Caller, Len(dag'))
  /\ UNCHANGED <<phase, task, clauses>>

D4dNext ==
  \/ \E t \in Tasks : Compile(t) \/ Refute(t)
  \/ Reuse \/ Leave \/ \E l \in Lits(FormulaVars) : Decide(l)
  \/ KnownMeanwhile \/ Assume \/ Build
=============================================================================

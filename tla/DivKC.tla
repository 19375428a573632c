-------------------------------- MODULE DivKC --------------------------------
(***************************************************************************)
(* How a formula is compiled by divkc: the splitter chooses the variables  *)
(* to show, the projection tool writes two formulas, D4 compiles both, and *)
(* counting sums over the paths of the first circuit.  Two scripts do it,  *)
(* compile_formula.sh and docker_compile_formula.sh; the second one runs   *)
(* D4 in the wrapper, as capkc's docker_compile_formula.sh does with its   *)
(* own copy.  The projection tool may also be called by hand.              *)
(*                                                                         *)
(* The splitter's class CNF is a copy of the projection's: it propagates   *)
(* units by the same actions (divkc/splitter/src/CNF.cpp).                 *)
(***************************************************************************)
EXTENDS Projection, Wrapper, FiniteSetsExt

CONSTANT Jobs    \* a formula, the script called on it, the parts asked of the splitter

Scripts == {"projection", "compile_formula", "docker_compile_formula", "capkc"}

ASSUME JobsAssumption == Jobs \subseteq [script : Scripts, input : Inputs, nb : Nat \ {0}]

VARIABLES
  job,
  stage,    \* the command of the script that runs
  part,     \* PaToH's partvec
  pnnf,     \* the circuit of <F>.p
  unnf      \* the circuit of <F>.pup

scriptVars == <<job, stage, part, pnnf, unnf>>
divkcVars == <<vars, wrapperVars, scriptVars>>

DivKCInit ==
  /\ job \in Jobs
  /\ given = job.input
  /\ WrapperInit
  /\ part = [w \in Vars |-> 0]
  /\ pnnf = "none" /\ unnf = "none"
  /\ CASE job.script = "capkc" -> stage = "compile unnf"
       [] job.script = "projection" -> stage = "project"
       [] OTHER -> stage = "split"
  /\ Init

-----------------------------------------------------------------------------
(* splitter *)

\* simplify, which removes no tautologies.
SplitterPropagates ==
  /\ stage = "split"
  /\ \/ pc = "tautologies" /\ pc' = "collect"
        /\ UNCHANGED <<storeVars, units, u, frgt, dign, v, pairs, ina, up, pup, given>>
     \/ CollectUnits \/ \E l \in u : ApplyUnit(l)
  /\ UNCHANGED <<wrapperVars, scriptVars>>

\* The clauses whose variables are in several parts, and the variables of these clauses.
Parts(p, c) == {p[w] : w \in VarsOf(c)}
CutBy(p) == {id \in ActiveIds : Cardinality(Parts(p, clauses[id])) > 1}
\* Faulty variant: one variable of each of these clauses is shown.
ShowOne(p) == {CHOOSE w \in VarsOf(clauses[id]) : TRUE : id \in CutBy(p)}
ShownBy(p) == UNION {VarsOf(clauses[id]) : id \in CutBy(p)}

\* The order in which the class prints literals: by variable, the positive one first.
PrintedBefore(a, b) == LET d == a * a - b * b IN d < 0 \/ (d = 0 /\ a > b)
Printed(L) == {s \in Orders(L) : \A j, k \in DOMAIN s : j < k => PrintedBefore(s[j], s[k])}

\* What the splitter writes: the active clauses, then the units.
\* Faulty variant: the units are left out.
LinesOfClauses(order, us) == [k \in DOMAIN order |-> clauses[order[k]]]
Lines(order, us) ==
  [k \in DOMAIN order |-> clauses[order[k]]] \o [k \in DOMAIN us |-> {us[k]}]

\* The projection tool reads the file f.
Read(f) ==
  /\ given' = f
  /\ clauses' = f.clauses
  /\ active' = [id \in DOMAIN f.clauses |-> TRUE]
  /\ idx' = [l \in Literals |-> {id \in DOMAIN f.clauses : l \in f.clauses[id]}]
  /\ available' = <<>>
  /\ nbActive' = Len(f.clauses)
  /\ units' = {} /\ u' = {}
  /\ pc' = "tautologies"

\* PaToH may give any partition.  The native script reads what the splitter writes to
\* <F>.proj.  The other one overwrites it with F: the splitter prints nothing.
Split ==
  /\ stage = "split"
  /\ pc = "copy"
  /\ stage' = "project"
  /\ \E p \in [Vars -> 0 .. job.nb - 1], order \in Ascending(ActiveIds), us \in Printed(units) :
       /\ part' = p
       /\ Read(IF job.script = "compile_formula"
               THEN [clauses |-> Lines(order, us), prj |-> ShownBy(p)]
               ELSE job.input)
  /\ UNCHANGED <<wrapperVars, job, pnnf, unnf, frgt, dign, v, pairs, ina, up, pup>>

Project ==
  /\ stage = "project"
  /\ Next
  /\ UNCHANGED <<wrapperVars, scriptVars>>

-----------------------------------------------------------------------------
(* D4, the circuits *)

StartD4 ==
  /\ stage = "project" /\ pc = "done"
  /\ job.script # "projection"
  /\ stage' = "compile pnnf"
  /\ UNCHANGED <<vars, wrapperVars, job, part, pnnf, unnf>>

\* Called by the native script: D4 writes the circuit or fails.
CompileNatively ==
  /\ job.script = "compile_formula"
  /\ \E result \in {"none", "complete"} :
       \/ /\ stage = "compile pnnf"
          /\ pnnf' = result /\ stage' = "compile unnf"
          /\ UNCHANGED unnf
       \/ /\ stage = "compile unnf"
          /\ unnf' = result /\ stage' = "over"
          /\ UNCHANGED pnnf
  /\ UNCHANGED <<vars, wrapperVars, job, part>>

CallWrapper ==
  /\ job.script \in {"docker_compile_formula", "capkc"}
  /\ stage \in {"compile pnnf", "compile unnf"}
  /\ wpc = "idle"
  /\ \E s \in Setups : s.strict = (job.script = "capkc") /\ StartWrapper(s)
  /\ UNCHANGED <<vars, scriptVars>>

Wrapped ==
  /\ WrapperStep
  /\ UNCHANGED <<vars, scriptVars>>

\* The script goes on whatever the wrapper returns.
WrapperReturns ==
  /\ wpc = "over"
  /\ stage \in {"compile pnnf", "compile unnf"}
  /\ IF stage = "compile pnnf"
     THEN pnnf' = file /\ stage' = "compile unnf" /\ wpc' = "idle" /\ UNCHANGED unnf
     ELSE unnf' = file /\ stage' = "over" /\ UNCHANGED <<pnnf, wpc>>
  /\ UNCHANGED <<vars, setup, child, fate, file, big, late, seen, due, report, job, part>>

DivKCNext ==
  \/ SplitterPropagates \/ Split \/ Project \/ StartD4
  \/ CompileNatively \/ CallWrapper \/ Wrapped \/ WrapperReturns

\* The wrapper's process is scheduled, and time passes.
DivKCSpec ==
  /\ DivKCInit /\ [][DivKCNext]_divkcVars
  /\ WF_divkcVars(LoopStep /\ UNCHANGED <<vars, scriptVars>>)
  /\ WF_divkcVars(TimePasses /\ UNCHANGED <<vars, scriptVars>>)

-----------------------------------------------------------------------------
(* Properties *)

FileTypeOK ==
  /\ job \in Jobs
  /\ stage \in {"split", "project", "compile pnnf", "compile unnf", "over"}
  /\ part \in [Vars -> 0 .. job.nb - 1]
  /\ {pnnf, unnf} \subseteq {"none", "partial", "complete"}

\* What exact counting adds up: for every path of the projected circuit, here every model
\* of <F>.p over the variables <F>.proj.log shows, the models of the other one under it.
ExactCount ==
  MapThenSumSet(LAMBDA path : Cardinality({m \in Models(pup.clauses) : path \subseteq m}),
                Kept(Models(PClauses)))

\* Once both circuits are there, the sum over the paths is the number of models of the
\* formula the script was called with: through the splitter's propagation and partition,
\* the projection stopped anywhere, and the container's script, which loses the splitter's
\* choice.  An unsatisfiable formula gives a circuit without paths, and the sum zero.
\* (compile_formula.sh:3-7, docker_compile_formula.sh:3-8, pdac.cpp:345-370)
CountExact ==
  LET F == {job.input.clauses[id] : id \in DOMAIN job.input.clauses}
  IN  /\ FileTypeOK
      /\ stage = "over" /\ pnnf = "complete" /\ unnf = "complete"
         => ExactCount = Cardinality(Models(F))

\* What the splitter is for: once the shown variables have values, the upper bound falls
\* apart into the parts, which D4 can then compile one by one.  Exchanging the part k of
\* two models that agree on the projection gives a model.  (splitter.cpp:157-175)
PartsIndependent ==
  stage \in {"project", "over"} /\ pc = "done" /\ job.script = "compile_formula" =>
    LET M == Models(pup.clauses)
        agree(m, n) == \A l \in m \ n : VarsOf({l}) \cap TrueProjection = {}
        mixed(m, n, k) == {l \in m : part[IF l > 0 THEN l ELSE -l] = k} \cup
                          {l \in n : part[IF l > 0 THEN l ELSE -l] # k}
    IN  \A m, n \in M : agree(m, n) => \A k \in 0 .. job.nb - 1 : mixed(m, n, k) \in M
=============================================================================

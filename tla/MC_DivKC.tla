------------------------------ MODULE MC_DivKC ------------------------------
(* Instances of DivKC for TLC: the projection tool on the inputs of            *)
(* MC_Projection; the native script on the larger formulas, with every         *)
(* partition into two parts; the container's script and capkc's, with every    *)
(* course of the wrapper, on a few.                                            *)
EXTENDS DivKC, MC_Projection

Job(script, input, nb) == [script |-> script, input |-> input, nb |-> nb]
Formula(F, S) == [clauses |-> F, prj |-> S]

SplitFormulas == LargeFormulas \cup
  {<<{1, 2}, {3, 4}>>, <<{1, -2}, {2, 3}, {-3, 4}>>, <<{1}, {-1, 2, 3}, {3, -4}>>,
   <<{1, 2, 3, 4}>>, <<{1, -1}, {2, -3}, {-2, 4}>>, <<{1}, {-1}>>, <<{}>>}

SmallJobs ==
  {Job("projection", input, 1) : input \in SmallInputs}
  \cup {Job("compile_formula", Formula(F, {}), 2) : F \in SplitFormulas}
  \cup {Job("docker_compile_formula", Formula(F, S), 1) :
          F \in {<<{1, 2}, {-2, 3}>>, <<{1, 2}, {-1, 3}, {-3, 4}, {-4, 1}>>}, S \in {{}, {2, 4}}}
  \cup {Job("capkc", Formula(<<{1, 2}>>, {}), 1)}

ScriptInputs == SmallInputs \cup {j.input : j \in SmallJobs}
=============================================================================

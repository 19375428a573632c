# Verification of CapKC and DivKC in TLA+

This directory holds TLA+ models of the two tool chains of the repository, the TLC
configurations that check them on small instances and the theorems TLAPS proves about
them. Paths are relative to the repository's root (`src/` in `PROJECT.json`). Every
definition that stands for code has an entry in the `map` of `PROJECT.json`, with its lines.

## The system

Both chains turn a CNF formula F into something from which models can be counted and drawn
at random although F itself is too hard to compile.

* **CapKC** orders the clauses of F and searches for the longest prefix that D4 compiles
  within a time and memory limit. The prefix (`.up`) is an upper bound: every model of F is
  a model of it. The rest of the clauses is `.ign`, the whole is `.smp`. A set of disjoint
  cubes that covers the models of `.smp` tightens the bound. Counting and sampling draw models
  of the bound under the cubes and reject those that F does not have. A second way to a bound
  is d4d, a D4 that compiles all of F but only down to a given depth.
* **DivKC** projects F onto some of its variables (`.p`), leaves out of F what the
  projection implies (`.pup`), compiles both, and combines paths of the first with models of
  the second.

### Components

| component | source | state it keeps | operations |
|---|---|---|---|
| n-ary search | `capkc/capkc/src/capkc.cpp` | bracket `low`, `high`, the result kept, the candidate files | `test`, `run` |
| D4 runner | `capkc/capkc/src/util.cpp` | children, pipes, statuses, outputs | `fork_one`, `run_many`, `read_into`, `get_mem_usage` |
| clause store | `capkc/capkc/src/cnf.cpp`, `cnf.hpp` | clauses, active flags, index, free slots, counter, units | `simplify`, `subsumption`, `add_clause`, `rm_clause`, `set_active`, the flip queries |
| orderings, graph | `ordering.cpp`, `graph.cpp` | communities per level | `compute_clause_ordering` and others |
| `up`, `smp` | `up.cpp`, `smp.cpp` | none | split a formula at a given size |
| cube generator | `capkc/dnf/src` | cubes, a priority queue, the solver | `compile`, `propagate`, `clone`, `insert`, heuristics |
| circuits | `nnf.cpp` (both chains) | node ordering, counts, assumptions | `compute_ordering`, `annotate_mc/pc`, `get_solution`, `get_path` |
| generators, samplers | `assignment_generator.hpp`, `sampler.cpp` | counters, populations, chains | rejection, splitting, Metropolis-Hastings |
| approximate counter | `appmc.cpp` | two counters, `done`, the random streams | `setup_runner` |
| splitter | `divkc/splitter/src` | a partition (PaToH), union-find | the shown variables |
| projection | `divkc/projection/src` | a clause store, the variables to forget and forgotten | `simplify`, `project`, `forget`, `inplace_upper_bound` |
| DivKC counters and samplers | `divkc/cppddnnf/src` | paths, reservoirs, running means | `appmc`, `exact_mc`, `ksampler`, `rsampler`, `rhsampler` |
| wrapper | `*/D4/wrapper/src/main.cpp` | one child | fork, poll, kill, report |
| D4, d4d | `*/D4` | call stack, nodes, cache of components | `compile_`, `compileDecisionNode`; d4d limits the depth of the circuit |

The parts interact through files (`compile_formula.sh` and its container variant), through
child processes and pipes (`run_many`, the wrapper), and through shared memory between OpenMP
threads (the counters, the samplers). CaDiCaL, NetworKit, PaToH, D4 and googletest are
external.

### What is hard here

* Processes: D4 children that end, crash or outgrow a limit at any moment relative to the
  polling loop; system calls that fail.
* Threads: flags tested outside a critical section, counters read and written by a team.
* A mutable store: clauses shrink and slots are reused under an index and a counter.
* Search and stopping rules: progress of the bracket, the precision test, the queue's top.
* Arithmetic on ids: division and remainder by counts that depend on assumptions.
* Programs that may stop after any step (timeouts) and must still write a correct result.

The `hazards` of `PROJECT.json` list these places with their lines and with the properties
that would catch them going wrong.

## The modules

The type invariant of a module is a conjunct of its first safety property, which would make no
sense without it; only the search checks it as a property of its own, because a theorem names it.

### Search: `RunMany`, `CapKC`, `ProbeSearch`, `CapKC_proofs`

`RunMany` is `run_many`. A child is named by the index of its candidate. `proc` is the
operating system's view of it (forked, running, beyond its memory, ended, reaped), `running`,
`status`, `out` are the vectors of the code. The polling thread interleaves with steps of the
children (`D4Grows`, `D4Counts`, `D4Dies`, a failing `execvp`) and with `Tick`, after which
the time limit has passed. `pipe` and `fork` fail at most `MaxFaults` times; a failed fork
leaves the thread in the final `read` for ever (`Hung`), a failed pipe makes it wait for and
kill its own process group (`StealExit`, `KillGroup`).

`CapKC` adds `test` and `run`: `Launch` (one round's candidates, their files by overlapping
`set_active` calls), `Scan` (the results from the largest candidate down), `Finish`. `hist`
is a history of all measurements. The clauses are numbered by their position in the ordering.

`ProbeSearch` is the abstract n-ary search: a step measures points strictly inside the
bracket and moves its ends to measured points. `CapKC` implements it under the mapping in
`PS`, checked by TLC and proved.

### Orderings: `Ordering`, `Up`, `Up_proofs`

`CapKC` numbers the clauses by their position in the ordering. `Ordering` is how the ordering
comes about: ascending by size, random, or by the communities of the graph of the variables,
which is coarsened by matchings until no edge is left; a clause is collected at the first level
at which it lies in one community. NetworKit may return any partition and any matching.
`Up` are the tools `up`, which cuts the ordering at a number or a share of the clauses and
writes three files by switching the clauses of one store, and `smp`.

### Clause store: `CnfStore`, `CnfStore_proofs`, `Simplify`, `SimplifySampler_proofs`

`CnfStore` is the state both `CNF` classes share: a clause is a set of non-zero integers,
slots count from 1, `idx` maps literals to slots, `available` is the stack of free slots,
`nbActive` is the counter modulo `2^Width`. capkc's index is a hash set, so a loop over it may
visit slots in any order (`Orders`); divkc's is a sorted set (`Ascending`).

`Simplify` runs `simplify`, then `subsumption`, then any sequence of `set_active` calls.
Steps are loops of the code, split where one iteration changes what the next one sees. The
first literal of an empty clause, which `subsumption` reads out of range, may be any literal.

### Cubes: `CubeCompiler`, `ModelPartition`, `CubeCounter_proofs`

One step is one iteration of `Compiler::compile`. CaDiCaL is external: propagation may return
any consistent set of entailed literals, `solve` answers by the models. Both decisions have a
model (`Split`), one has (`Extend`), or an assertion fails (`Abort`). `ModelPartition` says
what the generator promises, a set of models cut cell by cell; `CubeCompiler` implements it.

### Counter: `AppMC`, `CubeCounter_proofs`

The threads of `setup_runner`: take a stream, test `done`, draw, tally in the critical
section. Whether a sample satisfies F is free. The confidence interval is a function of the
two counters and appears as the set `Precise` of the pairs for which it is narrow enough.

### Samplers: `Samples`, `Team`, `MonteCarlo`, `Splitting`, `Metropolis`, `Sampler`, `SimplifySampler_proofs`

`Samples` holds what the three methods share: the formula in a store that is never changed, the
options and files (`job`), the samples printed, and the queries `nb_flip_unsatisfied`,
`nb_unsat_flip`, `unsat_clause_ids_flip`. `Team` is the parallel region both `MonteCarlo` and
`SplittingSampler` collect assignments in: a count tested twice without a lock and once with
it. `MonteCarlo` prints what the team collects, `Splitting` filters, clones and mutates it,
`Metropolis` walks a single chain through its phases; `Sampler` is `setup_runner`. Draws,
coins, acceptances and restarts are free choices. The mutation loop is parallel and its
iterations share the vector `vars`: with more than one thread a sweep may visit any variables,
any number of times. The threshold read out of range (`keep >= size`) may be any number.

### Projection and pipelines: `Projection`, `Wrapper`, `DivKC`, `DivKC_proofs`

`simplify` of divkc, the copy put aside, `forget` with one resolvent per step in the order
of the index, the stopping rule (three times the clauses, or the time, which may be up
whenever it is tested), and both files. An empty resolvent is a null dereference and leads to
`crashed`. `inplace_upper_bound` removes slots in use or not, so the header it leaves wraps.
`Projected` is what `operator<<` prints of the clauses and units, `PClauses` adds the unit clauses
that follow `c forgotten` and fix every forgotten variable to true: together they are `<F>.p`, as D4
reads it.

`Wrapper` is the process that runs D4 under limits, in both copies of the repository: it forks,
executes, and looks at memory, end and clock in turn, while the child runs, grows, writes its
circuit and ends between any two looks. `DivKC` are the scripts: the splitter, which propagates
with the projection's code and shows the variables of the clauses that a partition cuts, the
projection, D4 on both files, called directly (`compile_formula.sh`) or in the wrapper
(`docker_compile_formula.sh`; capkc's script with its own copy of the wrapper). Scripts go on
whatever a command returns. The projection tool may also be started by hand, which is how the
sets of shown variables that no splitter chooses come in.

### Circuits: `D4d`, `Annf`, `DepthBound`, `DepthBound_proofs`

`D4d` is the compiler with its limit on the depth: `compile_` splits what is left of the formula
into components, `compileDecisionNode` looks a component up in the cache, or decides a variable
and compiles both branches one level deeper; at depth 0 the components are given up and their
variables become free. The two call each other, so `calls` is the call stack and `dag` the nodes
built. The solver knows the models; which entailed literals it has already found is free as long
as unit propagation is done, and so are the variable and the phase. Keys of the cache are as in
the code: the variables, and what is left of the clauses that have lost a literal.

`Annf` reads a circuit: `compute_ordering` with its explicit stack, one annotation per cube (in any order, the loop
is parallel), then every id from 1 to the total is drawn once and taken down the circuit.
`out` records the models, so that what the documentation says about the whole mapping can be
stated. Circuits are those D4 prints: only edges out of Or and Unary nodes carry literals.

`DepthBound` composes both: `Annf` reads what `D4d` has printed, or one of the circuits of the
instance.

### Samplers and counters over paths: `PathSet`, `Ksampler`, `Rsampler`, `Rhsampler`, `PathCounters`, `PathTools`, `PathTools_proofs`

The circuit of the projection is reduced to its paths, numbered as `Annf` shows `get_path` does,
and the circuit of the upper bound to the number of its solutions under each of them, which may
be 0 (`job.counts`). `PathSet` has the parallel loops (`todo` the iterations nobody has
begun, `flight` what those begun hold), the choice of a path and an id from one number, and the
lines printed. `Ksampler` is `ksampler` with its exact and its heuristic method, `Rsampler` the
reservoir of paths, `Rhsampler` the sequential reservoir of solutions with its random skips and,
after 1000 visited paths (`Warmup`), its jumps over paths. `PathCounters` has `appmc` over random
paths (a team with streams, a flag tested outside the critical section, a mean printed at every
path or when it is precise), `lmc` (the least of several means) and `pc`; exact counting is
`ExactCount` of `DivKC`. `PathTools` runs one of the tools. The
repository's builds keep assertions, so a boost distribution over no number is a crash, as is an
exception in a parallel region; a division by zero in `rhsampler` ends it the same way.

## What the runs show

| run | instance | shows |
|---|---|---|
| `search` | sizes 0-7, 0-3 threads, degenerate bounds included, one failing call | bracket measured, right files, all children reaped, final split, progress, termination, implements `ProbeSearch` |
| `search_done` | the same | *violation*: a D4 that crashed counts as a success |
| `simplify` | every formula of up to 3 clauses over 2 variables, 7 over 3 | models kept, index, slots and header exact, propagation and subsumption complete |
| `cubes` | 70 formulas over 3 variables, every `.ign`, limits 0, 2, 4 | one cube per model, bookkeeping, no abort, complete cover, implements `ModelPartition` |
| `appmc` | 3 threads, maxima 0-4, minima 0-3 | distinct streams, bounded overshoot, truthful exit code, termination |
| `up` | 13 formulas over 5 variables, three orderings, every partition and matching, numbers and shares from below 0 to beyond the size | no clause lost or doubled in the order, order by level and size, three files that split the formula where asked |
| `divkc` | projection by hand on 1880 inputs over 4 variables with every choice of shown variables; the scripts on formulas with every partition and every course of the wrapper | the projection is exact, also of an unsatisfiable F, the two files together are F, no crash on satisfiable F, store consistent; the parts are independent, counting over both circuits gives the models of F, the status of the wrapper is true, the wrapper ends |
| `annf` | 6 circuits, 6 lists of cubes, models and paths; and 8 formulas over 4 variables through d4d, depths 0-3, with and without cache | bottom-up order, exact counts, ids in bijection with models; d4d's circuit is an upper bound, exact if the depth is no limit |
| `sampler` | 3 variables, teams of 1 to 3, 0 to 2 samples, populations of 1 to 3, burn-in and descent budgets 0 to 2 | incremental counts never drift, only models printed and exactly N counted, tries accounted for, chains burnt in, rejection terminates |
| `sampler_printed` | the same | *violation*: a random walk that starts on a model does not print it |
| `paths` | circuits of 0 to 4 paths with 0 to 3 solutions each, 0 to 3 samples, buffers 0 to 3, 1 to 3 threads, a warm-up of 2 paths | counts, reservoirs and means exact in every interleaving, only solutions printed and as many as asked for, crashes only where nothing was counted, termination |

Why the bounds are enough. The search needs brackets with fewer and with more points than
threads and at least two rounds after the first (size 7 with 3 threads), and batches of three
children for a success between failures. The store needs a slot removed, reused and removed
again, chains of two units and duplicate clauses: three clauses give all of them. The cube
generator needs a cube cloned twice and a cube that propagation leaves unsatisfiable: four
cubes over three variables. The counter needs two threads holding a sample when a third one
stops. The samplers need formulas whose bound lies several flips away from a model, and two
threads that hold a model when the last sample is pushed. Projection needs resolvents that reuse slots, are tautologies, are subsumed, and a
formula that grows beyond the stopping rule's bound: four variables and six clauses. Circuits
need sharing, a conjunction of three (two divisions), two free variables on an edge and a
part without models. d4d needs two components under a decision, one of which comes back from the
cache at another depth, and the same variables with different residual clauses: four variables;
depth 3 is no limit for four. The orderings need three levels of communities, empty and unit clauses and
clauses without a community below the last level; shares are taken in quarters. The samplers over paths need paths without solutions before, between and
after others, more and fewer paths than the buffer holds, a reservoir longer and shorter than
the solutions there are, and enough visits for a jump over several paths and over none.

Bounds that are not in the code: `MaxFaults` (system calls that fail), `Width` (bits of a
`size_t`, small so that wrapping is reachable and large enough for all counts of the
instance), `MaxSkip` (solutions skipped at random by `rhsampler`) and `MaxVisits` (the paths it
visits, which it may visit again and again once it jumps); `Warmup` is 1000 in the code. All other loops are bounded by the code itself.

In `DivKC` a wrapper has no bound: its loop is finite but for the limits, which are flags.

`CHECK_DEADLOCK FALSE` everywhere: every program modelled here ends, or hangs as described.

### Fairness

`search` assumes weak fairness of the program's only thread and of time; nothing of D4. Its
termination is conditional on at least one thread (`--n 0` loops) and ends also in the hang or
the suicide that failed system calls cause. `appmc` assumes that every thread of the team runs
and enters critical sections, which OpenMP's runtime gives; the outcome of samples is free. `sampler` assumes that the threads of the
rejection sampler run, and that some thread draws a model if the threads get to draw again and
again while the bound holds one (strong fairness of `DrawModel`): draws are independent and each
model has a positive probability. The other methods need not terminate: a population may
stay on a plateau. `paths` assumes that the threads of `sampler`, `rsampler`, `appmc` and `lmc` go
on while they can; nothing is claimed of the end of `rhsampler`. `divkc` assumes that the wrapper's
process is scheduled and that time passes, and nothing of D4, which may never end by itself.
The other runs state safety only.

### Findings

* `search_done`: `run_many` sets `Done` for every child it did not kill (`util.cpp:350-355`).
* `sampler_printed`: `assignment_generator.hpp:806-811` counts without printing.

Met while modelling and not given a run of their own:

* `appmc` of capkc may use up to one sample per thread more than `--nb`, "the maximum number of
  samples to use" (`Overshoot` states the exact bound), and may print several estimates without
  `--verbose`. `appmc` of divkc prints none for `--nb 1`.
* The threads of a mutation sweep shuffle one vector at once (`assignment_generator.hpp:495,550`);
  with blocks an assertion may fail. `CountsExact` says that nothing else makes it fail.
* `mutate_cube` finds moves and makes none, so that `--splitting-block-size` above 1 never
  changes the population; the probabilities of a Metropolis move use the sampling phase's
  `random_walk_probability` in every phase (`assignment_generator.hpp:838-848`).
* In `rhsampler` a jump may use up `isol` and draw the id 0, and when the mean number of solutions
  lies between one and two it may be a jump over no path, which visits the same path and takes the
  same solutions again (`rhsampler.cpp:127-138`): the properties of `paths` speak of it only before
  it jumps, which needs 1000 paths. `rhsampler --nb 0` writes out of range (`rhsampler.cpp:158-160`).
* `sampler` and `rsampler` abort in an assertion if no path they count has a solution.
* A wrapper whose `execv` failed says `done`, as does divkc's copy for a command that returned an
  error; `mem` and `timeout` may be said of a D4 that had just finished (`WrapperSound`). A circuit
  cut short by a kill is read by the next tool like a complete one.
* `docker_compile_formula.sh` of divkc replaces the splitter's variables by those of the formula;
  counts stay exact (`CountExact`), only what the splitter is for is lost.
* `forget` drops the positive one of two contradicting units and never looks at the other
  (`divkc/projection/src/CNF.cpp:533`). The contradiction is not lost: the negative unit is printed
  with the units, and the clause that fixes the forgotten variable to true contradicts it
  (`CNF.cpp:278-290`), so that `<F>.p` is unsatisfiable as F is (`ProjectionExact`, `ClashInv`).
* `up` with a share below one removes one clause fewer than the share says (`Removed`, which
  `FilesSplit` compares the files with, has the exact number).
* d4d's cache does not know the depth: a component cut short is reused where the limit is not
  reached, which makes the bound coarser than it need be, and a deep one is reused below, so that a
  branch may hold more disjunctions than the limit. It is an upper bound all the same (`BoundSound`).

## What is proved

`CapKC_proofs` proves, for every size, number of threads, pair of bounds and number of
failing calls, with no assumption but `MaxFaults \in Nat` and that sizes, threads and
bounds are naturals:

* `TypeCorrect`, and with the inductive invariant `IInv` the invariants `BracketCorrect`,
  `KeptCorrect`, `ReapedCorrect`, `SplitCorrect`, and `NoFatalResult`: the scan never meets
  a status for which it exits;
* the action properties `NeverRetestedCorrect` and `RoundsNarrowCorrect`;
* `SearchRefinement`: the search implements `ProbeSearch`.

The argument: `BracketMeasured` alone is not inductive, because a scan moves `high` to the
candidate above the best success, which is a failure only if the scan came past it, and
because candidates must lie strictly inside the bracket when their results arrive.
`SearchInv` adds that the candidates in flight do, that they exist only between `Launch` and
`Scan`, and that every measurement lies below the limit; `RunManyInv` adds that a running
process is one the loop still polls, so that nothing runs once the loop is left, and that
the statuses the scan sees are final. Lemmas state what a result set and a move of the bounds
imply (`RoundResults`, `Narrowed`); the step lemma has one case per action.

`SimplifySampler_proofs` proves about `Simplify`, for every finite set of variables and every set of formulas over
them:

* `ModelsAlwaysKept`: at every point of `simplify` and `subsumption`, and whatever
  `set_active` does afterwards, the clauses in use and the units set aside have the models of
  the formula read;
* `StoreAlwaysExact`: the index and the stack of free slots (`IdxExact`, `SlotsSound`), and
  `AddClauseOverwritesNothing`;
* `AlwaysPropagated` and `AlwaysIrredundant`: what the two loops reach.

The argument: `Inv` adds to these properties what they mean half way. A unit that has been
propagated is mentioned by no clause in use (`Absent`) until it becomes a clause again, and
contradicting units are no exception: the second one finds nothing to strip. A clause that
the cursor has passed is contained in no other (`Alone`), since the index is exact and its
rarest literal is one of its own, unless it is empty. Slots are free exactly once because
the loops remove only slots in use, each once (`OrderFacts`). The lemmas `RmClausesFacts`,
`AddClauseFacts` and `ApplyUnitFacts` say what the operations of the store do to it and are
stated without reference to the program's counter; there is one lemma per action.
`StoreAlwaysConsistent` adds the counter that the header shows: it equals the number of clauses in
use modulo `2^Width` at every point, hence is exact while the vector has fewer slots than a
`size_t` counts (`Len(clauses) < 2^Width`), which is all that memory allows.

`CnfStore_proofs` holds the lemmas about the store that both classes `CNF` use, for any order
in which the index is visited; `SimplifySampler_proofs` and `DivKC_proofs` rest on it.

`CapKC_proofs` also proves `FilesCorrect`: the pieces of one round are cut by switching clauses off
one candidate at a time, and every D4 still gets its prefix. It needs how quotients of the bracket
behave (`Multiples`, `FewerMultiples`, `SomeCandidate`).

`CubeCounter_proofs` proves about `CubeCompiler`, for every formula, every `.ign` and every limit, `OneCubePerModel`,
`BookkeepingExact`, `Complete` and the refinement `ImplementsPartition`. It assumes that `.smp` is
finite and that `.ign` is a part of it. The invariant: the cubes have their types, each is what its
literals say (`CubeExact`), the queue holds exactly the cubes that may be extended
(`QueueExact`), and the cells of the cubes, with the models of a cube that is being extended,
are disjoint and cover all models.

The same module proves about `AppMC`, for every finite team of threads, `StreamsDistinct`, `Overshoot` and
`OutcomeReported`. `LateInv` is what is missing from `Overshoot`: once `done` is set, the threads
that hold a sample and those already counted late make at most one per thread.

`DivKC_proofs` begins with `Projection` alone. For every formula and every set of shown variables it
proves `ProjectionExact`, `SplitExact`, and `StoreConsistent` as long as a `size_t` can count the slots
(`SlotsFit`). The invariant `SemInv`: until
variables are forgotten the clauses have the models of F; afterwards, if no two units of the
simplified formula contradict each other (`Consistent`), every model of F projects to a model
(`Sound`), every model of the clauses extends to one of F (`Whole`), and the resolvents still to come
account for the clauses already removed (`Resolved`). The clauses that fix the forgotten variables
take no model away, as the others no longer mention these variables (`KeptWhenSound`). If two units
do contradict each other, F has no model, and `ClashInv` says what is left of the contradiction: the
negative unit stays, and the positive one stays or its variable is fixed to true
(`KeptWhenClashing`). A satisfiable formula has consistent units and never crashes. The step that eliminates a variable is `VariableEliminated`, proved
about sets of clauses alone. `CountInv` is what the counter lacks: `inplace_upper_bound` takes slots
off it that were off already, so only the sum modulo `2^Width` of calls and clauses is kept.

Then come the scripts. `WrapperSound`: in every interleaving with the child the status is true; the
invariant adds how a child's state, its fate and its file depend on each other (`ChildInv`), and
that what the loop has read was true when it was read and stays so (`ReadingInv`). `DInv` is the
invariant of the scripts as a whole: while the splitter runs, the store has the models of the
formula; what it writes is the formula again whatever order literals are printed in
(`PrintedBefore` is a total order of the literals, so that there is exactly one printed form); the
projection runs on what it has read, so that all its theorems apply to the file the script gave it
(`ScriptInvariance`); and a circuit file is complete or says so. From it follow `PartsIndependent`
and `CountExact`: the models of the upper bound under a path of the first circuit are the models of
F that say so of the variables not forgotten (`UnderPath`), and these classes partition the
models. `CompiledFilesExact` and `CompiledStoreConsistent` carry `SplitExact` and `StoreConsistent`
over to every script.

`Up_proofs` proves `OrderingExact` and `FilesSplit` for every number of variables, every formula over them
without the literal 0, every value of the option, and whatever partitions and matchings are found. A level maps the
nodes of the one before; `Composite` is their composition, a map of the variables. `Chain` says
that a level starts from the communities of the one before, `Covers` that two
variables of a clause are in one community already or in two that share an edge: when no edge is left,
every clause lies in one community, so nothing is left at the last level. `GrowInv` adds that every
matching merges two nodes, which bounds the levels by the variables. `SortInv` says that the clauses still
to be collected are good at no level visited and by size, and `EachOnce` that they and those
collected are all clauses, each once; `MovedOnce` is the step for that. For the files, a counter that is
changed only by what `set_active` changes counts the clauses in use (`SwitchFacts`), and the cut is where
`Removed` says at every edge of the option (`CutArithmetic`).

The same module as for `Simplify` proves about `Sampler`, for every formula, upper bound and team and all values of the options,
`CountsExact`, `SamplesSound`, `TriesAccounted` and the action property `BurnedIn`. It assumes that
the variables and threads are finite, that a formula read has no empty clause, and that the number
of its clauses fits in a `size_t`. The lemmas about the queries say that a clause which mentions no
flipped literal is satisfied as before (`FlipUns`), so that
`nb_flip_unsatisfied`, `nb_unsat_flip` and `unsat_clause_ids_flip` give what a recount gives for any
assignment (`FlipCountExact`, `FlipToExact`, `FlipIdsExact`); that the first of them counts the
clauses of both literals apart does no harm, as no clause with both is ever unsatisfied. The
invariant `IInv`: the store is as read; a thread leaves the loop only when the goal is
reached and holds nothing unfit on the way (`TeamInv`), so that the assertion on the size of the
population holds; cubes carry their count and stay under the threshold (`PopulationInv`); the
phase of a chain says how far it is past its first model (`ChainInv`). `TriesInv` is what
`TriesAccounted` lacks: the tries neither rejected nor printed are the models in hand while samples
are missing; afterwards each belongs to a thread that holds a model or draws no more, and the thread
that printed the last sample is such a one without a try of its own. Both differences are taken modulo
`2^Width`, where the counters wrap. That blocks drawn by one thread pass the assertions of
`mutate_cube` is `SoundOnDistinct`.

`PathTools_proofs` proves `TallyExact` and `OutcomeSound` for every set of command lines and circuits
and all bounds of the instance. The invariant `ToolsInv` has a part for every tool, and says that a
tool leaves the variables of the others alone (`IdleInv`). An iteration of a loop is to begin, in hand
or over (`LoopInv`), and in a loop that prints one line each the three make up the samples asked for
(`Iterations`). Paths in hand of `rsampler` are different, so that what has passed the reservoir is
`Tallied`, and a reservoir exists as soon as a path has passed (`FillInv`). What `rhsampler` passes
grows by the solution it looks at, since its position is at most one past the solutions of its path
while it fills (`WalkInv`). `StopInv` bounds appmc's count by the limit and the paths in hand, which
are the last ones once the flag is set; `LinesInv` relates its count to its lines. A sum over a set
is shown to be the number of its units (`SumUnits`), so that the solutions printed can be counted,
and a number drawn falls into one path (`SelectedIsSolution`).

`DepthBound_proofs` begins with `Annf` alone, and proves `CountsExact` and `IdsAreModels` (`AnnfCountsExact`,
`AnnfIdsAreModels`) under `QueriesAssumption`: circuits are d-DNNFs as D4 prints them, of any size,
and cubes are disjoint and total on the variables they share with a model. The invariant `AnnfInv`: the root is at the bottom of the
stack until it is ordered (`OrderInv`); a node that is counted has as many models as its count
(`CountInv`); the literals collected and what the stack still stands for are together the
model of the id drawn (`DescentInv`). The model of an id is what a bijection of ids and models says
(`MapOf`), which is shown to exist from the leaves up (`MapExists`, `Upwards`): an Or gives ids
to its edges slot by slot (`PrefixSums`, `OrDecode`), an edge halves them by its free variables
(`HalvedFacts`), and an And writes them in the mixed base of its children's counts (`SpreadFacts`,
`AndDecode`). Injective and of the right number, the map is onto. A fold is unfolded into the
sequence of its intermediate results (`FoldChain`), so that a loop of the code is argued about turn by turn.

Then comes d4d. For every formula, every depth, with the cache or without, whatever the solver has
found when it is asked and whichever variables are decided, `BoundIsSound` proves `BoundSound`: the circuit
printed has every model of the formula, assigns every variable, and is the formula if the depth is
no limit. `BoundIsDDNNF` says that it is a d-DNNF at every step of the compilation. The assumptions
are those of the modules: clauses are sets of literals over the variables (`TasksAssumption`), and
the cubes a circuit of d4d is read under are disjoint (`ReadingsAssumption`). The invariant `D4dInv`:

* `DagOK`: every node is built after its children, those of a conjunction have no variable in
  common and those of a disjunction no model. Adding nodes changes no meaning (`MeaningKept`).
* `StackOK`: for each frame of the call stack the models of its part of the formula are those of
  the nodes it has collected, of its free variables and of the parts it has still to compile, or
  among them where a limit is in force (`CompileOK`, `Parted`); the branches of a decision cover
  the models under each sign (`DecideOK`); and a frame above a decision compiles its next branch
  (`Begun`).
* `CacheOK`: a cached node is an upper bound, or exact, not only for the call that built it but for
  every call with its key. This is what `searchInCache` rests on: two calls with the same variables and
  the same residue of the clauses that have lost a literal have the same models over these variables
  (`CacheSame`, `SameClauses`), because a clause that has lost none and lies in the component is a
  clause of the formula in both.
* `RootOK`: what the root means once it is printed.

That the depth is no limit from `NbVars - 1` on is part of the invariant too: a frame that still has
parts to compile has depth enough for their variables (`DepthOK`). The components of a residual formula
cover its clauses and share no variable (`ComponentsCover`, `ComponentsApart`), so that models are put
together part by part (`PartsAreModels`, `Mixed`), and a residual formula of a residual formula is one of the
formula (`ResidualTwice`).

Last, the composition: `PrintedIsQuery` shows that the circuit d4d prints meets what `Annf` assumes of a
circuit and its cubes. That a cube and a model have the same variables is proved there, since d4d's models assign all
of them. So both invariants hold together (`ComposedInvariant`), and
counting or sampling what d4d has printed is exact (`BoundCountsExact`, `BoundIdsAreModels`).

No theorem uses induction over data, which the prover cannot instantiate. Where a function is
recursive (`Composite`), a sequence sorted or a set summed up, the argument is by a least
counterexample: a set of naturals with no least element is empty (`LeastNat`), nor does a set of finite
sets lack a least one (`NoLeastSet`), and a recursive function on the naturals is shown to exist by its
finite approximations (`UptoExists`).

Only model-checked: liveness under fairness, and with it ENABLED, which are out of the prover's reach.
Every invariant and every action property that a passing run checks is proved.

## Not modelled, and why

* Lexing and printing of DIMACS and .nnf files, statistics, confidence intervals, random
  number generation (a sample is a free choice): data the properties do not depend on. With
  `--n 0` the rejection sampler divides the number of samples by zero tries when it prints its
  estimate (`assignment_generator.hpp:418`); the estimate is not modelled, nor is what becomes of it.
* D4 and d4d beyond the compile loop: SAT solver and preprocessing, the heuristics that choose
  variables and partitions, certificates, projected and weighted formulas, cache eviction.
* CaDiCaL, PaToH, NetworKit, googletest: third-party code, modelled from how the programs use
  it. The tables of results and the scripts that format them compute nothing the tools use.
* The heuristics for the next variable of a cube other than the one the build uses, and the statistics
  of known clauses that `dnf.cpp` prints.
* `run` of `util.cpp`, `rename_vars` and the statistics of the projection,
  `compute_partial_clause_ordering` and the graph statistics: not called, or by tools that only print figures.

The greater part of the repository is vendored code of the second and third kind, so that the
definitions map a small share of its lines; of the tools written for CapKC and DivKC they map
nearly every function that changes state.

## Plan

1. The uniqueness of what `rhsampler` prints under bounds on its jumps.
2. D4's cache eviction and projected variables in `D4d`, with `BoundSound` proved for them.

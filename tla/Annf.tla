-------------------------------- MODULE Annf --------------------------------
(***************************************************************************)
(* Uniform sampling from a compiled upper bound (capkc/capkc/src/nnf.cpp   *)
(* and class RandomCubeAssignmentGenerator).  A d-DNNF is ordered bottom   *)
(* up, annotated once per cube with the number of models (or of paths) of  *)
(* every node under that cube, and a random id is turned into a model.     *)
(* Here every id is drawn once, in any order of the cubes' annotation, so  *)
(* that what the whole mapping from ids to models promises can be stated.  *)
(* DepthBound composes this module with the compiler d4d.                  *)
(*                                                                         *)
(* The circuits are those D4 prints: node 1 is the root, only edges out of *)
(* Or and Unary nodes carry literals.  An edge is a record of its target,  *)
(* its literals and its free variables in the order of the file.           *)
(***************************************************************************)
EXTENDS Integers, Sequences, FiniteSets, SequencesExt

\* The circuits, each with a list of disjoint cubes, and whether models ("mc") or paths
\* ("pc") are counted.  RandomNNFAssignmentGenerator is the list <<{}>>.
CONSTANT Queries

ROOT == 1

\* What a node stands for: its models, or its paths.  An And joins one set of literals of
\* every child; the others hold those that go through one of their edges.
FreeChoices(q, e) ==
  IF q.count = "pc" THEN {{}}
  ELSE {{IF x \in T THEN x ELSE -x : x \in Range(e.free)} : T \in SUBSET Range(e.free)}
Through(q, M, e) == {e.units \cup f \cup m : f \in FreeChoices(q, e), m \in M[e.dst]}
Joined(M, kids) ==
  {UNION Range(f) : f \in {f \in [DOMAIN kids -> UNION {M[kids[k].dst] : k \in DOMAIN kids}] :
                            \A k \in DOMAIN kids : f[k] \in M[kids[k].dst]}}
MeaningOf(q, M, n) ==
  LET kids == q.circuit[n].children
  IN  CASE q.circuit[n].type = "t" -> {{}}
        [] q.circuit[n].type = "f" -> {}
        [] q.circuit[n].type = "a" -> Joined(M, kids)
        [] q.circuit[n].type \in {"o", "u"} -> UNION {Through(q, M, kids[k]) : k \in DOMAIN kids}
Meanings(q) == LET M[n \in DOMAIN q.circuit] == MeaningOf(q, M, n) IN M

Conflicts(L, a) == \E l \in L : -l \in a
Apart(L, a) == \A l \in L : l \notin a /\ -l \notin a

Edges == [dst : Nat, units : SUBSET (Int \ {0}), free : Seq(Nat \ {0})]

\* The circuits D4 prints: only edges out of Or and Unary nodes carry literals, and they
\* know no variable twice.
IsCircuit(C) ==
  /\ ROOT \in DOMAIN C
  /\ C \in Seq([type : {"t", "f", "a", "o", "u"}, children : Seq(Edges)])
  /\ \A n \in DOMAIN C : \A k \in DOMAIN C[n].children :
       LET e == C[n].children[k]
       IN  /\ e.dst \in DOMAIN C
           /\ C[n].type = "a" => e.units = {} /\ e.free = <<>>
           /\ IsInjective(e.free) /\ Apart(e.units, Range(e.free))
  \* no cycles: every set of nodes has one without a child in it
  /\ \A S \in (SUBSET DOMAIN C) \ {{}} :
       \E n \in S : \A k \in DOMAIN C[n].children : C[n].children[k].dst \notin S

\* Deterministic and decomposable: the children of an Or share no model, those of an And
\* no variable, and no edge sets a variable that is set below it.
IsDDNNF(q) ==
  LET C == q.circuit
      M == Meanings(q)
  IN  /\ IsCircuit(C)
      /\ \A n \in DOMAIN C : \A j, k \in DOMAIN C[n].children :
           LET d == C[n].children[j]
               e == C[n].children[k]
           IN  /\ \A m \in M[e.dst] : m \subseteq Int \ {0} /\ Apart(m, e.units \cup Range(e.free))
               /\ j # k => IF C[n].type = "a"
                           THEN \A x \in M[d.dst], y \in M[e.dst] : Apart(x, y)
                           ELSE Through(q, M, d) \cap Through(q, M, e) = {}

\* Cubes are disjoint, and a model that does not contradict one extends it; paths are
\* drawn without cubes, or under a single one.
AreCubes(q) ==
  /\ q.cubes \in Seq(SUBSET (Int \ {0})) /\ q.cubes # <<>>
  /\ \A c \in DOMAIN q.cubes : ~Conflicts(q.cubes[c], q.cubes[c])
  /\ q.count = "pc" => Len(q.cubes) = 1
  /\ q.count = "mc" =>
       /\ \A c, d \in DOMAIN q.cubes : c # d => Conflicts(q.cubes[c], q.cubes[d])
       /\ \A m \in Meanings(q)[ROOT] : \A c \in DOMAIN q.cubes :
            Conflicts(m, q.cubes[c]) \/ q.cubes[c] \subseteq m

IsQuery(q) == q.count \in {"mc", "pc"} /\ IsDDNNF(q) /\ AreCubes(q)

ASSUME QueriesAssumption == \A q \in Queries : IsQuery(q)

VARIABLES
  query,
  mode,
  stack,      \* of compute_ordering: nodes; of get_solution: pairs of an id and a node
  visited,
  ordering,
  annotated,  \* the cubes whose circuit is annotated
  mcv,        \* cube -> node -> count
  id,         \* the id drawn
  cid,        \* the cube it falls in
  s,          \* the literals of the model so far
  out         \* history: the models of the ids 1, 2, ...

annfVars == <<query, mode, stack, visited, ordering, annotated, mcv, id, cid, s, out>>

nodes == query.circuit
Nodes == DOMAIN nodes
Cubes == DOMAIN query.cubes
Destinations(n) == {nodes[n].children[k].dst : k \in DOMAIN nodes[n].children}

AnnfInit ==
  /\ query = [circuit |-> <<>>, cubes |-> <<>>, count |-> "mc"]
  /\ mode = "read"
  /\ stack = <<>>
  /\ visited = {}
  /\ ordering = <<>>
  /\ annotated = {}
  /\ mcv = <<>>
  /\ id = 0 /\ cid = 0
  /\ s = {}
  /\ out = <<>>

\* The constructor reads the file of the circuit; compute_ordering is its last call.
Read(p) ==
  /\ mode = "read"
  /\ query' = p
  /\ mode' = "order"
  /\ stack' = <<ROOT>>
  /\ mcv' = [c \in DOMAIN p.cubes |-> [n \in DOMAIN p.circuit |-> 0]]
  /\ UNCHANGED <<visited, ordering, annotated, id, cid, s, out>>

Top == stack[Len(stack)]
Below == SubSeq(stack, 1, Len(stack) - 1)

-----------------------------------------------------------------------------
(* compute_ordering: one turn of its loop is one step *)

\* The children of n still to be visited are pushed, in the order of its edges.
Pushed(n) == FoldLeft(LAMBDA st, e : IF e.dst \in visited THEN st ELSE Append(st, e.dst),
                      stack, nodes[n].children)

AllDone(n) == Destinations(n) \subseteq visited

Order ==
  /\ mode = "order"
  /\ stack # <<>>
  /\ IF Top \in visited THEN stack' = Below /\ UNCHANGED <<visited, ordering>>
     ELSE IF AllDone(Top)
          THEN /\ stack' = Below
               /\ visited' = visited \cup {Top}
               /\ ordering' = Append(ordering, Top)
          ELSE stack' = Pushed(Top) /\ UNCHANGED <<visited, ordering>>
  /\ UNCHANGED <<query, mode, annotated, mcv, id, cid, s, out>>

Ordered ==
  /\ mode = "order"
  /\ stack = <<>>
  /\ mode' = "annotate"
  /\ UNCHANGED <<query, stack, visited, ordering, annotated, mcv, id, cid, s, out>>

-----------------------------------------------------------------------------
(* set_assumps, annotate_mc and annotate_pc *)

\* The free variables of e the cube a does not fix.  Faulty variant: all of them.
FreeAll(e, a) == Range(e.free)
FreeUnder(e, a) == {x \in Range(e.free) : Apart({x}, a)}

\* get_mc and get_pc of an edge, from the counts m of the nodes.
EdgeCount(q, m, e, a) ==
  IF Conflicts(e.units, a) THEN 0
  ELSE IF q.count = "pc" THEN m[e.dst]
  ELSE m[e.dst] * 2^Cardinality(FreeUnder(e, a))

SumOf(c) == FoldLeft(LAMBDA x, y : x + y, 0, c)
ProductOf(c) == FoldLeft(LAMBDA x, y : x * y, 1, c)

NodeCount(q, m, n, a) ==
  LET kids == q.circuit[n].children
      counts == [k \in DOMAIN kids |-> EdgeCount(q, m, kids[k], a)]
  IN  CASE q.circuit[n].type = "t" -> 1
        [] q.circuit[n].type = "f" -> 0
        [] q.circuit[n].type = "a" -> ProductOf(counts)
        [] q.circuit[n].type \in {"o", "u"} -> SumOf(counts)

\* One pass over the nodes in their order.
Annotated(q, a, order) ==
  FoldLeft(LAMBDA m, n : [m EXCEPT ![n] = NodeCount(q, m, n, a)],
           [n \in DOMAIN q.circuit |-> 0], order)

\* The parallel loop of the generator's constructor annotates the cubes in any order.
Annotate(c) ==
  /\ mode = "annotate"
  /\ c \in Cubes \ annotated
  /\ mcv' = [mcv EXCEPT ![c] = Annotated(query, query.cubes[c], ordering)]
  /\ annotated' = annotated \cup {c}
  /\ mode' = IF annotated' = Cubes THEN "draw" ELSE "annotate"
  /\ UNCHANGED <<query, stack, visited, ordering, id, cid, s, out>>

-----------------------------------------------------------------------------
(* get_solution and get_path *)

SumTo(c) == SumOf([k \in 1 .. c |-> mcv[k][ROOT]])
mc == SumTo(Len(query.cubes))

\* The generator looks for the first cube whose count reaches the id.
DrawId ==
  /\ mode = "draw"
  /\ Len(out) < mc
  /\ id' = Len(out) + 1
  /\ cid' = CHOOSE c \in Cubes : SumTo(c - 1) < id' /\ id' <= SumTo(c)
  /\ stack' = <<<<id' - SumTo(cid' - 1), ROOT>>>>
  /\ s' = {}
  /\ mode' = "descend"
  /\ UNCHANGED <<query, visited, ordering, annotated, mcv, out>>

lid == Top[1]
node == Top[2]
children == nodes[node].children
cmc(e) == EdgeCount(query, mcv[cid], e, query.cubes[cid])

\* And: the id i is written in the mixed base of the counts of the edges in kids.
\* Faulty variant: ids count from 0.
DigitFrom0(i, n) == <<i % n, i \div n>>
Digit(i, n) == <<((i - 1) % n) + 1, ((i - 1) \div n) + 1>>
Spread(q, m, kids, a, i) ==
  FoldLeft(LAMBDA acc, e : LET d == Digit(acc[1], EdgeCount(q, m, e, a))
                           IN  <<d[2], Append(acc[2], <<d[1], e.dst>>)>>,
           <<i, <<>>>>, kids)[2]

SplitId ==
  /\ mode = "descend"
  /\ stack # <<>>
  /\ nodes[node].type = "a"
  /\ stack' = Below \o Spread(query, mcv[cid], children, query.cubes[cid], lid)
  /\ UNCHANGED <<query, mode, visited, ordering, annotated, mcv, id, cid, s, out>>

\* Or, Unary: the first child whose count reaches what is left of the id; there is one
\* for every id in range (IdsInRange).
CountTo(k) == SumOf([j \in 1 .. k |-> cmc(children[j])])

\* A free variable x the cube a fixes keeps its sign, each of the others halves the ids.
\* Faulty variant: the id is not reduced in the upper half.
HalveKept(a, acc, x) ==
  LET half == acc.count \div 2
  IN  IF ~Apart({x}, a) THEN [acc EXCEPT !.lits = @ \cup {IF x \in a THEN x ELSE -x}]
      ELSE [acc EXCEPT !.count = half, !.lits = @ \cup {IF acc.id <= half THEN x ELSE -x}]
Halve(a, acc, x) ==
  LET half == acc.count \div 2
  IN  IF ~Apart({x}, a) THEN [acc EXCEPT !.lits = @ \cup {IF x \in a THEN x ELSE -x}]
      ELSE IF acc.id <= half
           THEN [id |-> acc.id, count |-> half, lits |-> acc.lits \cup {x}]
           ELSE [id |-> acc.id - half, count |-> half, lits |-> acc.lits \cup {-x}]

\* The literals of the free variables of e for the id i of count, and the id left for its
\* node; a path has no free variables.
Halved(q, e, a, i, count) ==
  LET start == [id |-> i, count |-> count, lits |-> {}]
  IN  IF q.count = "pc" THEN start
      ELSE FoldLeft(LAMBDA acc, x : Halve(a, acc, x), start, e.free)

Choose ==
  /\ mode = "descend"
  /\ stack # <<>>
  /\ nodes[node].type \in {"o", "u"}
  /\ \E k \in DOMAIN children :
       /\ CountTo(k - 1) < lid
       /\ lid <= CountTo(k)
       /\ LET e == children[k]
              h == Halved(query, e, query.cubes[cid], lid - CountTo(k - 1), cmc(e))
          IN  /\ s' = s \cup e.units \cup h.lits
              /\ stack' = Append(Below, <<h.id, e.dst>>)
  /\ UNCHANGED <<query, mode, visited, ordering, annotated, mcv, id, cid, out>>

Leaf ==
  /\ mode = "descend"
  /\ stack # <<>>
  /\ nodes[node].type \in {"t", "f"}
  /\ stack' = Below
  /\ UNCHANGED <<query, mode, visited, ordering, annotated, mcv, id, cid, s, out>>

\* The model is returned once the stack is empty.
Return ==
  /\ mode = "descend"
  /\ stack = <<>>
  /\ out' = Append(out, s)
  /\ mode' = "draw"
  /\ UNCHANGED <<query, stack, visited, ordering, annotated, mcv, id, cid, s>>

AnnfStep ==
  \/ Order \/ Ordered \/ \E c \in Cubes : Annotate(c)
  \/ DrawId \/ SplitId \/ Choose \/ Leaf \/ Return

AnnfNext == AnnfStep \/ \E p \in Queries : Read(p)

AnnfSpec == AnnfInit /\ [][AnnfNext]_annfVars

-----------------------------------------------------------------------------
(* Properties *)

Meaning == Meanings(query)
UnderOf(q, n, a) == {m \in Meanings(q)[n] : ~Conflicts(m, a)}
Under(n, a) == UnderOf(query, n, a)

AnnfTypeOK ==
  /\ query.count \in {"mc", "pc"}
  /\ mode \in {"read", "order", "annotate", "draw", "descend"}
  /\ mode = "order" => stack \in Seq(Nodes)
  /\ mode # "order" => stack \in Seq((Nat \ {0}) \X Nodes)
  /\ visited = Range(ordering)
  /\ annotated \subseteq Cubes
  /\ mcv \in [Cubes -> [Nodes -> Nat]]
  /\ id \in Nat
  /\ cid \in Cubes \cup {0}

\* A node is ordered once and after all its children, and in the end the root is, so
\* that one pass annotates the circuit (documented at nnf.hpp:151-155).
BottomUp ==
  /\ \A k \in DOMAIN ordering :
       Destinations(ordering[k]) \subseteq {ordering[j] : j \in 1 .. k - 1}
  /\ IsInjective(ordering)
  /\ mode \notin {"read", "order"} => ROOT \in Range(ordering)

\* The ordering is bottom up, and then the count of every node under a cube is the number
\* of its models, or paths, that do not contradict the cube: shared nodes and fixed free
\* variables are counted right; AnnfTypeOK is part of it.  (nnf.cpp:132-160,170-244)
CountsExact ==
  /\ AnnfTypeOK
  /\ BottomUp
  /\ \A c \in annotated : \A n \in visited : mcv[c][n] = Cardinality(Under(n, query.cubes[c]))

\* The id handed to a node is one of its ids: the code only reports one out of range,
\* and divides by counts that may be 0.
IdsInRange ==
  mode = "descend" => \A k \in DOMAIN stack : stack[k][1] \in 1 .. mcv[cid][stack[k][2]]

\* No id leaves its range on the way down, different ids give different models, each of
\* which satisfies the cube its id falls in, and when all ids are drawn every model of a
\* cube was returned.
\* (nnf.hpp:244-258, nnf.cpp:278-297,328-347, assignment_generator.hpp:316-335)
IdsAreModels ==
  /\ IdsInRange
  /\ IsInjective(out)
  /\ \A k \in DOMAIN out :
       /\ out[k] \in Meaning[ROOT]
       /\ \E c \in Cubes : out[k] \in Under(ROOT, query.cubes[c])
       /\ query.count = "mc" => \E c \in Cubes : query.cubes[c] \subseteq out[k]
  /\ mode = "draw" /\ Len(out) = mc =>
       Range(out) = UNION {Under(ROOT, query.cubes[c]) : c \in Cubes}
=============================================================================

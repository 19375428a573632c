------------------------------ MODULE Ordering ------------------------------
(***************************************************************************)
(* The orders in which capkc removes clauses (capkc/capkc/src/ordering.cpp)*)
(* ascending by size, random, or by communities: the graph of the          *)
(* variables that share a clause is partitioned, then coarsened level by   *)
(* level along matchings, and a clause comes at the first level where its  *)
(* variables are in one community.                                         *)
(*                                                                         *)
(* NetworKit's partitions and matchings are external.  Slots, variables    *)
(* and the nodes of a graph count from 1.                                  *)
(***************************************************************************)
EXTENDS Integers, Sequences, FiniteSets, FiniteSetsExt

CONSTANTS
  NbVars,     \* the variables are 1 .. NbVars
  Jobs        \* the command lines and the preprocessed formulas

Vars == 1 .. NbVars
JobFields == [tool : {"up", "smp"}, order : {"ascending", "community", "random"},
              clauses : Seq(SUBSET ((-NbVars .. NbVars) \ {0})), quarters : Int]

ASSUME OrderingAssumption ==
  /\ NbVars \in Nat
  /\ Jobs \subseteq JobFields

VARIABLES
  job,
  pc,
  graph,        \* the graph of the current level
  clustering,   \* for every level, the node each node of the level before goes to
  i, level,     \* the level the loop is at, and the community of every variable there
  clids,        \* the clauses still to be ordered
  res           \* the clauses ordered

orderingVars == <<job, pc, graph, clustering, i, level, clids, res>>

Ids == DOMAIN job.clauses
VarsOf(id) == {IF l > 0 THEN l ELSE -l : l \in job.clauses[id]}
Size(id) == Cardinality(job.clauses[id])

OrderingInit ==
  /\ job \in Jobs
  /\ pc = "start"
  /\ graph = [nodes |-> {}, edges |-> {}]
  /\ clustering = <<>> /\ i = 1 /\ level = <<>> /\ clids = <<>> /\ res = <<>>

\* The orders of all clauses.
Orders == {s \in [1 .. Cardinality(Ids) -> Ids] : \A j, k \in DOMAIN s : s[j] = s[k] => j = k}

\* std::sort is not stable: clauses of one size may come in any order.
Ascending == {s \in Orders : \A j, k \in DOMAIN s : j < k => Size(s[j]) <= Size(s[k])}

\* The elements of s at the places K, in the order in which they are in s.
Rank(K, k) == Cardinality({j \in K : j <= k})
At(s, K) == [n \in 1 .. Cardinality(K) |-> s[CHOOSE k \in K : Rank(K, k) = n]]

Pairs(S) == kSubset(2, S)

\* build_vig.  All weights are positive.
Vig == [nodes |-> Vars, edges |-> UNION {Pairs(VarsOf(id)) : id \in Ids}]

\* The graph whose nodes are those f takes the nodes of g to, without self-loops.
Coarse(g, f) ==
  [nodes |-> {f[n] : n \in g.nodes},
   edges |-> {e \in {{f[n] : n \in d} : d \in g.edges} : Cardinality(e) = 2}]

\* The partitions of the variables, the communities numbered by their first members.
Partitions ==
  {f \in [Vars -> Vars] : \A w \in Vars : f[w] <= Max({0} \cup {f[x] : x \in 1 .. w - 1}) + 1}

Matchings(g) == {m \in SUBSET g.edges : \A d, e \in m : d # e => d \cap e = {}}

\* A matched node goes with the lesser of the pair; the nodes left are numbered anew.
CarriedOver(g, m) == {n \in g.nodes : \A e \in m : n \in e => n = Min(e)}
Mate(m, n) == Min({n} \cup UNION {e \in m : n \in e})
FineToCoarse(g, m) ==
  [n \in g.nodes |-> Cardinality({c \in CarriedOver(g, m) : c <= Mate(m, n)})]

-----------------------------------------------------------------------------
(* The three orderings *)

OrderAtOnce ==
  /\ pc = "start" /\ job.tool = "up"
  /\ \/ job.order = "ascending" /\ res' \in Ascending
     \/ job.order = "random" /\ res' \in Orders
  /\ pc' = "ordered"
  /\ UNCHANGED <<job, graph, clustering, i, level, clids>>

\* initial_coarsen: the communities of the Louvain method.
InitialCoarsen ==
  /\ pc = "start" /\ job.tool = "up"
  /\ job.order = "community"
  /\ clids' \in Ascending
  /\ \E f \in Partitions :
       /\ graph' = Coarse(Vig, f)
       /\ clustering' = <<f>>
       /\ level' = f
  /\ pc' = "cluster"
  /\ UNCHANGED <<job, i, res>>

\* coarsen_graph: the matcher finds a pair as long as there is an edge.
CoarsenGraph ==
  /\ pc = "cluster"
  /\ graph.edges # {}
  /\ \E m \in Matchings(graph) \ {{}} :
       /\ graph' = Coarse(graph, FineToCoarse(graph, m))
       /\ clustering' = Append(clustering, FineToCoarse(graph, m))
  /\ UNCHANGED <<job, pc, i, level, clids, res>>

Clustered ==
  /\ pc = "cluster"
  /\ graph.edges = {}
  /\ pc' = "collect"
  /\ UNCHANGED <<job, graph, clustering, i, level, clids, res>>

\* The first literal of an empty clause is read out of range, and compared with nothing.
Good(id) == \A w, x \in VarsOf(id) : level[w] = level[x]
GoodPlaces == {k \in DOMAIN clids : Good(clids[k])}

\* The next level, or the end of the loop.
NextLevel ==
  IF i < Len(clustering)
  THEN /\ i' = i + 1
       /\ level' = [w \in Vars |-> clustering[i + 1][level[w]]]
       /\ UNCHANGED pc
  ELSE pc' = "ordered" /\ UNCHANGED <<i, level>>

\* Faulty variant: the clauses that are not good yet are not kept.
CollectOnce ==
  /\ pc = "collect"
  /\ res' = res \o At(clids, GoodPlaces)
  /\ clids' = <<>>
  /\ NextLevel
  /\ UNCHANGED <<job, graph, clustering>>
Collect ==
  /\ pc = "collect"
  /\ res' = res \o At(clids, GoodPlaces)
  /\ clids' = At(clids, DOMAIN clids \ GoodPlaces)
  /\ NextLevel
  /\ UNCHANGED <<job, graph, clustering>>

OrderingStep == OrderAtOnce \/ InitialCoarsen \/ CoarsenGraph \/ Clustered \/ Collect

-----------------------------------------------------------------------------
(* Properties *)

OrderingTypeOK ==
  /\ job \in Jobs
  /\ pc \in {"start", "cluster", "collect", "ordered", "ign", "smp", "done"}
  /\ graph.nodes \subseteq Vars /\ graph.edges \subseteq Pairs(graph.nodes)
  /\ \A k \in DOMAIN clustering : \A n \in DOMAIN clustering[k] : clustering[k][n] \in Vars
  /\ i \in 1 .. NbVars + 1
  /\ clids \in Seq(Ids) /\ res \in Seq(Ids)

\* The communities of a level, and the first level at which a clause lies in one.
Communities[k \in Nat] ==
  IF k <= 1 THEN clustering[1] ELSE [w \in Vars |-> clustering[k][Communities[k - 1][w]]]
Inside(id, k) == Cardinality({Communities[k][w] : w \in VarsOf(id)}) <= 1
Stage(id) == IF job.order = "community" THEN Min({k \in DOMAIN clustering : Inside(id, k)}) ELSE 1

\* Whatever communities and pairs are found, every clause comes into the order exactly
\* once, none is lost between two levels, and the levels are fewer than the variables.
\* The order is by level, and by size within one.  (ordering.cpp:72-88,112-150)
OrderingExact ==
  /\ OrderingTypeOK
  /\ Len(clustering) <= Max({1, NbVars})
  /\ pc # "start" /\ job.tool = "up" =>
       /\ Len(clids) + Len(res) = Cardinality(Ids)
       /\ Range(clids) \cup Range(res) = Ids
       /\ pc \notin {"cluster", "collect"} => clids = <<>>
  /\ job.order # "random" /\ pc # "cluster" =>
       \A j, k \in DOMAIN res : j < k =>
         \/ Stage(res[j]) < Stage(res[k])
         \/ Stage(res[j]) = Stage(res[k]) /\ Size(res[j]) <= Size(res[k])
=============================================================================

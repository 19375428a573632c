------------------------- MODULE CubeCounter_proofs -------------------------
(***************************************************************************)
(* Proofs about CubeCompiler, for every formula, every choice of .ign and  *)
(* every answer of the solver: the cubes cut the models of .smp into       *)
(* non-empty cells, one for every model, the queue and the cubes agree, no *)
(* assertion fails and a loop that ends by itself leaves nothing unknown.  *)
(*                                                                         *)
(* Then about AppMC, which draws under these cubes, for every finite team  *)
(* of threads, every value of the options and whatever the samples and     *)
(* intervals are.                                                          *)
(***************************************************************************)
EXTENDS CubeCompiler, AppMC, FiniteSetTheorems, SequenceTheorems, WellFoundedInduction, TLAPS

-----------------------------------------------------------------------------
(* Literals and models *)

\* Literals are non-zero integers, closed under negation.
LEMMA LiteralFacts ==
  ASSUME NEW l \in Literals
  PROVE  /\ l \in Int /\ l # 0 /\ -l \in Literals
         /\ VarOf(l) \in Vars /\ l \in {VarOf(l), -VarOf(l)}
BY ProblemAssumption DEF Literals, VarOf

\* A variable is a literal, and so is its negation.
LEMMA VarFacts ==
  ASSUME NEW v \in Vars
  PROVE  /\ v \in Int /\ v > 0 /\ v \in Literals /\ -v \in Literals /\ -(-v) = v
         /\ VarOf(v) = v /\ VarOf(-v) = v
BY ProblemAssumption DEF Literals, VarOf

\* A model holds exactly one of the literals of every variable.
LEMMA ModelFacts ==
  ASSUME NEW m \in Models, NEW v \in Vars
  PROVE  m \subseteq Literals /\ ((v \in m) <=> (-v \notin m))
<1>1. PICK T \in SUBSET Vars : m = {IF w \in T THEN w ELSE -w : w \in Vars}
  BY DEF Models, Assignments
<1>2. m \subseteq Literals
  BY <1>1, VarFacts
<1>3. \A w \in Vars : w \in Int /\ w > 0 /\ -w < 0 /\ -(-w) = w
  BY VarFacts
<1>4. ASSUME v \in T PROVE v \in m /\ -v \notin m
  <2>1. v \in m
    BY <1>1, <1>4
  <2>2. ASSUME -v \in m PROVE FALSE
    <3>1. PICK w \in Vars : -v = IF w \in T THEN w ELSE -w
      BY <2>2, <1>1
    <3>2. w = v /\ w \notin T
      BY <3>1, <1>3
    <3> QED
      BY <3>2, <1>4
  <2> QED
    BY <2>1, <2>2
<1>5. ASSUME v \notin T PROVE v \notin m /\ -v \in m
  <2>1. -v \in m
    BY <1>1, <1>5
  <2>2. ASSUME v \in m PROVE FALSE
    <3>1. PICK w \in Vars : v = IF w \in T THEN w ELSE -w
      BY <2>2, <1>1
    <3>2. w = v /\ w \in T
      BY <3>1, <1>3
    <3> QED
      BY <3>2, <1>5
  <2> QED
    BY <2>1, <2>2
<1> QED
  BY <1>2, <1>4, <1>5

\* The same for the two literals of a decision.
LEMMA LiteralInModel ==
  ASSUME NEW m \in Models, NEW l \in Literals
  PROVE  (l \in m) <=> (-l \notin m)
<1>1. PICK v \in Vars : l = v \/ l = -v
  BY DEF Literals
<1> QED
  BY <1>1, ModelFacts, VarFacts

\* Propagation adds literals, and takes no model away.
LEMMA ImplicantFacts ==
  ASSUME NEW L \in SUBSET Literals, NEW P \in Implicants(L)
  PROVE  /\ P \in SUBSET Literals /\ L \subseteq P
         /\ ModelsUnder(P) = ModelsUnder(L)
<1>1. PICK E \in SUBSET Entailed(L) : P = E \cup L
  BY DEF Implicants
<1>2. P \in SUBSET Literals /\ L \subseteq P
  BY <1>1 DEF Entailed
<1>3. \A m \in ModelsUnder(L) : P \subseteq m
  BY <1>1 DEF Entailed, ModelsUnder
<1> QED
  BY <1>2, <1>3 DEF ModelsUnder

\* The models under a decision.
LEMMA DecisionFacts ==
  ASSUME NEW L \in SUBSET Literals, NEW l \in Literals
  PROVE  /\ L \cup {l} \in SUBSET Literals
         /\ ModelsUnder(L \cup {l}) = {m \in ModelsUnder(L) : l \in m}
         /\ ModelsUnder(L \cup {-l}) = {m \in ModelsUnder(L) : l \notin m}
<1>1. ModelsUnder(L \cup {l}) = {m \in ModelsUnder(L) : l \in m}
  BY DEF ModelsUnder
<1>2. ModelsUnder(L \cup {-l}) = {m \in ModelsUnder(L) : -l \in m}
  BY DEF ModelsUnder
<1>3. \A m \in ModelsUnder(L) : -l \in m <=> l \notin m
  BY LiteralInModel DEF ModelsUnder
<1> QED
  BY <1>1, <1>2, <1>3

-----------------------------------------------------------------------------
(* Cubes *)

CubeType == [lits : SUBSET Literals, vars : SUBSET Vars, unknown : SUBSET problem.ign]

\* The unknown clauses and the undecided variables are those the literals leave.
CubeExact(cube) ==
  /\ cube \in CubeType
  /\ cube.unknown = {c \in problem.ign : c \cap cube.lits = {}}
  /\ cube.vars = {VarOf(l) : l \in UNION problem.ign} \ {VarOf(l) : l \in cube.lits}

\* Clauses hold literals, and there are finitely many of them.
LEMMA ClauseFacts ==
  ASSUME problem \in Problems
  PROVE  /\ problem.ign \in SUBSET SUBSET Literals
         /\ problem.smp \in SUBSET SUBSET Literals
         /\ problem.ign \subseteq problem.smp
         /\ IsFiniteSet(problem.ign)
<1>1. /\ problem \in [smp : SUBSET SUBSET Literals, ign : SUBSET SUBSET Literals]
      /\ problem.ign \subseteq problem.smp /\ IsFiniteSet(problem.smp)
  BY ProblemAssumption
<1>2. IsFiniteSet(problem.ign)
  BY <1>1, FS_Subset
<1> QED
  BY <1>1, <1>2

LEMMA EmptyCubeFacts ==
  ASSUME problem \in Problems
  PROVE  CubeExact(EmptyCube(problem)) /\ EmptyCube(problem).lits = {}
<1>1. \A l \in UNION problem.ign : VarOf(l) \in Vars
  BY ClauseFacts, LiteralFacts
<1>2. EmptyCube(problem) \in CubeType
  BY <1>1 DEF EmptyCube, CubeType
<1> QED
  BY <1>2 DEF EmptyCube, CubeExact

\* insert keeps a cube exact.
LEMMA InsertFacts ==
  ASSUME NEW cube, CubeExact(cube), NEW L \in SUBSET Literals
  PROVE  CubeExact(Insert(cube, L)) /\ Insert(cube, L).lits = cube.lits \cup L
<1> DEFINE new == Insert(cube, L)
<1>1. cube \in CubeType
  BY DEF CubeExact
<1>2. new.lits = cube.lits \cup L /\ new.vars = cube.vars \ {VarOf(l) : l \in L}
      /\ new.unknown = {c \in cube.unknown : c \cap L = {}}
  BY DEF Insert
<1>3. new \in CubeType
  BY <1>1 DEF Insert, CubeType
<1>4. new.unknown = {c \in problem.ign : c \cap new.lits = {}}
  BY <1>2 DEF CubeExact
<1>5. {VarOf(l) : l \in new.lits} = {VarOf(l) : l \in cube.lits} \cup {VarOf(l) : l \in L}
  BY <1>2
<1>6. new.vars = {VarOf(l) : l \in UNION problem.ign} \ {VarOf(l) : l \in new.lits}
  BY <1>2, <1>5 DEF CubeExact
<1> QED
  BY <1>2, <1>3, <1>4, <1>6 DEF CubeExact

\* An entry of the queue has a number for a weight.
LEMMA EntryFacts ==
  ASSUME problem \in Problems, NEW cube \in CubeType, NEW num \in Nat
  PROVE  Entry(num, cube) \in [id : Nat, weight : Nat] /\ Entry(num, cube).id = num
<1>1. IsFiniteSet(cube.unknown)
  BY ClauseFacts, FS_Subset DEF CubeType
<1> QED
  BY <1>1, FS_CardinalityType DEF Entry

-----------------------------------------------------------------------------
(* The sequence of the cubes and the queue *)

\* A function over the first numbers is a sequence.
LEMMA FunctionIsSeq ==
  ASSUME NEW S, NEW n \in Nat, NEW f \in [1 .. n -> S]
  PROVE  f \in Seq(S)
BY SeqDef

\* One cube is replaced, and perhaps another one is added.
LEMMA CutSeq ==
  ASSUME NEW S, NEW seq \in Seq(S), NEW i \in DOMAIN seq, NEW p \in S, NEW n \in S
  PROVE  LET r == [seq EXCEPT ![i] = p]
             t == Append(r, n)
         IN  /\ r \in Seq(S) /\ Len(r) = Len(seq) /\ DOMAIN r = 1 .. Len(seq)
             /\ \A j \in 1 .. Len(seq) : r[j] = IF j = i THEN p ELSE seq[j]
             /\ t \in Seq(S) /\ Len(t) = Len(seq) + 1 /\ DOMAIN t = 1 .. Len(seq) + 1
             /\ \A j \in 1 .. Len(seq) : t[j] = IF j = i THEN p ELSE seq[j]
             /\ t[Len(seq) + 1] = n
<1> DEFINE r == [seq EXCEPT ![i] = p]
           t == Append(r, n)
<1>1. i \in 1 .. Len(seq) /\ Len(seq) \in Nat
  BY LenProperties
<1>2. /\ r \in Seq(S) /\ Len(r) = Len(seq)
      /\ \A j \in 1 .. Len(seq) : r[j] = IF j = i THEN p ELSE seq[j]
  BY <1>1, ExceptSeq
<1> HIDE DEF r
<1>3. DOMAIN r = 1 .. Len(seq)
  BY <1>2, LenProperties
<1>4. /\ t \in Seq(S) /\ Len(t) = Len(r) + 1
      /\ \A j \in 1 .. Len(r) : t[j] = r[j]
      /\ t[Len(r) + 1] = n
  BY <1>2, AppendProperties
<1> HIDE DEF t
<1>5. DOMAIN t = 1 .. Len(seq) + 1
  BY <1>2, <1>4, LenProperties
<1>6. /\ r \in Seq(S) /\ Len(r) = Len(seq) /\ DOMAIN r = 1 .. Len(seq)
      /\ \A j \in 1 .. Len(seq) : r[j] = IF j = i THEN p ELSE seq[j]
      /\ t \in Seq(S) /\ Len(t) = Len(seq) + 1 /\ DOMAIN t = 1 .. Len(seq) + 1
      /\ \A j \in 1 .. Len(seq) : t[j] = IF j = i THEN p ELSE seq[j]
      /\ t[Len(seq) + 1] = n
  BY <1>2, <1>3, <1>4, <1>5
<1> QED
  BY <1>6 DEF r, t

\* An entry is taken out of the queue, wherever it stands.
LEMMA PoppedSeq ==
  ASSUME NEW S, NEW q \in Seq(S), NEW k \in DOMAIN q
  PROVE  LET w == SubSeq(q, 1, k - 1) \o SubSeq(q, k + 1, Len(q))
         IN  /\ w \in Seq(S) /\ Len(w) = Len(q) - 1
             /\ \A j \in 1 .. Len(q) - 1 : w[j] = IF j < k THEN q[j] ELSE q[j + 1]
<1> DEFINE a == SubSeq(q, 1, k - 1)
           b == SubSeq(q, k + 1, Len(q))
<1>1. k \in 1 .. Len(q) /\ Len(q) \in Nat /\ \A j \in 1 .. Len(q) : q[j] \in S
  BY LenProperties, ElementOfSeq
<1>2. /\ a \in Seq(S) /\ Len(a) = k - 1
      /\ \A j \in 1 .. k - 1 : a[j] = q[j]
  <2>1. /\ a \in Seq(S) /\ Len(a) = IF 1 <= k - 1 THEN k - 1 - 1 + 1 ELSE 0
        /\ \A j \in 1 .. k - 1 - 1 + 1 : a[j] = q[1 + j - 1]
    BY <1>1, SubSeqProperties
  <2> HIDE DEF a
  <2> QED
    BY <1>1, <2>1
<1>3. /\ b \in Seq(S) /\ Len(b) = Len(q) - k
      /\ \A j \in 1 .. Len(q) - k : b[j] = q[k + j]
  <2>1. /\ b \in Seq(S) /\ Len(b) = IF k + 1 <= Len(q) THEN Len(q) - (k + 1) + 1 ELSE 0
        /\ \A j \in 1 .. Len(q) - (k + 1) + 1 : b[j] = q[k + 1 + j - 1]
    BY <1>1, SubSeqProperties
  <2> HIDE DEF b
  <2> QED
    BY <1>1, <2>1
<1> HIDE DEF a, b
<1>4. /\ a \o b \in Seq(S) /\ Len(a \o b) = Len(a) + Len(b)
      /\ \A j \in 1 .. Len(a) + Len(b) :
           (a \o b)[j] = IF j <= Len(a) THEN a[j] ELSE b[j - Len(a)]
  BY <1>2, <1>3, ConcatProperties
<1>5. /\ a \o b \in Seq(S) /\ Len(a \o b) = Len(q) - 1
      /\ \A j \in 1 .. Len(q) - 1 : (a \o b)[j] = IF j < k THEN q[j] ELSE q[j + 1]
  <2> DEFINE w == a \o b
  <2>1. w \in Seq(S) /\ Len(w) = Len(q) - 1
    BY <1>1, <1>2, <1>3, <1>4
  <2>2. ASSUME NEW j \in 1 .. Len(q) - 1 PROVE w[j] = IF j < k THEN q[j] ELSE q[j + 1]
    <3>1. w[j] = IF j <= k - 1 THEN a[j] ELSE b[j - (k - 1)]
      <4>1. j \in 1 .. Len(a) + Len(b)
        BY <1>1, <1>2, <1>3
      <4>2. w[j] = IF j <= Len(a) THEN a[j] ELSE b[j - Len(a)]
        BY <1>4, <4>1
      <4> QED
        BY <1>2, <4>2
    <3> HIDE DEF w
    <3>2. CASE j < k
      BY <1>1, <1>2, <3>1, <3>2
    <3>3. CASE j >= k
      <4>1. j - (k - 1) \in 1 .. Len(q) - k /\ k + (j - (k - 1)) = j + 1
        BY <1>1, <3>3
      <4> QED
        BY <1>1, <1>3, <3>1, <3>3, <4>1
    <3> QED
      BY <1>1, <3>2, <3>3
  <2> QED
    BY <2>1, <2>2
<1> QED
  BY <1>5 DEF a, b

\* Every cube of c is in the queue q once, with its current weight.
QueueExact(q, c) ==
  /\ q \in Seq([id : Nat, weight : Nat]) /\ Len(q) = Len(c)
  /\ \A k \in 1 .. Len(q) : q[k].id \in 1 .. Len(c) /\ q[k] = Entry(q[k].id, c[q[k].id])
  /\ \A j, k \in 1 .. Len(q) : q[j].id = q[k].id => j = k
  /\ \A i \in 1 .. Len(c) : \E k \in 1 .. Len(q) : q[k].id = i

\* What is left of the queue holds the other cubes once each.
LEMMA RestFacts ==
  ASSUME cubes \in Seq(CubeType), QueueExact(queue, cubes), NEW k \in DOMAIN queue
  PROVE  LET w == Without(k)
             num == queue[k].id
             Q == Len(cubes)
         IN  /\ Q \in Nat \ {0} /\ num \in 1 .. Q
             /\ w \in Seq([id : Nat, weight : Nat]) /\ Len(w) = Q - 1
             /\ \A j \in 1 .. Q - 1 :
                  w[j].id \in 1 .. Q /\ w[j].id # num /\ w[j] = Entry(w[j].id, cubes[w[j].id])
             /\ \A i, j \in 1 .. Q - 1 : w[i].id = w[j].id => i = j
             /\ \A i \in 1 .. Q : i # num => \E j \in 1 .. Q - 1 : w[j].id = i
<1> DEFINE w == Without(k)
           num == queue[k].id
           Q == Len(cubes)
           at(j) == IF j < k THEN j ELSE j + 1
<1>0. queue \in Seq([id : Nat, weight : Nat]) /\ Len(queue) = Q
  BY DEF QueueExact
<1>1. Q \in Nat /\ Len(queue) = Q /\ k \in 1 .. Q
  BY <1>0, LenProperties
<1>2. /\ w \in Seq([id : Nat, weight : Nat]) /\ Len(w) = Q - 1
      /\ \A j \in 1 .. Q - 1 : w[j] = queue[at(j)]
  <2>1. /\ w \in Seq([id : Nat, weight : Nat]) /\ Len(w) = Len(queue) - 1
        /\ \A j \in 1 .. Len(queue) - 1 : w[j] = IF j < k THEN queue[j] ELSE queue[j + 1]
    BY <1>0, PoppedSeq DEF Without
  <2> HIDE DEF w
  <2> QED
    BY <1>1, <2>1
<1> HIDE DEF w
<1>3. num \in 1 .. Q
  BY <1>1 DEF QueueExact
<1>4. \A j \in 1 .. Q - 1 : at(j) \in 1 .. Q /\ at(j) # k
  BY <1>1
<1>5. \A i, j \in 1 .. Q - 1 : at(i) = at(j) => i = j
  BY <1>1
<1>6. \A i \in 1 .. Q : i # k => \E j \in 1 .. Q - 1 : at(j) = i
  <2> SUFFICES ASSUME NEW i \in 1 .. Q, i # k PROVE \E j \in 1 .. Q - 1 : at(j) = i
    OBVIOUS
  <2>1. CASE i < k
    BY <1>1, <2>1
  <2>2. CASE i > k
    <3>1. i - 1 \in 1 .. Q - 1 /\ at(i - 1) = i
      BY <1>1, <2>2
    <3> QED
      BY <3>1
  <2> QED
    BY <1>1, <2>1, <2>2
<1> HIDE DEF at
<1>7. \A j \in 1 .. Q - 1 :
        w[j].id \in 1 .. Q /\ w[j].id # num /\ w[j] = Entry(w[j].id, cubes[w[j].id])
  <2>1. \A h \in 1 .. Q : queue[h].id \in 1 .. Q
                           /\ queue[h] = Entry(queue[h].id, cubes[queue[h].id])
    BY <1>1 DEF QueueExact
  <2>2. \A h \in 1 .. Q : queue[h].id = num => h = k
    BY <1>1 DEF QueueExact
  <2> TAKE j \in 1 .. Q - 1
  <2>3. at(j) \in 1 .. Q /\ at(j) # k /\ w[j] = queue[at(j)]
    BY <1>2, <1>4
  <2> HIDE DEF num
  <2> QED
    BY <2>1, <2>2, <2>3
<1>8. ASSUME NEW i \in 1 .. Q - 1, NEW j \in 1 .. Q - 1, w[i].id = w[j].id PROVE i = j
  <2>1. \A h, g \in 1 .. Q : queue[h].id = queue[g].id => h = g
    BY <1>1 DEF QueueExact
  <2>2. queue[at(i)].id = queue[at(j)].id
    BY <1>2, <1>8
  <2>3. at(i) = at(j)
    BY <1>4, <2>1, <2>2
  <2> QED
    BY <1>5, <2>3
<1>9. ASSUME NEW i \in 1 .. Q, i # num PROVE \E j \in 1 .. Q - 1 : w[j].id = i
  <2>1. PICK h \in 1 .. Q : queue[h].id = i
    BY <1>1 DEF QueueExact
  <2>2. PICK j \in 1 .. Q - 1 : at(j) = h
    BY <1>6, <1>9, <2>1
  <2> QED
    BY <1>2, <2>1, <2>2
<1> QED
  BY <1>1, <1>2, <1>3, <1>7, <1>8, <1>9 DEF w

\* The cube taken from the queue is changed and queued again.
LEMMA RequeueOne ==
  ASSUME problem \in Problems, cubes \in Seq(CubeType), QueueExact(queue, cubes),
         NEW k \in DOMAIN queue, NEW p \in CubeType
  PROVE  QueueExact(Append(Without(k), Entry(queue[k].id, p)),
                    [cubes EXCEPT ![queue[k].id] = p])
<1> DEFINE w == Without(k)
           num == queue[k].id
           Q == Len(cubes)
           c == [cubes EXCEPT ![num] = p]
           e == Entry(num, p)
           q == Append(w, e)
<1>1. /\ Q \in Nat \ {0} /\ num \in 1 .. Q
      /\ w \in Seq([id : Nat, weight : Nat]) /\ Len(w) = Q - 1
      /\ \A j \in 1 .. Q - 1 :
           w[j].id \in 1 .. Q /\ w[j].id # num /\ w[j] = Entry(w[j].id, cubes[w[j].id])
      /\ \A i, j \in 1 .. Q - 1 : w[i].id = w[j].id => i = j
      /\ \A i \in 1 .. Q : i # num => \E j \in 1 .. Q - 1 : w[j].id = i
  BY RestFacts
<1> HIDE DEF w, num
<1>2. Q \in Nat \ {0} /\ num \in 1 .. Q /\ Q - 1 \in Nat
  BY <1>1
<1>3. w \in Seq([id : Nat, weight : Nat]) /\ Len(w) = Q - 1
  BY <1>1
<1>4. Len(c) = Q /\ \A j \in 1 .. Q : c[j] = IF j = num THEN p ELSE cubes[j]
  <2>1. num \in DOMAIN cubes
    BY <1>2, LenProperties
  <2> QED
    BY <2>1, CutSeq
<1> HIDE DEF c
<1>5. e \in [id : Nat, weight : Nat] /\ e.id = num
  BY <1>2, EntryFacts
<1>6. e = Entry(num, c[num])
  BY <1>2, <1>4
<1> HIDE DEF e, Q
<1>7. /\ q \in Seq([id : Nat, weight : Nat]) /\ Len(q) = Q
      /\ (\A j \in 1 .. Q - 1 : q[j] = w[j]) /\ q[Q] = e
  <2>1. /\ q \in Seq([id : Nat, weight : Nat]) /\ Len(q) = Len(w) + 1
        /\ (\A j \in 1 .. Len(w) : q[j] = w[j]) /\ q[Len(w) + 1] = e
    BY <1>3, <1>5, AppendProperties
  <2>2. Len(w) + 1 = Q
    BY <1>2, <1>3
  <2> HIDE DEF q
  <2> QED
    BY <1>3, <2>1, <2>2
<1> HIDE DEF q
<1>8. \A j \in 1 .. Q : j \in 1 .. Q - 1 \/ j = Q
  BY <1>2
<1>9. \A j \in 1 .. Q : q[j].id \in 1 .. Q /\ q[j] = Entry(q[j].id, c[q[j].id])
  <2> TAKE j \in 1 .. Q
  <2>1. CASE j = Q
    BY <1>2, <1>5, <1>6, <1>7, <2>1
  <2>2. CASE j \in 1 .. Q - 1
    <3>1. /\ w[j].id \in 1 .. Q /\ w[j].id # num
          /\ w[j] = Entry(w[j].id, cubes[w[j].id])
      BY <1>1, <2>2 DEF Q
    <3>2. \A i \in 1 .. Q : i # num => c[i] = cubes[i]
      BY <1>4 DEF Q
    <3>3. c[w[j].id] = cubes[w[j].id]
      BY <3>1, <3>2
    <3>4. q[j] = w[j]
      BY <1>7, <2>2
    <3>5. w[j] = Entry(w[j].id, c[w[j].id])
      BY <3>1, <3>3
    <3> QED
      BY <3>1, <3>4, <3>5
  <2> QED
    BY <1>8, <2>1, <2>2
<1>10. \A i, j \in 1 .. Q : q[i].id = q[j].id => i = j
  <2>1. \A j \in 1 .. Q - 1 : q[j].id # num
    BY <1>1, <1>7 DEF Q
  <2>2. q[Q].id = num
    BY <1>5, <1>7
  <2>3. \A i, j \in 1 .. Q - 1 : q[i].id = q[j].id => i = j
    BY <1>1, <1>7 DEF Q
  <2> TAKE i, j \in 1 .. Q
  <2> QED
    BY <1>8, <2>1, <2>2, <2>3
<1>11. \A i \in 1 .. Q : \E j \in 1 .. Q : q[j].id = i
  <2> TAKE i \in 1 .. Q
  <2>1. Q \in 1 .. Q /\ 1 .. Q - 1 \subseteq 1 .. Q
    BY <1>2
  <2>2. CASE i = num
    BY <1>5, <1>7, <2>1, <2>2
  <2>3. CASE i # num
    <3>1. PICK j \in 1 .. Q - 1 : w[j].id = i
      BY <1>1, <2>3 DEF Q
    <3>2. q[j] = w[j]
      BY <1>7
    <3>3. j \in 1 .. Q /\ q[j].id = i
      BY <2>1, <3>1, <3>2
    <3> QED
      BY <3>3
  <2> QED
    BY <2>2, <2>3
<1>12. QueueExact(q, c)
  BY <1>4, <1>7, <1>9, <1>10, <1>11 DEF QueueExact
<1> QED
  BY <1>12 DEF q, e, c, w, num, Q

\* The cube taken from the queue is cut in two, and both are queued.
LEMMA RequeueTwo ==
  ASSUME problem \in Problems, cubes \in Seq(CubeType), QueueExact(queue, cubes),
         NEW k \in DOMAIN queue, NEW p \in CubeType, NEW n \in CubeType
  PROVE  QueueExact(Without(k) \o <<Entry(queue[k].id, p), Entry(Len(cubes) + 1, n)>>,
                    Append([cubes EXCEPT ![queue[k].id] = p], n))
<1> DEFINE w == Without(k)
           num == queue[k].id
           Q == Len(cubes)
           c == Append([cubes EXCEPT ![num] = p], n)
           e == Entry(num, p)
           f == Entry(Q + 1, n)
           q == w \o <<e, f>>
<1>1. /\ Q \in Nat \ {0} /\ num \in 1 .. Q
      /\ w \in Seq([id : Nat, weight : Nat]) /\ Len(w) = Q - 1
      /\ \A j \in 1 .. Q - 1 :
           w[j].id \in 1 .. Q /\ w[j].id # num /\ w[j] = Entry(w[j].id, cubes[w[j].id])
      /\ \A i, j \in 1 .. Q - 1 : w[i].id = w[j].id => i = j
      /\ \A i \in 1 .. Q : i # num => \E j \in 1 .. Q - 1 : w[j].id = i
  BY RestFacts
<1> HIDE DEF w, num
<1>2. Q \in Nat \ {0} /\ num \in 1 .. Q /\ Q - 1 \in Nat /\ Q + 1 \in Nat
  BY <1>1
<1>3. w \in Seq([id : Nat, weight : Nat]) /\ Len(w) = Q - 1
  BY <1>1
<1>4. /\ Len(c) = Q + 1
      /\ \A j \in 1 .. Q : c[j] = IF j = num THEN p ELSE cubes[j]
      /\ c[Q + 1] = n
  <2>1. num \in DOMAIN cubes
    BY <1>2, LenProperties
  <2> QED
    BY <2>1, CutSeq
<1> HIDE DEF c
<1>5. /\ e \in [id : Nat, weight : Nat] /\ e.id = num
      /\ f \in [id : Nat, weight : Nat] /\ f.id = Q + 1
  BY <1>2, EntryFacts
<1>6. e = Entry(num, c[num]) /\ f = Entry(Q + 1, c[Q + 1])
  BY <1>2, <1>4
<1> HIDE DEF e, f, Q
<1>7. /\ q \in Seq([id : Nat, weight : Nat]) /\ Len(q) = Q + 1
      /\ (\A j \in 1 .. Q - 1 : q[j] = w[j]) /\ q[Q] = e /\ q[Q + 1] = f
  <2> DEFINE d == <<e, f>>
  <2>1. d \in Seq([id : Nat, weight : Nat]) /\ Len(d) = 2 /\ d[1] = e /\ d[2] = f
    BY <1>5
  <2> HIDE DEF d
  <2>2. /\ w \o d \in Seq([id : Nat, weight : Nat]) /\ Len(w \o d) = Len(w) + Len(d)
        /\ \A j \in 1 .. Len(w) + Len(d) :
             (w \o d)[j] = IF j <= Len(w) THEN w[j] ELSE d[j - Len(w)]
    BY <1>3, <2>1, ConcatProperties
  <2>3. /\ w \o d \in Seq([id : Nat, weight : Nat]) /\ Len(w \o d) = Q + 1
        /\ \A j \in 1 .. Q + 1 :
             (w \o d)[j] = IF j <= Q - 1 THEN w[j] ELSE d[j - (Q - 1)]
    <3>1. Len(w) + Len(d) = Q + 1
      BY <1>2, <1>3, <2>1
    <3> QED
      BY <1>3, <2>2, <3>1
  <2> DEFINE r == w \o d
  <2>4. r \in Seq([id : Nat, weight : Nat]) /\ Len(r) = Q + 1
        /\ \A j \in 1 .. Q + 1 : r[j] = IF j <= Q - 1 THEN w[j] ELSE d[j - (Q - 1)]
    BY <2>3
  <2> HIDE DEF r
  <2>5. \A j \in 1 .. Q - 1 : r[j] = w[j]
    BY <1>2, <2>4
  <2>6. r[Q] = d[1]
    <3>1. Q \in 1 .. Q + 1 /\ ~(Q <= Q - 1) /\ Q - (Q - 1) = 1
      BY <1>2
    <3> QED
      BY <2>4, <3>1
  <2>7. r[Q + 1] = d[2]
    <3> DEFINE j == Q + 1
    <3>1. j \in 1 .. Q + 1 /\ ~(j <= Q - 1) /\ j - (Q - 1) = 2
      BY <1>2
    <3> HIDE DEF j
    <3>2. r[j] = d[j - (Q - 1)]
      BY <2>4, <3>1
    <3> QED
      BY <3>1, <3>2 DEF j
  <2>8. q = r
    BY DEF d, r
  <2> QED
    BY <2>1, <2>4, <2>5, <2>6, <2>7, <2>8
<1> HIDE DEF q
<1>8. \A j \in 1 .. Q + 1 : j \in 1 .. Q - 1 \/ j = Q \/ j = Q + 1
  BY <1>2
<1>9. \A j \in 1 .. Q + 1 : q[j].id \in 1 .. Q + 1 /\ q[j] = Entry(q[j].id, c[q[j].id])
  <2> TAKE j \in 1 .. Q + 1
  <2>1. 1 .. Q \subseteq 1 .. Q + 1 /\ Q + 1 \in 1 .. Q + 1
    BY <1>2
  <2>2. CASE j = Q
    BY <1>2, <1>5, <1>6, <1>7, <2>1, <2>2
  <2>3. CASE j = Q + 1
    BY <1>5, <1>6, <1>7, <2>1, <2>3
  <2>4. CASE j \in 1 .. Q - 1
    <3>1. /\ w[j].id \in 1 .. Q /\ w[j].id # num
          /\ w[j] = Entry(w[j].id, cubes[w[j].id])
      BY <1>1, <2>4 DEF Q
    <3>2. c[w[j].id] = cubes[w[j].id]
      <4>1. \A i \in 1 .. Q : i # num => c[i] = cubes[i]
        BY <1>4 DEF Q
      <4> QED
        BY <3>1, <4>1
    <3>3. q[j] = w[j]
      BY <1>7, <2>4
    <3>4. w[j] = Entry(w[j].id, c[w[j].id])
      BY <3>1, <3>2
    <3>5. w[j].id \in 1 .. Q + 1
      BY <2>1, <3>1
    <3> QED
      BY <3>3, <3>4, <3>5
  <2> QED
    BY <1>8, <2>2, <2>3, <2>4
<1>10. \A i, j \in 1 .. Q + 1 : q[i].id = q[j].id => i = j
  <2>1. \A j \in 1 .. Q - 1 : q[j].id \in 1 .. Q /\ q[j].id # num
    BY <1>1, <1>7 DEF Q
  <2>2. q[Q].id = num /\ q[Q + 1].id = Q + 1 /\ Q + 1 \notin 1 .. Q /\ num # Q + 1
    BY <1>2, <1>5, <1>7
  <2>3. \A i, j \in 1 .. Q - 1 : q[i].id = q[j].id => i = j
    BY <1>1, <1>7 DEF Q
  <2> TAKE i, j \in 1 .. Q + 1
  <2> QED
    BY <1>8, <2>1, <2>2, <2>3
<1>11. \A i \in 1 .. Q + 1 : \E j \in 1 .. Q + 1 : q[j].id = i
  <2> TAKE i \in 1 .. Q + 1
  <2>1. Q \in 1 .. Q + 1 /\ Q + 1 \in 1 .. Q + 1 /\ 1 .. Q - 1 \subseteq 1 .. Q + 1
        /\ (i \in 1 .. Q \/ i = Q + 1)
    BY <1>2
  <2>2. CASE i = num
    BY <1>5, <1>7, <2>1, <2>2
  <2>3. CASE i = Q + 1
    BY <1>5, <1>7, <2>1, <2>3
  <2>4. CASE i # num /\ i \in 1 .. Q
    <3>1. PICK j \in 1 .. Q - 1 : w[j].id = i
      BY <1>1, <2>4 DEF Q
    <3>2. q[j] = w[j]
      BY <1>7
    <3>3. j \in 1 .. Q + 1 /\ q[j].id = i
      BY <2>1, <3>1, <3>2
    <3> QED
      BY <3>3
  <2> QED
    BY <2>1, <2>2, <2>3, <2>4
<1>12. QueueExact(q, c)
  BY <1>4, <1>7, <1>9, <1>10, <1>11 DEF QueueExact
<1> QED
  BY <1>12 DEF q, e, f, c, w, num, Q

-----------------------------------------------------------------------------
(* The inductive invariant *)

\* The models are cut into cells: one for every model, and none is empty unless there is
\* no model at all.
Cells(c) ==
  /\ \A m \in Models : \E i \in DOMAIN c : c[i].lits \subseteq m
  /\ \A m \in Models : \A i, j \in DOMAIN c :
       c[i].lits \subseteq m /\ c[j].lits \subseteq m => i = j
  /\ Models # {} => \A i \in DOMAIN c : ModelsUnder(c[i].lits) # {}

InputsInv ==
  /\ problem \in Problems /\ limit \in Limits
  /\ pc \in {"compile", "done", "aborted"} /\ timedOut \in BOOLEAN

CubesInv ==
  /\ cubes \in Seq(CubeType)
  /\ \A i \in DOMAIN cubes : CubeExact(cubes[i])
  /\ QueueExact(queue, cubes)
  /\ Cells(cubes)

EndInv ==
  /\ pc = "aborted" => Models = {}
  /\ Len(cubes) <= limit \/ Len(cubes) = 1
  /\ pc = "done" /\ ~timedOut /\ Len(cubes) < limit =>
       \A i \in DOMAIN cubes : cubes[i].unknown = {}

IInv == InputsInv /\ CubesInv /\ EndInv

\* The entries of the queue name cubes.
LEMMA EntryInDomain ==
  ASSUME CubesInv, NEW k \in DOMAIN queue
  PROVE  queue[k].id \in DOMAIN cubes
<1>1. k \in 1 .. Len(queue) /\ DOMAIN cubes = 1 .. Len(cubes)
  <2>1. queue \in Seq([id : Nat, weight : Nat])
    BY DEF CubesInv, QueueExact
  <2>2. cubes \in Seq(CubeType)
    BY DEF CubesInv
  <2> QED
    BY <2>1, <2>2, LenProperties
<1>2. \A j \in 1 .. Len(queue) : queue[j].id \in 1 .. Len(cubes)
  BY DEF CubesInv, QueueExact
<1> QED
  BY <1>1, <1>2

\* What a cut does: the cube of entry k falls into the models with v and those without.
LEMMA SplitFacts ==
  ASSUME InputsInv, CubesInv, NEW k \in DOMAIN queue, NEW v \in Vars, Split(k, v)
  PROVE  LET num == queue[k].id
             cell == ModelsUnder(cubes[num].lits)
         IN  /\ num \in DOMAIN cubes
             /\ \E p, n \in CubeType :
                  /\ CubeExact(p) /\ CubeExact(n)
                  /\ ModelsUnder(p.lits) = {m \in cell : v \in m}
                  /\ ModelsUnder(n.lits) = {m \in cell : v \notin m}
                  /\ ModelsUnder(p.lits) # {} /\ ModelsUnder(n.lits) # {}
                  /\ cubes' = Append([cubes EXCEPT ![num] = p], n)
                  /\ queue' = Without(k) \o <<Entry(num, p), Entry(Len(cubes) + 1, n)>>
<1> DEFINE num == queue[k].id
           lits == cubes[num].lits
           cell == ModelsUnder(lits)
<1>1. num \in DOMAIN cubes
  BY EntryInDomain
<1>2. CubeExact(cubes[num]) /\ lits \in SUBSET Literals
  BY <1>1 DEF CubesInv, CubeExact, CubeType
<1>3. /\ Satisfiable(lits \cup {v}) /\ Satisfiable(lits \cup {-v})
      /\ \E P \in Implicants(lits \cup {v}), Q \in Implicants(lits \cup {-v}) :
           SplitInto(k, P \ lits, Q \ lits)
  BY DEF Split
<1>4. PICK P \in Implicants(lits \cup {v}), Q \in Implicants(lits \cup {-v}) :
        SplitInto(k, P \ lits, Q \ lits)
  BY <1>3
<1> DEFINE p == Insert(cubes[num], P \ lits)
           n == Insert(cubes[num], Q \ lits)
<1>5. /\ cubes' = Append([cubes EXCEPT ![num] = p], n)
      /\ queue' = Without(k) \o <<Entry(num, p), Entry(Len(cubes) + 1, n)>>
  BY <1>4 DEF SplitInto
<1>6. v \in Literals /\ -v \in Literals
  BY VarFacts
<1>7. /\ lits \cup {v} \in SUBSET Literals /\ lits \cup {-v} \in SUBSET Literals
      /\ ModelsUnder(lits \cup {v}) = {m \in cell : v \in m}
      /\ ModelsUnder(lits \cup {-v}) = {m \in cell : v \notin m}
  BY <1>2, <1>6, DecisionFacts
<1>8. /\ P \in SUBSET Literals /\ lits \subseteq P
      /\ ModelsUnder(P) = ModelsUnder(lits \cup {v})
  BY <1>4, <1>7, ImplicantFacts
<1>9. /\ Q \in SUBSET Literals /\ lits \subseteq Q
      /\ ModelsUnder(Q) = ModelsUnder(lits \cup {-v})
  BY <1>4, <1>7, ImplicantFacts
<1>10. CubeExact(p) /\ p.lits = P
  <2>1. CubeExact(p) /\ p.lits = lits \cup (P \ lits)
    BY <1>2, <1>8, InsertFacts
  <2> HIDE DEF p
  <2> QED
    BY <1>8, <2>1
<1>11. CubeExact(n) /\ n.lits = Q
  <2>1. CubeExact(n) /\ n.lits = lits \cup (Q \ lits)
    BY <1>2, <1>9, InsertFacts
  <2> HIDE DEF n
  <2> QED
    BY <1>9, <2>1
<1> HIDE DEF p, n
<1>12. p \in CubeType /\ n \in CubeType
  BY <1>10, <1>11 DEF CubeExact
<1>13. /\ ModelsUnder(p.lits) = {m \in cell : v \in m}
       /\ ModelsUnder(n.lits) = {m \in cell : v \notin m}
  BY <1>7, <1>8, <1>9, <1>10, <1>11
<1>14. ModelsUnder(p.lits) # {} /\ ModelsUnder(n.lits) # {}
  BY <1>3, <1>8, <1>9, <1>10, <1>11 DEF Satisfiable
<1> QED
  BY <1>1, <1>5, <1>10, <1>11, <1>12, <1>13, <1>14

\* What a forced decision does: the cube keeps its models.
LEMMA ExtendFacts ==
  ASSUME InputsInv, CubesInv, NEW k \in DOMAIN queue, NEW v \in Vars, Extend(k, v)
  PROVE  LET num == queue[k].id
         IN  /\ num \in DOMAIN cubes
             /\ \E p \in CubeType :
                  /\ CubeExact(p)
                  /\ ModelsUnder(p.lits) = ModelsUnder(cubes[num].lits)
                  /\ cubes' = [cubes EXCEPT ![num] = p]
                  /\ queue' = Append(Without(k), Entry(num, p))
<1> DEFINE num == queue[k].id
           lits == cubes[num].lits
           cell == ModelsUnder(lits)
<1>1. num \in DOMAIN cubes
  BY EntryInDomain
<1>2. CubeExact(cubes[num]) /\ lits \in SUBSET Literals
  BY <1>1 DEF CubesInv, CubeExact, CubeType
<1>0. PICK l \in {v, -v} :
        /\ ~Satisfiable(lits \cup {-l})
        /\ \E P \in Implicants(lits \cup {l}) :
             /\ cubes' = [cubes EXCEPT ![num] = Insert(@, P)]
             /\ queue' = Append(Without(k), Entry(num, cubes'[num]))
  BY DEF Extend
<1>3. PICK P \in Implicants(lits \cup {l}) :
        /\ cubes' = [cubes EXCEPT ![num] = Insert(@, P)]
        /\ queue' = Append(Without(k), Entry(num, cubes'[num]))
  BY <1>0
<1> DEFINE p == Insert(cubes[num], P)
<1>4. cubes' = [cubes EXCEPT ![num] = p]
  BY <1>3
<1>5. l \in Literals
  BY VarFacts
<1>6. /\ lits \cup {l} \in SUBSET Literals
      /\ ModelsUnder(lits \cup {l}) = {m \in cell : l \in m}
      /\ ModelsUnder(lits \cup {-l}) = {m \in cell : l \notin m}
  BY <1>2, <1>5, DecisionFacts
<1>7. /\ P \in SUBSET Literals /\ lits \subseteq P
      /\ ModelsUnder(P) = ModelsUnder(lits \cup {l})
  BY <1>3, <1>6, ImplicantFacts
<1>8. CubeExact(p) /\ p.lits = P
  <2>1. CubeExact(p) /\ p.lits = lits \cup P
    BY <1>2, <1>7, InsertFacts
  <2> HIDE DEF p
  <2> QED
    BY <1>7, <2>1
<1> HIDE DEF p
<1>9. p \in CubeType
  BY <1>8 DEF CubeExact
<1>10. ModelsUnder(p.lits) = cell
  <2>1. \A m \in cell : l \in m
    BY <1>0, <1>6 DEF Satisfiable
  <2> QED
    BY <1>6, <1>7, <1>8, <2>1
<1>11. cubes'[num] = p
  BY <1>1, <1>4 DEF CubesInv
<1>12. queue' = Append(Without(k), Entry(num, p))
  BY <1>3, <1>11
<1> QED
  BY <1>1, <1>4, <1>8, <1>9, <1>10, <1>12

\* The cells after a cut.
LEMMA CellsCut ==
  ASSUME CubesInv, NEW i \in DOMAIN cubes, NEW p \in CubeType, NEW n \in CubeType,
         NEW l,
         ModelsUnder(p.lits) = {m \in ModelsUnder(cubes[i].lits) : l \in m},
         ModelsUnder(n.lits) = {m \in ModelsUnder(cubes[i].lits) : l \notin m},
         ModelsUnder(p.lits) # {}, ModelsUnder(n.lits) # {}
  PROVE  Cells(Append([cubes EXCEPT ![i] = p], n))
<1> DEFINE c == Append([cubes EXCEPT ![i] = p], n)
           Q == Len(cubes)
<1>1. /\ DOMAIN c = 1 .. Q + 1 /\ DOMAIN cubes = 1 .. Q /\ Q \in Nat
      /\ \A j \in 1 .. Q : c[j] = IF j = i THEN p ELSE cubes[j]
      /\ c[Q + 1] = n
  <2>1. cubes \in Seq(CubeType)
    BY DEF CubesInv
  <2> QED
    BY <2>1, CutSeq, LenProperties
<1> HIDE DEF c, Q
<1>2. /\ 1 .. Q + 1 = (1 .. Q) \cup {Q + 1} /\ Q + 1 \notin 1 .. Q
      /\ i \in 1 .. Q
  BY <1>1
<1>3. c[i] = p /\ c[Q + 1] = n /\ \A j \in 1 .. Q : j # i => c[j] = cubes[j]
  BY <1>1, <1>2
<1>4. Cells(cubes)
  BY DEF CubesInv
<1>5. \A m \in Models : p.lits \subseteq m <=> (cubes[i].lits \subseteq m /\ l \in m)
  BY DEF ModelsUnder
<1>6. \A m \in Models : n.lits \subseteq m <=> (cubes[i].lits \subseteq m /\ l \notin m)
  BY DEF ModelsUnder
<1>7. ASSUME NEW m \in Models PROVE \E j \in DOMAIN c : c[j].lits \subseteq m
  <2>1. PICK h \in 1 .. Q : cubes[h].lits \subseteq m
    BY <1>1, <1>4 DEF Cells
  <2>2. CASE h # i
    BY <1>1, <1>2, <1>3, <2>1, <2>2
  <2>3. CASE h = i /\ l \in m
    BY <1>1, <1>2, <1>3, <1>5, <2>1, <2>3
  <2>4. CASE h = i /\ l \notin m
    BY <1>1, <1>2, <1>3, <1>6, <2>1, <2>4
  <2> QED
    BY <2>2, <2>3, <2>4
<1>8. ASSUME NEW m \in Models, NEW g \in DOMAIN c, NEW h \in DOMAIN c,
             c[g].lits \subseteq m, c[h].lits \subseteq m
      PROVE  g = h
  <2> DEFINE from(j) == IF j = Q + 1 THEN i ELSE j
  <2>1. \A j \in DOMAIN c : c[j].lits \subseteq m =>
          from(j) \in 1 .. Q /\ cubes[from(j)].lits \subseteq m
    <3> TAKE j \in DOMAIN c
    <3>1. CASE j = i
      BY <1>2, <1>3, <1>5, <3>1
    <3>2. CASE j = Q + 1
      BY <1>2, <1>3, <1>6, <3>2
    <3>3. CASE j # i /\ j \in 1 .. Q
      BY <1>2, <1>3, <3>3
    <3> QED
      BY <1>1, <1>2, <3>1, <3>2, <3>3
  <2>2. from(g) = from(h)
    <3>1. /\ from(g) \in 1 .. Q /\ cubes[from(g)].lits \subseteq m
          /\ from(h) \in 1 .. Q /\ cubes[from(h)].lits \subseteq m
      BY <1>8, <2>1
    <3> HIDE DEF from
    <3> QED
      BY <1>1, <1>4, <3>1 DEF Cells
  <2>3. CASE g = i /\ h = Q + 1
    BY <1>3, <1>5, <1>6, <1>8, <2>3
  <2>4. CASE g = Q + 1 /\ h = i
    BY <1>3, <1>5, <1>6, <1>8, <2>4
  <2> QED
    BY <2>2, <2>3, <2>4
<1>9. ASSUME Models # {}, NEW j \in DOMAIN c PROVE ModelsUnder(c[j].lits) # {}
  BY <1>1, <1>2, <1>3, <1>4, <1>9 DEF Cells
<1>10. Cells(c)
  BY <1>7, <1>8, <1>9 DEF Cells
<1> QED
  BY <1>10 DEF c

\* The cells are what they were when a cube keeps its models.
LEMMA CellsKept ==
  ASSUME CubesInv, NEW i \in DOMAIN cubes, NEW p \in CubeType,
         ModelsUnder(p.lits) = ModelsUnder(cubes[i].lits)
  PROVE  Cells([cubes EXCEPT ![i] = p])
<1> DEFINE c == [cubes EXCEPT ![i] = p]
<1>1. DOMAIN c = DOMAIN cubes /\ \A j \in DOMAIN c : c[j] = IF j = i THEN p ELSE cubes[j]
  BY DEF CubesInv
<1> HIDE DEF c
<1>2. \A m \in Models : p.lits \subseteq m <=> cubes[i].lits \subseteq m
  BY DEF ModelsUnder
<1>3. \A m \in Models : \A j \in DOMAIN c : c[j].lits \subseteq m <=> cubes[j].lits \subseteq m
  BY <1>1, <1>2
<1>4. \A j \in DOMAIN c : ModelsUnder(c[j].lits) = ModelsUnder(cubes[j].lits)
  BY <1>1
<1>5. Cells(cubes)
  BY DEF CubesInv
<1>6. Cells(c)
  BY <1>1, <1>3, <1>4, <1>5 DEF Cells
<1> QED
  BY <1>6 DEF c

-----------------------------------------------------------------------------
(* Decisions *)

\* Of numbers below a bound one is the greatest.
LEMMA GreatestExists ==
  ASSUME NEW S, S # {}, NEW Q \in Nat, NEW f, \A x \in S : f[x] \in 0 .. Q
  PROVE  \E x \in S : \A y \in S : f[y] <= f[x]
<1> DEFINE T == {Q - f[x] : x \in S}
<1>1. T \subseteq Nat /\ T # {}
  BY SMT
<1>2. PICK t \in T : \A u \in T : ~ (<<u, t>> \in OpToRel(<, Nat))
  BY <1>1, NatLessThanWellFounded, WFMin
<1>3. \A u \in T : ~ (u < t)
  BY <1>1, <1>2 DEF OpToRel
<1>4. PICK x \in S : t = Q - f[x]
  BY <1>2
<1>5. ASSUME NEW y \in S PROVE f[y] <= f[x]
  <2>1. Q - f[y] \in T
    OBVIOUS
  <2>2. ~ (Q - f[y] < Q - f[x])
    BY <1>3, <1>4, <2>1
  <2> QED
    BY <2>2
<1> QED
  BY <1>5

\* A cube that has a model and an unknown clause has a variable to decide: the model
\* satisfies the clause by a literal whose variable the cube leaves undecided.
LEMMA DecisionExists ==
  ASSUME InputsInv, NEW cube, CubeExact(cube), cube.unknown # {},
         ModelsUnder(cube.lits) # {}
  PROVE  Decisions(cube) # {} /\ Decisions(cube) \subseteq Vars
<1> DEFINE undecided == cube.vars \cup {-v : v \in cube.vars}
           f == [l \in undecided |-> Occurrences(cube, l)]
           S == {l \in undecided : Occurrences(cube, l) > 0}
<1>1. problem \in Problems /\ cube.vars \subseteq Vars
  BY DEF InputsInv, CubeExact, CubeType
<1>2. undecided \subseteq Literals
  BY <1>1, VarFacts
<1>3. IsFiniteSet(cube.unknown)
  BY <1>1, ClauseFacts, FS_Subset DEF CubeExact, CubeType
<1>4. \A l : /\ IsFiniteSet({c \in cube.unknown : l \in c})
             /\ Occurrences(cube, l) \in 0 .. Cardinality(cube.unknown)
             /\ Cardinality(cube.unknown) \in Nat
  <2> TAKE l
  <2>1. {c \in cube.unknown : l \in c} \in SUBSET cube.unknown
    OBVIOUS
  <2>2. /\ IsFiniteSet({c \in cube.unknown : l \in c})
        /\ Cardinality({c \in cube.unknown : l \in c}) <= Cardinality(cube.unknown)
    BY <1>3, <2>1, FS_Subset
  <2>3. /\ Cardinality({c \in cube.unknown : l \in c}) \in Nat
        /\ Cardinality(cube.unknown) \in Nat
    BY <1>3, <2>2, FS_CardinalityType
  <2> QED
    BY <2>2, <2>3 DEF Occurrences
<1>5. PICK c \in cube.unknown, m \in ModelsUnder(cube.lits) : TRUE
  OBVIOUS
<1>6. c \in problem.ign /\ c \cap cube.lits = {}
  BY <1>5 DEF CubeExact
<1>7. PICK l \in c : l \in m
  BY <1>1, <1>5, <1>6, ClauseFacts DEF ModelsUnder, Models
<1>8. l \in Literals
  BY <1>1, <1>6, <1>7, ClauseFacts
<1>9. VarOf(l) \in cube.vars
  <2>1. VarOf(l) \in {VarOf(h) : h \in UNION problem.ign}
    BY <1>6, <1>7
  <2>2. ASSUME VarOf(l) \in {VarOf(h) : h \in cube.lits} PROVE FALSE
    <3>1. PICK h \in cube.lits : VarOf(h) = VarOf(l)
      BY <2>2
    <3>2. h \in Literals
      BY <3>1 DEF CubeExact, CubeType
    <3>3. h # l
      BY <1>6, <1>7, <3>1
    <3>4. h = -l
      BY <1>8, <3>1, <3>2, <3>3, LiteralFacts
    <3>5. h \in m /\ m \in Models
      BY <1>5, <3>1 DEF ModelsUnder
    <3> QED
      BY <1>7, <1>8, <3>4, <3>5, LiteralInModel
  <2> QED
    BY <2>1, <2>2 DEF CubeExact
<1>10. l \in undecided
  BY <1>8, <1>9, LiteralFacts
<1>11. Occurrences(cube, l) > 0
  <2>1. c \in {d \in cube.unknown : l \in d}
    BY <1>5, <1>7
  <2>2. Cardinality({d \in cube.unknown : l \in d}) # 0
    BY <1>4, <2>1, FS_EmptySet
  <2> QED
    BY <1>4, <2>2 DEF Occurrences
<1>12. PICK k \in undecided : \A j \in undecided : Occurrences(cube, j) <= Occurrences(cube, k)
  <2>1. undecided # {}
    BY <1>10
  <2>2. \A x \in undecided : f[x] \in 0 .. Cardinality(cube.unknown)
    BY <1>4
  <2>3. Cardinality(cube.unknown) \in Nat
    BY <1>4
  <2> HIDE DEF f
  <2>4. \E x \in undecided : \A y \in undecided : f[y] <= f[x]
    BY <2>1, <2>2, <2>3, GreatestExists
  <2> QED
    BY <2>4 DEF f
<1>13. Occurrences(cube, k) > 0
  <2>1. Occurrences(cube, l) <= Occurrences(cube, k)
    BY <1>10, <1>12
  <2>2. Occurrences(cube, l) \in Int /\ Occurrences(cube, k) \in Int
    <3>1. \A j : Occurrences(cube, j) \in 0 .. Cardinality(cube.unknown)
      BY <1>4
    <3> QED
      BY <3>1, <1>4
  <2> QED
    BY <1>11, <2>1, <2>2
<1>14. VarOf(k) \in Decisions(cube)
  BY <1>12, <1>13 DEF Decisions
<1>15. Decisions(cube) \subseteq Vars
  <2>1. Decisions(cube) \subseteq {VarOf(j) : j \in undecided}
    BY Zenon DEF Decisions
  <2>2. \A j \in undecided : VarOf(j) \in Vars
    BY <1>2, LiteralFacts
  <2> HIDE DEF undecided
  <2> QED
    BY <2>1, <2>2
<1> QED
  BY <1>14, <1>15

-----------------------------------------------------------------------------
(* The invariant is inductive *)

\* The steps leave the formula alone, and so what is said of the cubes.
LEMMA Frame ==
  ASSUME problem' = problem,
         cubes' \in Seq(CubeType), \A i \in DOMAIN cubes' : CubeExact(cubes'[i]),
         QueueExact(queue', cubes'), Cells(cubes')
  PROVE  CubesInv'
<1>1. CubeType' = CubeType
  BY DEF CubeType
<1>2. \A cube : CubeExact(cube)' <=> CubeExact(cube)
  BY <1>1 DEF CubeExact
<1>3. Models' = Models /\ \A L : ModelsUnder(L)' = ModelsUnder(L)
  BY DEF Models, ModelsUnder
<1>4. Cells(cubes)'
  BY <1>3 DEF Cells
<1>5. (\A i \in DOMAIN cubes : CubeExact(cubes[i]))'
  BY <1>2
<1>6. QueueExact(queue, cubes)'
  BY DEF QueueExact, Entry
<1> QED
  BY <1>1, <1>4, <1>5, <1>6 DEF CubesInv

\* One cube, all models.
LEMMA InitInv == Init => IInv
<1> SUFFICES ASSUME Init PROVE IInv
  OBVIOUS
<1>1. InputsInv
  BY DEF Init, InputsInv
<1>2. PICK L \in Implicants({}) : cubes = <<Insert(EmptyCube(problem), L)>>
  BY DEF Init
<1>3. L \in SUBSET Literals /\ ModelsUnder(L) = ModelsUnder({})
  BY ImplicantFacts
<1> DEFINE p == Insert(EmptyCube(problem), L)
<1>4. CubeExact(p) /\ p.lits = L
  <2>1. CubeExact(EmptyCube(problem)) /\ EmptyCube(problem).lits = {}
    BY <1>1, EmptyCubeFacts DEF InputsInv
  <2>2. CubeExact(p) /\ p.lits = EmptyCube(problem).lits \cup L
    BY <1>3, <2>1, InsertFacts
  <2> HIDE DEF p
  <2> QED
    BY <2>1, <2>2
<1> HIDE DEF p
<1>5. cubes = <<p>> /\ queue = <<Entry(1, p)>>
  BY <1>2 DEF Init, p
<1>6. p \in CubeType
  BY <1>4 DEF CubeExact
<1>7. cubes \in Seq(CubeType) /\ Len(cubes) = 1 /\ DOMAIN cubes = {1} /\ cubes[1] = p
  <2>1. <<p>> \in Seq(CubeType) /\ Len(<<p>>) = 1 /\ <<p>>[1] = p
    BY <1>6
  <2>2. DOMAIN <<p>> = 1 .. 1
    BY <2>1, LenProperties
  <2> QED
    BY <1>5, <2>1, <2>2
<1>8. QueueExact(queue, cubes)
  <2>1. Entry(1, p) \in [id : Nat, weight : Nat] /\ Entry(1, p).id = 1
    BY <1>1, <1>6, EntryFacts DEF InputsInv
  <2>2. queue \in Seq([id : Nat, weight : Nat]) /\ Len(queue) = 1 /\ queue[1] = Entry(1, p)
    BY <1>5, <2>1
  <2> QED
    BY <1>7, <2>1, <2>2 DEF QueueExact
<1>9. Cells(cubes)
  <2>1. \A m \in Models : L \subseteq m
    BY <1>3 DEF ModelsUnder
  <2>2. ModelsUnder(L) = Models
    BY <2>1 DEF ModelsUnder
  <2> QED
    BY <1>4, <1>7, <2>1, <2>2 DEF Cells
<1>10. CubesInv
  BY <1>4, <1>7, <1>8, <1>9 DEF CubesInv
<1>11. EndInv
  BY <1>7 DEF EndInv, Init
<1> QED
  BY <1>1, <1>10, <1>11 DEF IInv

LEMMA SplitInv ==
  ASSUME IInv, NEW k \in DOMAIN queue, NEW v \in Vars, Split(k, v)
  PROVE  IInv'
<1> DEFINE num == queue[k].id
<1>1. InputsInv /\ CubesInv /\ EndInv
  BY DEF IInv
<1>2. num \in DOMAIN cubes
  BY <1>1, EntryInDomain
<1>3. PICK p \in CubeType, n \in CubeType :
        /\ CubeExact(p) /\ CubeExact(n)
        /\ ModelsUnder(p.lits) = {m \in ModelsUnder(cubes[num].lits) : v \in m}
        /\ ModelsUnder(n.lits) = {m \in ModelsUnder(cubes[num].lits) : v \notin m}
        /\ ModelsUnder(p.lits) # {} /\ ModelsUnder(n.lits) # {}
        /\ cubes' = Append([cubes EXCEPT ![num] = p], n)
        /\ queue' = Without(k) \o <<Entry(num, p), Entry(Len(cubes) + 1, n)>>
  BY <1>1, SplitFacts
<1>4. /\ problem' = problem /\ limit' = limit
      /\ pc' \in {"compile", "done"} /\ timedOut' = (pc' = "done")
      /\ Len(queue) < limit
  BY DEF Split, GoOn, Popped
<1>5. problem \in Problems /\ cubes \in Seq(CubeType) /\ QueueExact(queue, cubes)
  BY <1>1 DEF InputsInv, CubesInv
<1>6. /\ cubes' \in Seq(CubeType) /\ Len(cubes') = Len(cubes) + 1
      /\ DOMAIN cubes' = 1 .. Len(cubes) + 1
      /\ \A j \in 1 .. Len(cubes) : cubes'[j] = IF j = num THEN p ELSE cubes[j]
      /\ cubes'[Len(cubes) + 1] = n
  BY <1>2, <1>3, <1>5, CutSeq
<1>7. \A j \in DOMAIN cubes' : CubeExact(cubes'[j])
  <2>1. DOMAIN cubes = 1 .. Len(cubes) /\ Len(cubes) \in Nat
    BY <1>5, LenProperties
  <2>2. \A j \in 1 .. Len(cubes) : CubeExact(cubes[j])
    BY <1>1, <2>1 DEF CubesInv
  <2>3. \A j \in 1 .. Len(cubes) + 1 : j \in 1 .. Len(cubes) \/ j = Len(cubes) + 1
    BY <2>1
  <2> QED
    BY <1>3, <1>6, <2>2, <2>3
<1>8. QueueExact(queue', cubes')
  BY <1>3, <1>5, RequeueTwo
<1>9. Cells(cubes')
  BY <1>1, <1>2, <1>3, CellsCut
<1>10. CubesInv'
  BY <1>4, <1>6, <1>7, <1>8, <1>9, Frame
<1>11. InputsInv'
  <2>1. timedOut' \in BOOLEAN
    BY <1>4
  <2> QED
    BY <1>1, <1>4, <2>1 DEF InputsInv
<1>12. EndInv'
  <2>1. Len(cubes') <= limit'
    <3>1. Len(queue) = Len(cubes) /\ Len(cubes) \in Nat
      BY <1>5, LenProperties DEF QueueExact
    <3>2. limit \in Nat
      BY <1>1, ProblemAssumption DEF InputsInv
    <3> QED
      BY <1>4, <1>6, <3>1, <3>2
  <2>2. pc' # "aborted" /\ ~(pc' = "done" /\ ~timedOut')
    BY <1>4
  <2> QED
    BY <2>1, <2>2 DEF EndInv
<1> QED
  BY <1>10, <1>11, <1>12 DEF IInv

LEMMA ExtendInv ==
  ASSUME IInv, NEW k \in DOMAIN queue, NEW v \in Vars, Extend(k, v)
  PROVE  IInv'
<1> DEFINE num == queue[k].id
<1>1. InputsInv /\ CubesInv /\ EndInv
  BY DEF IInv
<1>2. num \in DOMAIN cubes
  BY <1>1, EntryInDomain
<1>3. PICK p \in CubeType :
        /\ CubeExact(p)
        /\ ModelsUnder(p.lits) = ModelsUnder(cubes[num].lits)
        /\ cubes' = [cubes EXCEPT ![num] = p]
        /\ queue' = Append(Without(k), Entry(num, p))
  BY <1>1, ExtendFacts
<1>4. /\ problem' = problem /\ limit' = limit
      /\ pc' \in {"compile", "done"} /\ timedOut' = (pc' = "done")
  BY DEF Extend, GoOn, Popped
<1>5. problem \in Problems /\ cubes \in Seq(CubeType) /\ QueueExact(queue, cubes)
  BY <1>1 DEF InputsInv, CubesInv
<1>6. /\ cubes' \in Seq(CubeType) /\ Len(cubes') = Len(cubes)
      /\ DOMAIN cubes' = DOMAIN cubes
      /\ \A j \in DOMAIN cubes : cubes'[j] = IF j = num THEN p ELSE cubes[j]
  <2>1. DOMAIN cubes = 1 .. Len(cubes)
    BY <1>5, LenProperties
  <2> QED
    BY <1>2, <1>3, <1>5, <2>1, CutSeq
<1>7. \A j \in DOMAIN cubes' : CubeExact(cubes'[j])
  BY <1>1, <1>3, <1>6 DEF CubesInv
<1>8. QueueExact(queue', cubes')
  BY <1>3, <1>5, RequeueOne
<1>9. Cells(cubes')
  BY <1>1, <1>2, <1>3, CellsKept
<1>10. CubesInv'
  BY <1>4, <1>6, <1>7, <1>8, <1>9, Frame
<1>11. InputsInv'
  <2>1. timedOut' \in BOOLEAN
    BY <1>4
  <2> QED
    BY <1>1, <1>4, <2>1 DEF InputsInv
<1>12. EndInv'
  <2>1. Len(cubes') <= limit' \/ Len(cubes') = 1
    BY <1>1, <1>4, <1>6 DEF EndInv
  <2>2. pc' # "aborted" /\ ~(pc' = "done" /\ ~timedOut')
    BY <1>4
  <2> QED
    BY <2>1, <2>2 DEF EndInv
<1> QED
  BY <1>10, <1>11, <1>12 DEF IInv

\* An assertion fails on an unsatisfiable formula only.
LEMMA AbortInv ==
  ASSUME IInv, NEW k \in DOMAIN queue, Abort(k)
  PROVE  IInv'
<1> DEFINE cube == cubes[queue[k].id]
<1>1. InputsInv /\ CubesInv /\ EndInv
  BY DEF IInv
<1>2. /\ UNCHANGED <<problem, limit, cubes, queue, timedOut>> /\ pc' = "aborted"
      /\ cube.unknown # {}
      /\ \/ Decisions(cube) = {}
         \/ \E v \in Decisions(cube) :
              ~Satisfiable(cube.lits \cup {v}) /\ ~Satisfiable(cube.lits \cup {-v})
  BY DEF Abort, Popped
<1>3. CubesInv'
  BY <1>1, <1>2, Frame DEF CubesInv
<1>4. InputsInv'
  BY <1>1, <1>2 DEF InputsInv
<1>5. Models = {}
  <2> SUFFICES ASSUME Models # {} PROVE FALSE
    OBVIOUS
  <2>1. queue[k].id \in DOMAIN cubes
    BY <1>1, EntryInDomain
  <2>2. CubeExact(cube) /\ ModelsUnder(cube.lits) # {} /\ cube.lits \in SUBSET Literals
    BY <1>1, <2>1 DEF CubesInv, Cells, CubeExact, CubeType
  <2>3. Decisions(cube) # {} /\ Decisions(cube) \subseteq Vars
    BY <1>1, <1>2, <2>2, DecisionExists
  <2>4. PICK v \in Decisions(cube) :
          ~Satisfiable(cube.lits \cup {v}) /\ ~Satisfiable(cube.lits \cup {-v})
    BY <1>2, <2>3
  <2>5. v \in Literals
    BY <2>3, <2>4, VarFacts
  <2>6. /\ {m \in ModelsUnder(cube.lits) : v \in m} = {}
        /\ {m \in ModelsUnder(cube.lits) : v \notin m} = {}
    BY <2>2, <2>4, <2>5, DecisionFacts DEF Satisfiable
  <2> QED
    BY <2>2, <2>6
<1>6. Models' = {}
  BY <1>2, <1>5 DEF Models
<1>7. EndInv'
  BY <1>1, <1>2, <1>6 DEF EndInv
<1> QED
  BY <1>3, <1>4, <1>7 DEF IInv

\* The top of the queue has the most unknown clauses: when it has none, no cube has any.
LEMMA StopInv == IInv /\ Stop => IInv'
<1> SUFFICES ASSUME IInv, Stop PROVE IInv'
  OBVIOUS
<1>1. InputsInv /\ CubesInv /\ EndInv
  BY DEF IInv
<1>2. /\ UNCHANGED <<problem, limit, cubes, queue, timedOut>> /\ pc' = "done"
      /\ \/ Len(queue) >= limit
         \/ \E k \in DOMAIN queue : IsTop(k) /\ cubes[queue[k].id].unknown = {}
  BY DEF Stop
<1>3. CubesInv'
  BY <1>1, <1>2, Frame DEF CubesInv
<1>4. InputsInv'
  BY <1>1, <1>2 DEF InputsInv
<1>5. problem \in Problems /\ cubes \in Seq(CubeType) /\ QueueExact(queue, cubes)
  BY <1>1 DEF InputsInv, CubesInv
<1>6. /\ DOMAIN queue = 1 .. Len(queue) /\ DOMAIN cubes = 1 .. Len(cubes)
      /\ Len(queue) = Len(cubes) /\ Len(cubes) \in Nat
  <2>1. queue \in Seq([id : Nat, weight : Nat])
    BY <1>5 DEF QueueExact
  <2> QED
    BY <1>5, <2>1, LenProperties DEF QueueExact
<1>7. ASSUME Len(cubes) < limit, NEW i \in DOMAIN cubes PROVE cubes[i].unknown = {}
  <2>1. limit \in Nat
    BY <1>1, ProblemAssumption DEF InputsInv
  <2>2. PICK k \in DOMAIN queue : IsTop(k) /\ cubes[queue[k].id].unknown = {}
    BY <1>2, <1>6, <1>7, <2>1
  <2>3. PICK j \in DOMAIN queue : queue[j].id = i
    BY <1>5, <1>6 DEF QueueExact
  <2>4. queue[k].weight = 0
    <3>1. queue[k] = Entry(queue[k].id, cubes[queue[k].id])
      BY <1>5, <1>6 DEF QueueExact
    <3>2. queue[k].weight = Cardinality(cubes[queue[k].id].unknown)
      BY <3>1 DEF Entry
    <3> QED
      BY <2>2, <3>2, FS_EmptySet
  <2>5. queue[j].weight = Cardinality(cubes[i].unknown)
    <3>1. queue[j] = Entry(i, cubes[i])
      BY <1>5, <1>6, <2>3 DEF QueueExact
    <3> QED
      BY <3>1 DEF Entry
  <2>6. queue[j].weight <= queue[k].weight
    BY <2>2 DEF IsTop
  <2>7. IsFiniteSet(cubes[i].unknown)
    <3>1. cubes[i] \in CubeType
      BY <1>5
    <3> QED
      BY <1>5, <3>1, ClauseFacts, FS_Subset DEF CubeType
  <2>8. Cardinality(cubes[i].unknown) = 0
    BY <2>4, <2>5, <2>6, <2>7, FS_CardinalityType
  <2> QED
    BY <2>7, <2>8, FS_EmptySet
<1>8. EndInv'
  BY <1>1, <1>2, <1>7 DEF EndInv
<1> QED
  BY <1>3, <1>4, <1>8 DEF IInv

LEMMA NextInv == IInv /\ [Next]_vars => IInv'
<1> SUFFICES ASSUME IInv, [Next]_vars PROVE IInv'
  OBVIOUS
<1>1. CASE Stop
  BY <1>1, StopInv
<1>2. ASSUME NEW k \in DOMAIN queue, Abort(k) PROVE IInv'
  BY <1>2, AbortInv
<1>3. ASSUME NEW k \in DOMAIN queue, NEW v \in Vars, Split(k, v) PROVE IInv'
  BY <1>3, SplitInv
<1>4. ASSUME NEW k \in DOMAIN queue, NEW v \in Vars, Extend(k, v) PROVE IInv'
  BY <1>4, ExtendInv
<1>5. CASE UNCHANGED vars
  <2>1. UNCHANGED <<problem, limit, cubes, queue, pc, timedOut>>
    BY <1>5 DEF vars
  <2>2. InputsInv /\ CubesInv /\ EndInv
    BY DEF IInv
  <2>3. CubesInv'
    BY <2>1, <2>2, Frame DEF CubesInv
  <2>4. InputsInv'
    BY <2>1, <2>2 DEF InputsInv
  <2>5. EndInv'
    <3>1. Models' = Models
      BY <2>1 DEF Models
    <3> QED
      BY <2>1, <2>2, <3>1 DEF EndInv
  <2> QED
    BY <2>3, <2>4, <2>5 DEF IInv
<1> QED
  BY <1>1, <1>2, <1>3, <1>4, <1>5 DEF Next

THEOREM Invariance == Spec => []IInv
BY InitInv, NextInv, PTL DEF Spec

-----------------------------------------------------------------------------
(* The theorems *)

\* Whatever the solver answers and whenever the clock stops the loop, every model of the
\* formula satisfies exactly one cube.  (compiler.hpp:52-90)
THEOREM CubesAlwaysDisjoint == Spec => []OneCubePerModel
<1>1. IInv => OneCubePerModel
  <2> SUFFICES ASSUME IInv, NEW m \in Models
               PROVE  Cardinality({i \in DOMAIN cubes : cubes[i].lits \subseteq m}) = 1
    BY DEF OneCubePerModel
  <2>1. Cells(cubes)
    BY DEF IInv, CubesInv
  <2>2. PICK i \in DOMAIN cubes : cubes[i].lits \subseteq m
    BY <2>1 DEF Cells
  <2>3. {j \in DOMAIN cubes : cubes[j].lits \subseteq m} = {i}
    BY <2>1, <2>2 DEF Cells
  <2> QED
    BY <2>3, FS_Singleton
<1> QED
  BY <1>1, Invariance, PTL

\* The queue and the cubes agree, although a cube changes after it was cloned and queued.
\* (cubes.cpp:145-165, compiler.hpp:68-113)
THEOREM BookkeepingAlwaysExact == Spec => []BookkeepingExact
<1>1. IInv => BookkeepingExact
  <2> SUFFICES ASSUME IInv PROVE BookkeepingExact
    OBVIOUS
  <2>1. /\ problem \in Problems /\ limit \in Limits
        /\ pc \in {"compile", "done", "aborted"} /\ timedOut \in BOOLEAN
    BY DEF IInv, InputsInv
  <2>2. cubes \in Seq(CubeType) /\ QueueExact(queue, cubes)
    BY DEF IInv, CubesInv
  <2>3. queue \in Seq([id : Nat, weight : Nat])
    BY <2>2 DEF QueueExact
  <2>4. /\ Len(queue) = Len(cubes) /\ Len(queue) \in Nat
        /\ queue \in [1 .. Len(queue) -> [id : Nat, weight : Nat]]
        /\ DOMAIN queue = 1 .. Len(queue) /\ DOMAIN cubes = 1 .. Len(cubes)
    BY <2>2, <2>3, LenProperties DEF QueueExact
  <2>5. queue \in Seq([id : DOMAIN cubes, weight : Nat])
    <3>1. \A k \in 1 .. Len(queue) : queue[k] \in [id : DOMAIN cubes, weight : Nat]
      <4> TAKE k \in 1 .. Len(queue)
      <4>1. queue[k] \in [id : Nat, weight : Nat]
        BY <2>4
      <4>2. queue[k].id \in DOMAIN cubes
        BY <2>2, <2>4 DEF QueueExact
      <4> QED
        BY <4>1, <4>2
    <3>2. queue \in [1 .. Len(queue) -> [id : DOMAIN cubes, weight : Nat]]
      BY <2>4, <3>1
    <3> QED
      BY <2>4, <3>2, FunctionIsSeq
  <2>6. TypeOK
    BY <2>1, <2>2, <2>5 DEF TypeOK, CubeType
  <2>7. ASSUME NEW i \in DOMAIN cubes
        PROVE  \E k \in DOMAIN queue : queue[k] = Entry(i, cubes[i])
    <3>1. PICK k \in DOMAIN queue : queue[k].id = i
      BY <2>2, <2>4 DEF QueueExact
    <3>2. queue[k] = Entry(queue[k].id, cubes[queue[k].id])
      BY <2>2, <2>4 DEF QueueExact
    <3> QED
      BY <3>1, <3>2
  <2>8. \A i \in DOMAIN cubes : CubeExact(cubes[i])
    BY DEF IInv, CubesInv
  <2> QED
    BY <2>4, <2>6, <2>7, <2>8 DEF BookkeepingExact, CubeExact
<1> QED
  BY <1>1, Invariance, PTL

\* No assertion of the generator fails on a satisfiable formula, and a loop that ends by
\* itself leaves no clause of .ign unknown.  (compiler.hpp:40-93, heuristics.hpp:595-601)
THEOREM AlwaysComplete == Spec => []Complete
<1>1. IInv => Complete
  <2> SUFFICES ASSUME IInv PROVE Complete
    OBVIOUS
  <2>1. EndInv /\ \A i \in DOMAIN cubes : CubeExact(cubes[i])
    BY DEF IInv, CubesInv
  <2>2. ASSUME pc = "done", ~timedOut, Len(cubes) < limit,
               NEW i \in DOMAIN cubes, NEW c \in problem.ign
        PROVE  c \cap cubes[i].lits # {}
    <3>1. cubes[i].unknown = {}
      BY <2>1, <2>2 DEF EndInv
    <3> QED
      BY <2>1, <3>1 DEF CubeExact
  <2> QED
    BY <2>1, <2>2 DEF Complete, EndInv
<1> QED
  BY <1>1, Invariance, PTL

Partition == {ModelsUnder(cubes[i].lits) : i \in DOMAIN cubes}

\* Two decisions with a model cut the cell of a cube, and no other cube has that cell.
LEMMA SplitCuts ==
  ASSUME IInv, NEW k \in DOMAIN queue, NEW v \in Vars, Split(k, v)
  PROVE  MP!CutNext
<1> DEFINE num == queue[k].id
           c == ModelsUnder(cubes[num].lits)
           a == {m \in c : v \in m}
           Q == Len(cubes)
<1>1. InputsInv /\ CubesInv
  BY DEF IInv
<1>2. num \in DOMAIN cubes
  BY <1>1, EntryInDomain
<1>3. PICK p \in CubeType, n \in CubeType :
        /\ CubeExact(p) /\ CubeExact(n)
        /\ ModelsUnder(p.lits) = a
        /\ ModelsUnder(n.lits) = {m \in c : v \notin m}
        /\ ModelsUnder(p.lits) # {} /\ ModelsUnder(n.lits) # {}
        /\ cubes' = Append([cubes EXCEPT ![num] = p], n)
        /\ queue' = Without(k) \o <<Entry(num, p), Entry(Q + 1, n)>>
  BY <1>1, SplitFacts
<1>4. problem' = problem
  BY DEF Split, GoOn
<1>5. /\ DOMAIN cubes' = 1 .. Q + 1 /\ DOMAIN cubes = 1 .. Q /\ Q \in Nat
      /\ \A j \in 1 .. Q : cubes'[j] = IF j = num THEN p ELSE cubes[j]
      /\ cubes'[Q + 1] = n
  <2>1. cubes \in Seq(CubeType)
    BY <1>1 DEF CubesInv
  <2> QED
    BY <1>2, <1>3, <2>1, CutSeq, LenProperties
<1>6. \A j \in DOMAIN cubes : j # num => ModelsUnder(cubes[j].lits) # c
  <2>1. PICK m \in c : TRUE
    BY <1>3
  <2>2. m \in Models /\ cubes[num].lits \subseteq m
    BY DEF ModelsUnder
  <2>3. Cells(cubes)
    BY <1>1 DEF CubesInv
  <2> QED
    BY <1>2, <2>1, <2>2, <2>3 DEF Cells, ModelsUnder
<1>7. Models' = Models /\ \A L : ModelsUnder(L)' = ModelsUnder(L)
  BY <1>4 DEF Models, ModelsUnder
<1>8. c \ a = {m \in c : v \notin m} /\ c \in Partition /\ a \in SUBSET c
  BY <1>2 DEF Partition
<1> DEFINE d == c \ a
           new == {ModelsUnder(cubes'[j].lits) : j \in DOMAIN cubes'}
<1>9. Partition' = new
  BY <1>7 DEF Partition
<1> HIDE DEF Q
<1>10. 1 .. Q + 1 = (1 .. Q) \cup {Q + 1}
  BY <1>5
<1>11. new = (Partition \ {c}) \cup {a, d}
  <2>1. ModelsUnder(cubes'[num].lits) = a /\ ModelsUnder(cubes'[Q + 1].lits) = d
    BY <1>2, <1>3, <1>5, <1>8
  <2>2. \A j \in DOMAIN cubes : j # num => cubes'[j] = cubes[j]
    BY <1>5
  <2>3. DOMAIN cubes' = DOMAIN cubes \cup {Q + 1}
    BY <1>5, <1>10
  <2> HIDE DEF c, a, d
  <2>4. ASSUME NEW x \in new PROVE x \in (Partition \ {c}) \cup {a, d}
    <3>1. PICK j \in DOMAIN cubes' : x = ModelsUnder(cubes'[j].lits)
      OBVIOUS
    <3>2. CASE j = num \/ j = Q + 1
      BY <2>1, <3>1, <3>2
    <3>3. CASE j # num /\ j \in DOMAIN cubes
      BY <1>6, <2>2, <3>1, <3>3 DEF Partition
    <3> QED
      BY <2>3, <3>2, <3>3
  <2>5. ASSUME NEW x \in (Partition \ {c}) \cup {a, d} PROVE x \in new
    <3>1. CASE x \in {a, d}
      BY <1>2, <2>1, <2>3, <3>1
    <3>2. CASE x \in Partition \ {c}
      <4>1. PICK j \in DOMAIN cubes : x = ModelsUnder(cubes[j].lits)
        BY <3>2 DEF Partition
      <4>2. j # num
        BY <3>2, <4>1 DEF c
      <4> QED
        BY <2>2, <2>3, <4>1, <4>2
    <3> QED
      BY <3>1, <3>2
  <2> QED
    BY <2>4, <2>5
<1>12. a # {} /\ a # c
  BY <1>3, <1>8
<1>13. MP!Cut(c, a)
  BY <1>7, <1>9, <1>11, <1>12 DEF MP!Cut, Partition
<1> QED
  BY <1>8, <1>13 DEF MP!CutNext, Partition

\* A forced decision and the end of the loop leave the cells alone.
LEMMA OtherStepsStutter ==
  ASSUME IInv,
         \/ Stop \/ UNCHANGED vars
         \/ \E k \in DOMAIN queue : Abort(k) \/ \E v \in Vars : Extend(k, v)
  PROVE  UNCHANGED MP!cutVars
<1>1. CASE UNCHANGED <<problem, cubes>>
  <2>1. Models' = Models /\ \A L : ModelsUnder(L)' = ModelsUnder(L)
    BY <1>1 DEF Models, ModelsUnder
  <2> QED
    BY <1>1, <2>1 DEF MP!cutVars
<1>2. ASSUME NEW k \in DOMAIN queue, NEW v \in Vars, Extend(k, v)
      PROVE  UNCHANGED MP!cutVars
  <2>1. InputsInv /\ CubesInv
    BY DEF IInv
  <2>2. PICK p \in CubeType :
          /\ ModelsUnder(p.lits) = ModelsUnder(cubes[queue[k].id].lits)
          /\ cubes' = [cubes EXCEPT ![queue[k].id] = p]
    BY <1>2, <2>1, ExtendFacts
  <2>3. problem' = problem
    BY <1>2 DEF Extend, GoOn
  <2>4. Models' = Models /\ \A L : ModelsUnder(L)' = ModelsUnder(L)
    BY <2>3 DEF Models, ModelsUnder
  <2>5. DOMAIN cubes' = DOMAIN cubes
        /\ \A j \in DOMAIN cubes : ModelsUnder(cubes'[j].lits) = ModelsUnder(cubes[j].lits)
    BY <2>1, <2>2 DEF CubesInv
  <2> QED
    BY <2>4, <2>5 DEF MP!cutVars
<1>3. ASSUME Stop \/ UNCHANGED vars \/ \E k \in DOMAIN queue : Abort(k)
      PROVE  UNCHANGED <<problem, cubes>>
  BY <1>3 DEF Stop, Abort, vars
<1> QED
  BY <1>1, <1>2, <1>3

\* The generator implements ModelPartition: whatever it decides, it cuts the models of
\* the formula cell by cell, and no cell is empty.
THEOREM CutsThePartition == Spec => ImplementsPartition
<1>1. Init => MP!CutInit
  <2> SUFFICES ASSUME Init PROVE MP!CutInit
    OBVIOUS
  <2>1. PICK L \in Implicants({}) : cubes = <<Insert(EmptyCube(problem), L)>>
    BY DEF Init
  <2>2. L \in SUBSET Literals /\ ModelsUnder(L) = ModelsUnder({})
    BY ImplicantFacts
  <2>3. ModelsUnder({}) = Models
    BY DEF ModelsUnder
  <2>4. DOMAIN cubes = {1} /\ cubes[1].lits = L
    BY <2>1 DEF Insert, EmptyCube
  <2>5. {ModelsUnder(cubes[i].lits) : i \in DOMAIN cubes} = {Models}
    BY <2>2, <2>3, <2>4
  <2>6. Models \in {{m \in Assignments : \A c \in p.smp : c \cap m # {}} : p \in Problems}
    BY DEF Init, Models
  <2> QED
    BY <2>5, <2>6 DEF MP!CutInit
<1>2. IInv /\ [Next]_vars => [MP!CutNext]_(MP!cutVars)
  <2> SUFFICES ASSUME IInv, [Next]_vars PROVE [MP!CutNext]_(MP!cutVars)
    OBVIOUS
  <2>1. ASSUME NEW k \in DOMAIN queue, NEW v \in Vars, Split(k, v)
        PROVE  MP!CutNext
    BY <2>1, SplitCuts
  <2>2. ASSUME \/ Stop \/ UNCHANGED vars
               \/ \E k \in DOMAIN queue : Abort(k) \/ \E v \in Vars : Extend(k, v)
        PROVE  UNCHANGED MP!cutVars
    BY <2>2, OtherStepsStutter
  <2> QED
    BY <2>1, <2>2 DEF Next
<1> QED
  BY <1>1, <1>2, Invariance, PTL DEF Spec, ImplementsPartition, MP!CutSpec

-----------------------------------------------------------------------------
(* The counter: its inductive invariant *)

\* The threads that have passed the test of the flag and not tallied yet.
Holding == {t \in Threads : stage[t] \in {"draw", "tally"}}

\* No estimate is made from a single sample.
Enforced == IF N > 2 THEN N ELSE 2

\* A stream taken lies before the shared generator, and no other thread has it.
StreamsInv ==
  \A t \in Threads : stage[t] # "init" =>
    /\ lprng[t] < prng
    /\ \A w \in Threads : t # w /\ stage[w] # "init" => lprng[t] # lprng[w]

\* Each late tally uses up one of the threads that held a sample when the flag was set,
\* which the thread that set it did not.
LateInv ==
  /\ ~done => late = 0 /\ nb_tries < Enforced
  /\ done => late + Cardinality(Holding) < Cardinality(Threads)
  /\ nb_tries <= Enforced + late

\* A thread ends when the flag is set, and what the flag was set for has been reported.
ReportInv ==
  /\ (\E t \in Threads : stage[t] = "end") => done
  /\ done /\ N >= 2 => lines # <<>>
  /\ done /\ return_code = 0 => nb_success > 0

CounterInv == CounterTypeOK /\ StreamsInv /\ LateInv /\ ReportInv

-----------------------------------------------------------------------------
(* The counter: preservation *)

LEMMA HoldingFinite ==
  /\ Cardinality(Threads) \in Nat
  /\ Cardinality(Threads) > 0
  /\ IsFiniteSet(Holding)
  /\ Cardinality(Holding) \in Nat
<1>1. IsFiniteSet(Threads) /\ Threads # {}
  BY AppMCAssumption
<1>2. IsFiniteSet(Holding)
  BY <1>1, FS_Subset DEF Holding
<1> QED
  BY <1>1, <1>2, FS_CardinalityType, FS_EmptySet

LEMMA InitCounterInv == CounterInit => CounterInv
<1> SUFFICES ASSUME CounterInit PROVE CounterInv
  OBVIOUS
<1>1. CounterTypeOK
  <2>1. lines \in Seq(Nat \X Nat) /\ nb_success \in 0 .. nb_tries
    BY DEF CounterInit
  <2>2. stage \in [Threads -> {"init", "check", "draw", "tally", "end"}]
    BY DEF CounterInit
  <2> QED
    BY <2>1, <2>2 DEF CounterInit, CounterTypeOK
<1>2. N \in Nat
  BY AppMCAssumption DEF CounterInit
<1> QED
  BY <1>1, <1>2 DEF CounterInit, CounterInv, StreamsInv, LateInv, ReportInv, Enforced

\* A tally prints up to two lines.
LEMMA LinesType ==
  ASSUME NEW n \in Nat, NEW wins \in Nat
  PROVE  Lines(n, wins) \in Seq(Nat \X Nat)
<1>1. <<n, wins>> \in Nat \X Nat
  OBVIOUS
<1>2. <<<<n, wins>>>> \in Seq(Nat \X Nat) /\ <<>> \in Seq(Nat \X Nat)
  BY <1>1
<1> DEFINE first == IF verbose \/ n = N THEN <<<<n, wins>>>> ELSE <<>>
           second == IF Enough(n, wins) /\ ~verbose THEN <<<<n, wins>>>> ELSE <<>>
<1>3. first \in Seq(Nat \X Nat)
  BY <1>2
<1>4. second \in Seq(Nat \X Nat)
  BY <1>2
<1>5. Lines(n, wins) = first \o second
  BY DEF Lines
<1> HIDE DEF first, second
<1> QED
  BY <1>3, <1>4, <1>5

LEMMA TypesStep == CounterTypeOK /\ [CounterNext]_counterVars => CounterTypeOK'
<1> SUFFICES ASSUME CounterTypeOK, [CounterNext]_counterVars PROVE CounterTypeOK'
  OBVIOUS
<1> USE DEF CounterTypeOK
<1>1. ASSUME NEW t \in Threads, TakeStream(t) PROVE CounterTypeOK'
  BY <1>1 DEF TakeStream, Jump, GoTo, inputs
<1>2. ASSUME NEW t \in Threads, Check(t) PROVE CounterTypeOK'
  BY <1>2 DEF Check, GoTo, inputs
<1>3. ASSUME NEW t \in Threads, Draw(t) PROVE CounterTypeOK'
  BY <1>3 DEF Draw, GoTo, inputs
<1>4. ASSUME NEW t \in Threads, Tally(t) PROVE CounterTypeOK'
  <2>1. inputs' = inputs /\ prng' = prng /\ lprng' = lprng /\ hit' = hit
    BY <1>4 DEF Tally
  <2>2. stage' \in [Threads -> {"init", "check", "draw", "tally", "end"}]
    BY <1>4 DEF Tally, GoTo
  <2>3. nb_tries' \in Nat /\ nb_success' \in 0 .. nb_tries'
    BY <1>4 DEF Tally, Tries
  <2>4. done' \in BOOLEAN /\ return_code' \in {0, 1} /\ late' \in Nat
    BY <1>4 DEF Tally
  <2>6. lines' \in Seq(Nat \X Nat)
    <3>1. nb_tries' \in Nat /\ nb_success' \in Nat
      BY <2>3
    <3>2. lines' = IF nb_tries' > 1 THEN lines \o Lines(nb_tries', nb_success') ELSE lines
      BY <1>4 DEF Tally
    <3>3. Lines(nb_tries', nb_success') \in Seq(Nat \X Nat)
      BY <3>1, LinesType
    <3> QED
      BY <3>2, <3>3
  <2> QED
    BY <2>1, <2>2, <2>3, <2>4, <2>6 DEF inputs
<1>5. ASSUME UNCHANGED counterVars PROVE CounterTypeOK'
  BY <1>5 DEF counterVars, inputs
<1> QED
  BY <1>1, <1>2, <1>3, <1>4, <1>5 DEF CounterNext, Step

LEMMA StreamsStep == CounterTypeOK /\ StreamsInv /\ [CounterNext]_counterVars => StreamsInv'
<1> SUFFICES ASSUME CounterTypeOK, StreamsInv, [CounterNext]_counterVars PROVE StreamsInv'
  OBVIOUS
<1> USE DEF CounterTypeOK, StreamsInv
<1>1. ASSUME NEW t \in Threads, TakeStream(t) PROVE StreamsInv'
  BY <1>1 DEF TakeStream, Jump, GoTo
<1>2. ASSUME NEW t \in Threads, Check(t) \/ Draw(t) \/ Tally(t) PROVE StreamsInv'
  <2>1. prng' = prng /\ lprng' = lprng /\ stage[t] # "init"
    BY <1>2 DEF Check, Draw, Tally
  <2>2. \A w \in Threads : w # t => stage'[w] = stage[w]
    BY <1>2 DEF Check, Draw, Tally, GoTo
  <2> QED
    BY <2>1, <2>2
<1>3. ASSUME UNCHANGED counterVars PROVE StreamsInv'
  BY <1>3 DEF counterVars
<1> QED
  BY <1>1, <1>2, <1>3 DEF CounterNext, Step

LEMMA LateStep == CounterTypeOK /\ LateInv /\ ReportInv /\ [CounterNext]_counterVars => LateInv'
<1> SUFFICES ASSUME CounterTypeOK, LateInv, ReportInv, [CounterNext]_counterVars PROVE LateInv'
  OBVIOUS
<1>n. N \in Nat
  BY AppMCAssumption DEF CounterTypeOK
<1>1. ASSUME NEW t \in Threads, TakeStream(t) PROVE LateInv'
  <2>1. Holding' = Holding
    BY <1>1 DEF TakeStream, GoTo, Holding, CounterTypeOK
  <2> QED
    BY <1>1, <2>1 DEF TakeStream, LateInv, Enforced, inputs
<1>2. ASSUME NEW t \in Threads, Check(t) PROVE LateInv'
  <2>1. done => Holding' = Holding
    BY <1>2 DEF Check, GoTo, Holding, CounterTypeOK
  <2> QED
    BY <1>2, <2>1 DEF Check, LateInv, Enforced, inputs
<1>3. ASSUME NEW t \in Threads, Draw(t) PROVE LateInv'
  <2>1. Holding' = Holding
    BY <1>3 DEF Draw, GoTo, Holding, CounterTypeOK
  <2> QED
    BY <1>3, <2>1 DEF Draw, LateInv, Enforced, inputs
<1>4. ASSUME NEW t \in Threads, Tally(t) PROVE LateInv'
  <2>1. t \in Holding /\ Holding' = Holding \ {t}
    BY <1>4 DEF Tally, GoTo, Holding, CounterTypeOK
  <2>2. Cardinality(Holding') = Cardinality(Holding) - 1
    BY <2>1, HoldingFinite, FS_RemoveElement
  <2>3. Cardinality(Holding) <= Cardinality(Threads)
    BY AppMCAssumption, FS_Subset DEF Holding
  <2>4. nb_tries' = nb_tries + 1 /\ N' = N /\ late' = IF done THEN late + 1 ELSE late
    BY <1>4 DEF Tally, Tries, inputs
  <2>5. done' = (done \/ (nb_tries' > 1 /\ (Enough(nb_tries', nb_success') \/ nb_tries' >= N)))
    BY <1>4 DEF Tally, LimitReached
  <2>6. nb_tries \in Nat /\ late \in Nat
    BY DEF CounterTypeOK
  <2>7. ~done' => late' = 0 /\ nb_tries' < Enforced'
    <3> SUFFICES ASSUME ~done' PROVE late' = 0 /\ nb_tries' < Enforced'
      OBVIOUS
    <3>1. ~done /\ ~(nb_tries' > 1 /\ nb_tries' >= N)
      BY <2>5
    <3>2. late' = 0
      BY <2>4, <3>1 DEF LateInv
    <3>3. nb_tries' < Enforced'
      BY <2>4, <2>6, <3>1, <1>n DEF Enforced
    <3> QED
      BY <3>2, <3>3
  <2>8. done' => late' + Cardinality(Holding') < Cardinality(Threads)
    BY <2>2, <2>3, <2>4, <2>6, HoldingFinite DEF LateInv
  <2>9. nb_tries' <= Enforced' + late'
    BY <2>4, <2>6, <1>n DEF LateInv, Enforced
  <2> QED
    BY <2>7, <2>8, <2>9 DEF LateInv
<1>5. ASSUME UNCHANGED counterVars PROVE LateInv'
  BY <1>5 DEF counterVars, inputs, LateInv, Holding, Enforced
<1> QED
  BY <1>1, <1>2, <1>3, <1>4, <1>5 DEF CounterNext, Step

LEMMA ReportStep == CounterTypeOK /\ LateInv /\ ReportInv /\ [CounterNext]_counterVars => ReportInv'
<1> SUFFICES ASSUME CounterTypeOK, LateInv, ReportInv, [CounterNext]_counterVars PROVE ReportInv'
  OBVIOUS
<1>n. N \in Nat
  BY AppMCAssumption DEF CounterTypeOK
<1>1. ASSUME NEW t \in Threads, TakeStream(t) \/ Check(t) \/ Draw(t) PROVE ReportInv'
  <2>1. UNCHANGED <<N, done, lines, return_code, nb_success>>
    BY <1>1 DEF TakeStream, Check, Draw, inputs
  <2>2. ~done => \A w \in Threads : stage'[w] = "end" => stage[w] = "end"
    BY <1>1 DEF TakeStream, Check, Draw, GoTo, CounterTypeOK
  <2> QED
    BY <2>1, <2>2 DEF ReportInv
<1>2. ASSUME NEW t \in Threads, Tally(t) PROVE ReportInv'
  <2> DEFINE n == nb_tries'
             seq == nb_success'
  <2>1. /\ n = nb_tries + 1 /\ nb_tries \in Nat /\ n \in Nat
        /\ nb_success <= seq /\ seq \in Nat /\ nb_success \in Nat
        /\ N' = N /\ lN' = lN
    BY <1>2 DEF Tally, Tries, inputs, CounterTypeOK
  <2>2. /\ lines' = IF n > 1 THEN lines \o Lines(n, seq) ELSE lines
        /\ done' = (done \/ (n > 1 /\ (Enough(n, seq) \/ LimitReached(n))))
        /\ return_code' = IF n > 1 /\ LimitReached(n) /\ seq = 0 THEN 1 ELSE return_code
    BY <1>2 DEF Tally
  <2>3. (\E w \in Threads : stage'[w] = "end") => done'
    <3>1. \A w \in Threads : stage'[w] = "end" => stage[w] = "end"
      BY <1>2 DEF Tally, GoTo, CounterTypeOK
    <3> QED
      BY <2>2, <3>1 DEF ReportInv
  <2>4. done' /\ N' >= 2 => lines' # <<>>
    <3> SUFFICES ASSUME done', N >= 2 PROVE lines' # <<>>
      BY <2>1
    <3>1. lines \in Seq(Nat \X Nat) /\ Lines(n, seq) \in Seq(Nat \X Nat)
      BY <2>1, LinesType DEF CounterTypeOK
    <3>2. CASE done
      <4>1. lines # <<>>
        BY <3>2 DEF ReportInv
      <4> QED
        BY <2>2, <3>1, <4>1
    <3>3. CASE ~done
      <4>1. n > 1 /\ (Enough(n, seq) \/ LimitReached(n))
        BY <2>2, <3>3
      <4>2. n <= N
        <5>1. nb_tries < Enforced
          BY <3>3 DEF LateInv
        <5> QED
          BY <2>1, <5>1, <1>n DEF Enforced
      <4>3. Enough(n, seq) \/ n = N
        BY <4>1, <4>2, <2>1, <1>n DEF LimitReached
      <4>4. Lines(n, seq) # <<>>
        BY <4>3 DEF Lines
      <4> QED
        BY <2>2, <3>1, <4>1, <4>4
    <3> QED
      BY <3>2, <3>3
  <2>5. done' /\ return_code' = 0 => seq > 0
    <3>1. CASE done
      BY <2>1, <2>2, <3>1 DEF ReportInv, CounterTypeOK
    <3>2. ASSUME ~done, done', return_code' = 0 PROVE seq > 0
      <4>1. CASE Enough(n, seq)
        BY <4>1 DEF Enough
      <4>2. CASE n > 1 /\ LimitReached(n)
        <5>1. seq # 0
          BY <2>2, <3>2, <4>2
        <5> QED
          BY <2>1, <5>1
      <4> QED
        BY <2>2, <3>2, <4>1, <4>2
    <3> QED
      BY <3>1, <3>2
  <2> QED
    BY <2>3, <2>4, <2>5 DEF ReportInv
<1>3. ASSUME UNCHANGED counterVars PROVE ReportInv'
  BY <1>3 DEF counterVars, inputs, ReportInv
<1> QED
  BY <1>1, <1>2, <1>3 DEF CounterNext, Step

LEMMA CounterInvariance == CounterSpec => []CounterInv
<1>1. CounterInv /\ [CounterNext]_counterVars => CounterInv'
  BY TypesStep, StreamsStep, LateStep, ReportStep DEF CounterInv
<1> QED
  BY InitCounterInv, <1>1, PTL DEF CounterSpec

-----------------------------------------------------------------------------
(* The theorems about the counter *)

\* Two threads never draw from the same stream: their samples are independent, however
\* many threads there are.  (appmc.cpp:70-75)
THEOREM StreamsAlwaysDistinct == CounterSpec => []StreamsDistinct
<1>1. CounterInv => StreamsDistinct
  BY DEF CounterInv, StreamsInv, StreamsDistinct
<1> QED
  BY CounterInvariance, <1>1, PTL

\* The maximum number of samples is passed by less than the number of threads, in every
\* interleaving of the tests of the flag with the tallies.  (appmc.cpp:77-82,140-141)
THEOREM OvershootBounded == CounterSpec => []Overshoot
<1>1. CounterInv => Overshoot
  <2> SUFFICES ASSUME CounterInv PROVE Overshoot
    OBVIOUS
  <2>1. CounterTypeOK /\ LateInv /\ N \in Nat
    BY AppMCAssumption DEF CounterInv, CounterTypeOK
  <2>2. late \in Nat /\ nb_tries \in Nat
    BY <2>1 DEF CounterTypeOK
  <2>3. late < Cardinality(Threads)
    BY <2>1, <2>2, HoldingFinite DEF LateInv, CounterTypeOK
  <2>4. nb_tries <= Enforced + Cardinality(Threads) - 1
    BY <2>1, <2>2, <2>3, HoldingFinite DEF LateInv, Enforced
  <2> QED
    BY <2>1, <2>3, <2>4 DEF Overshoot, Enforced
<1> QED
  BY CounterInvariance, <1>1, PTL

\* When all threads have ended an estimate has been printed, if two samples were asked for,
\* and exit code 0 means that some sample satisfied the formula, although tallies may come
\* after the one that decided.  (appmc.cpp:127-145)
THEOREM OutcomeAlwaysReported == CounterSpec => []OutcomeReported
<1>1. CounterInv => OutcomeReported
  <2> SUFFICES ASSUME CounterInv, Ended PROVE (N >= 2 => lines # <<>>) /\ (return_code = 0 => nb_success > 0)
    BY DEF OutcomeReported
  <2>1. done
    BY AppMCAssumption DEF CounterInv, ReportInv, Ended
  <2> QED
    BY <2>1 DEF CounterInv, ReportInv
<1> QED
  BY CounterInvariance, <1>1, PTL
=============================================================================

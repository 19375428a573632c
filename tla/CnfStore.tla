------------------------------ MODULE CnfStore ------------------------------
(***************************************************************************)
(* The clause store of class CNF (capkc/capkc/src/cnf.cpp, the same lines  *)
(* in divkc/projection/src/CNF.cpp): clauses are kept in a vector and are  *)
(* only switched off, `idx' lists for every literal the clauses it occurs  *)
(* in, and the slots of removed clauses are reused from `available_ids'.   *)
(*                                                                         *)
(* A literal is a non-zero integer and ~l is -l; a clause (a sorted vector *)
(* without repetition) is the set of its literals; slots count from 1.     *)
(* size_t counters wrap at 2^Width.                                        *)
(***************************************************************************)
EXTENDS Integers, Sequences, FiniteSets

CONSTANTS
  Vars,      \* the variables, positive integers
  Width      \* bits of a size_t

ASSUME StoreAssumption ==
  /\ Vars \subseteq Nat \ {0} /\ IsFiniteSet(Vars)
  /\ Width \in Nat \ {0}

VARIABLES
  clauses,     \* the vector of clauses
  active,      \* which slots hold a clause of the formula
  idx,         \* literal -> slots of the clauses it occurs in
  available,   \* the slots of removed clauses, the next one to reuse last
  nbActive     \* the counter of active clauses

storeVars == <<clauses, active, idx, available, nbActive>>

Literals == Vars \cup {-v : v \in Vars}
Ids == DOMAIN clauses
ActiveIds == {id \in Ids : active[id]}
Wrap(k) == k % 2^Width

\* The store after reading the clauses F.
Load(F) ==
  /\ clauses = F
  /\ active = [id \in DOMAIN F |-> TRUE]
  /\ idx = [l \in Literals |-> {id \in DOMAIN F : l \in F[id]}]
  /\ available = <<>>
  /\ nbActive = Len(F)

\* The orders in which a loop over a hash set may visit the slots S, and the only one in
\* which a loop over the slots does.
Orders(S) == {s \in [1 .. Cardinality(S) -> S] : \A id \in S : \E k \in DOMAIN s : s[k] = id}
Ascending(S) == {s \in Orders(S) : \A j, k \in DOMAIN s : j < k => s[j] < s[k]}

SlotsOf(order) == {order[k] : k \in DOMAIN order}

\* idx once the clauses in the slots S are taken out of it.
IdxWithout(S) == [l \in Literals |-> idx[l] \ {id \in S : l \in clauses[id]}]

\* rm_clause on the slots of a sequence, except for idx.
Deactivate(order) ==
  /\ active' = [id \in Ids |-> active[id] /\ id \notin SlotsOf(order)]
  /\ available' = available \o order
  /\ nbActive' = Wrap(nbActive - Len(order))

RmClauses(order) ==
  /\ Deactivate(order)
  /\ idx' = IdxWithout(SlotsOf(order))
  /\ UNCHANGED clauses

\* The slot of the next clause, and the stack without it.
StackPopped == IF available = <<>> THEN <<>> ELSE SubSeq(available, 1, Len(available) - 1)
NextSlot == IF available = <<>> THEN Len(clauses) + 1 ELSE available[Len(available)]

\* add_clause.
AddClause(c) ==
  /\ clauses' = [id \in Ids \cup {NextSlot} |-> IF id = NextSlot THEN c ELSE clauses[id]]
  /\ active' = [id \in Ids \cup {NextSlot} |-> id = NextSlot \/ active[id]]
  /\ idx' = [l \in Literals |-> IF l \in c THEN idx[l] \cup {NextSlot} ELSE idx[l]]
  /\ available' = StackPopped
  /\ nbActive' = Wrap(nbActive + 1)

\* The literals of a clause that occur in the fewest clauses.  The first literal of an
\* empty clause is undefined: any literal may be read.
Rarest(c) ==
  LET read == IF c = {} THEN Literals ELSE c
  IN  {j \in read : \A k \in read : Cardinality(idx[j]) <= Cardinality(idx[k])}

Tautology(c) == \E l \in c : -l \in c

\* Total assignments, as the sets of their true literals, and satisfaction.
Assignments == {{IF v \in T THEN v ELSE -v : v \in Vars} : T \in SUBSET Vars}
Satisfies(m, c) == \E l \in c : l \in m
Models(C) == {m \in Assignments : \A c \in C : Satisfies(m, c)}

StoreTypeOK ==
  /\ clauses \in Seq(SUBSET Literals)
  /\ active \in [Ids -> BOOLEAN]
  /\ idx \in [Literals -> SUBSET Ids]
  /\ available \in Seq(Ids)
  /\ nbActive \in 0 .. 2^Width - 1

\* What the store means by `in use' is the set Used of slots.  idx lists exactly the
\* clauses in use, a slot is on the stack once iff it is not in use.
IdxLists(Used) == \A l \in Literals : idx[l] = {id \in Used : l \in clauses[id]}
SlotsFree(Used) ==
  /\ \A j, k \in DOMAIN available : available[j] = available[k] => j = k
  /\ {available[k] : k \in DOMAIN available} = Ids \ Used
=============================================================================

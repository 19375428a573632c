---------------------------- MODULE ProbeSearch ----------------------------
(***************************************************************************)
(* What the n-ary search of capkc promises, whatever way it chooses its    *)
(* probes and runs them: it keeps a bracket (lo, hi), measures a set of    *)
(* points strictly inside it, and moves lo to the largest point that       *)
(* succeeded and hi to the next measured point above it.  A bracket with   *)
(* nothing inside is never probed again.                                   *)
(***************************************************************************)
EXTENDS Integers

CONSTANTS Bottoms, Tops     \* the bounds a search may start from

VARIABLES lo, hi, good      \* good: the points measured as a success so far

psVars == <<lo, hi, good>>

PSInit ==
  /\ lo \in Bottoms
  /\ hi \in Tops
  /\ good = {}

\* One round: P are the points measured, G those of them that succeeded.
Round(P, G) ==
  /\ P \subseteq {p \in Int : lo < p /\ p < hi}
  /\ G \subseteq P
  /\ good' = good \cup G
  /\ lo' \in G \cup {lo}
  /\ \A g \in G : g <= lo'
  /\ hi' \in P \cup {hi}
  /\ lo' < hi'
  /\ \A p \in P : p <= lo' \/ hi' <= p

PSNext == \E P \in SUBSET (lo+1 .. hi-1) : \E G \in SUBSET P : Round(P, G)

PSSpec == PSInit /\ [][PSNext]_psVars
=============================================================================

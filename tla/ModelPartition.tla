--------------------------- MODULE ModelPartition ---------------------------
(***************************************************************************)
(* What the cube generator promises, however it chooses its decisions: the *)
(* models of the formula are cut into disjoint cells, one at first, and a  *)
(* step cuts one cell into two cells none of which is empty.               *)
(***************************************************************************)
CONSTANT Wholes        \* the sets of models that may be cut

VARIABLES whole, cells

cutVars == <<whole, cells>>

CutInit ==
  /\ whole \in Wholes
  /\ cells = {whole}

\* Cell c is cut into a and the rest of it.
Cut(c, a) ==
  /\ a # {} /\ a # c
  /\ cells' = (cells \ {c}) \cup {a, c \ a}
  /\ UNCHANGED whole

CutNext == \E c \in cells : \E a \in SUBSET c : Cut(c, a)

CutSpec == CutInit /\ [][CutNext]_cutVars
=============================================================================

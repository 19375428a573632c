----------------------------- MODULE MC_CapKC -----------------------------
(* Instances of CapKC for TLC: every input of the command line in a small   *)
(* range, among them the degenerate ones (empty formula, low >= size, n=0). *)
EXTENDS CapKC

SmallSizes == {0, 1, 2, 4, 7}
SmallThreads == 0 .. 3
SmallLows == {0, 1, 3}
SmallHighs == {0, 3, 6}
=============================================================================

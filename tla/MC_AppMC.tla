------------------------------ MODULE MC_AppMC ------------------------------
(* Instances of AppMC for TLC: three threads, maxima from the degenerate 0   *)
(* and 1 to 4, early stopping off or from the first samples on.              *)
EXTENDS AppMC

ThreeThreads == {"t1", "t2", "t3"}
SmallMaxima == {0, 1, 2, 4}
SmallMinima == {0, 1, 3}
\* Narrow as soon as two samples in three satisfy the formula.
NarrowAt == {p \in (0 .. 9) \X (0 .. 9) : p[1] >= 2 /\ 3 * p[2] >= 2 * p[1]}
=============================================================================

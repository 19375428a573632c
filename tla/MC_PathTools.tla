---------------------------- MODULE MC_PathTools ----------------------------
(* Instances of PathTools for TLC: circuits of up to four paths with none to *)
(* three solutions each, up to three samples, one to three threads; for the  *)
(* counters up to three tries, with every early stop and with verbose.       *)
EXTENDS PathTools

Counts == {<<>>, <<0>>, <<2>>, <<0, 0>>, <<0, 2>>, <<2, 1>>, <<1, 0, 2>>, <<0, 3, 0, 1>>}

Job(tool, counts, nb, k, threads) ==
  [tool |-> tool, counts |-> counts, nb |-> nb, k |-> k, threads |-> threads, verbose |-> FALSE]

Loud(j) == [j EXCEPT !.verbose = TRUE]

AppmcJobs == {Job("appmc", c, nb, k, t) :
                c \in {<<>>, <<2>>, <<0, 1>>}, nb \in 0 .. 3, k \in 0 .. 3, t \in 1 .. 2}
             \cup {Job("appmc", <<2>>, nb, k, 3) : nb \in 1 .. 2, k \in {0, 2}}

CounterJobs ==
  AppmcJobs \cup {Loud(j) : j \in AppmcJobs}
  \cup {Job("lmc", c, nb, k, t) :
          c \in {<<>>, <<0>>, <<2, 1>>, <<1, 0, 3>>}, nb \in 0 .. 3, k \in 0 .. 2, t \in 1 .. 2}
  \cup {Job("pc", c, 0, 0, 1) : c \in Counts}

SmallJobs ==
  {Job(tool, c, nb, k, t) :
     tool \in {"sampler", "rsampler"}, c \in Counts, nb \in 0 .. 2, k \in 0 .. 3, t \in 1 .. 2}
  \cup {Job(tool, <<2, 1, 0>>, 3, k, 3) : tool \in {"sampler", "rsampler"}, k \in 2 .. 3}
  \cup {Job("rhsampler", c, nb, 0, 1) :
          c \in Counts \cup {<<3, 3, 3>>, <<2, 1, 1, 1>>}, nb \in 0 .. 3}
  \cup CounterJobs
=============================================================================

CONSTANTS
  Sizes <- SmallSizes
  Threads <- SmallThreads
  Lows <- SmallLows
  Highs <- SmallHighs
  MaxFaults = 1
SPECIFICATION Spec
INVARIANTS
  TypeOK
  BracketMeasured
  CandidateFiles
  AllReaped
  FinalSplit
PROPERTIES
  RoundsNarrow
  Termination
  ImplementsProbeSearch
CHECK_DEADLOCK FALSE

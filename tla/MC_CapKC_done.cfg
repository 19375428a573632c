CONSTANTS
  Sizes <- SmallSizes
  Threads <- SmallThreads
  Lows <- SmallLows
  Highs <- SmallHighs
  MaxFaults = 0
SPECIFICATION Spec
INVARIANT
  DoneMeansCounted

CHECK_DEADLOCK FALSE

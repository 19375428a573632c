CONSTANTS
  Threads <- ThreeThreads
  Maxima <- SmallMaxima
  Minima <- SmallMinima
  Precise <- NarrowAt
SPECIFICATION CounterSpec
INVARIANTS
  StreamsDistinct
  Overshoot
  OutcomeReported
PROPERTY
  Termination
CHECK_DEADLOCK FALSE

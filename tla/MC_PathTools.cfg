CONSTANTS
  Jobs <- SmallJobs
  Warmup = 2
  MaxSkip = 2
  MaxVisits = 6
SPECIFICATION Spec
INVARIANTS
  TallyExact
  OutcomeSound
PROPERTY
  Termination
CHECK_DEADLOCK FALSE

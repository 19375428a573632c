CONSTANTS
  Vars <- Three
  Width = 3
  Threads <- Team3
  Jobs <- AllJobs
SPECIFICATION Spec
INVARIANTS
  CountsExact
  SamplesSound
  TriesAccounted
PROPERTIES
  BurnedIn
  Termination
CHECK_DEADLOCK FALSE

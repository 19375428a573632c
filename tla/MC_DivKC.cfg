CONSTANTS
  Vars <- Four
  Inputs <- ScriptInputs
  Width = 6
  Jobs <- SmallJobs
SPECIFICATION DivKCSpec
INVARIANTS
  ProjectionExact
  SplitExact
  StoreConsistent
  PartsIndependent
  CountExact
  WrapperSound
PROPERTY
  WrapperEnds
CHECK_DEADLOCK FALSE

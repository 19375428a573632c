CONSTANTS
  Vars <- Three
  Problems <- SmallProblems
  Limits <- SmallLimits
SPECIFICATION Spec
INVARIANTS
  OneCubePerModel
  BookkeepingExact
  Complete
PROPERTY
  ImplementsPartition
CHECK_DEADLOCK FALSE

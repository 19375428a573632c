CONSTANTS
  Queries <- SmallQueries
  NbVars = 4
  Tasks <- SmallTasks
  Readings <- SmallReadings
SPECIFICATION BoundSpec
INVARIANTS
  CountsExact
  IdsAreModels
  BoundSound
CHECK_DEADLOCK FALSE

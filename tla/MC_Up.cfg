CONSTANTS
  NbVars = 5
  Jobs <- SmallJobs
SPECIFICATION Spec
INVARIANTS
  OrderingExact
  FilesSplit
CHECK_DEADLOCK FALSE

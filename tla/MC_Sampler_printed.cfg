CONSTANTS
  Vars <- Three
  Width = 3
  Threads <- Team3
  Jobs <- AllJobs
SPECIFICATION Spec
INVARIANT
  AllPrinted
CHECK_DEADLOCK FALSE

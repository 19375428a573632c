CONSTANTS
  Vars <- Three
  Formulas <- SmallFormulas
  Width = 4
SPECIFICATION SimplifySpec
INVARIANTS
  ModelsKept
  StoreConsistent
  Propagated
  Irredundant
CHECK_DEADLOCK FALSE

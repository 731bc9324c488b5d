SPECIFICATION Spec
CONSTANTS
  Order <- MCOrder
  Parent <- MCParent
  Root = "."
  Class <- MCClass
  Scenarios <- MCFew
  MaxEdits = 0
  MaxFaults = 0
INVARIANTS
  FitPlanAccepted
CHECK_DEADLOCK FALSE

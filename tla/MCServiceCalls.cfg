SPECIFICATION FairSpec
CONSTANTS
  Candidates = {c1}
  Roles = {functional, security}
  Calls = {k1, k2}
  InitialBudgets = {1}
  Extensions = {1}
  BudgetBound = 2
  MaxCrashes = 2
INVARIANTS NothingDeliveredUnjudged
PROPERTIES VerificationEnds
CHECK_DEADLOCK FALSE

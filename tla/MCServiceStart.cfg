SPECIFICATION FairSpec
CONSTANTS
  Candidates = {c1}
  Roles = {functional, security}
  Calls = {k1}
  InitialBudgets = {1}
  Extensions = {1}
  BudgetBound = 2
  MaxCrashes = 1
PROPERTIES StartedIsRouted
CHECK_DEADLOCK FALSE

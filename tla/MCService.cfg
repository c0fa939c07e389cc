SPECIFICATION Spec
CONSTANTS
  Candidates = {c1, c2}
  Roles = {functional, security}
  Calls = {k1}
  InitialBudgets = {1}
  Extensions = {1}
  BudgetBound = 2
  MaxCrashes = 1
SYMMETRY MCSymmetry
INVARIANTS TypeOK NothingDeliveredUnjudged
PROPERTIES CaptureIsIndependent FollowsMachine ApprovedOnGreenGates
CHECK_DEADLOCK FALSE

SPECIFICATION FairSpec
CONSTANTS
  Candidates = {c1, c2}
  InitialBudgets <- MCInitialBudgets
  Extensions <- MCExtensions
  BudgetBound = 4
INVARIANTS TypeOK CandidateMatchesState BudgetIsExact WayBackKnown RouteRespected
PROPERTIES CandidateNeverSwapped RepairLoopEnds
CHECK_DEADLOCK FALSE

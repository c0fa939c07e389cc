SPECIFICATION RecordsSpec
CONSTANTS
  GoalIds = {g1}
  Workflows = {w1, w2}
  Milestones = {m1, m2}
  Sessions = {s1}
  Contents = {p1, p2}
  MaxContinuations = 2
  MaxAmendments = 1
  MaxCrashes = 1
  None = None
  Paths <- MCPaths
  Lower <- MCLower
  MaxWrites = 3
  NoState = NoState
  Events = {"p", "q"}
  Interval = 2
  MaxEntries = 5
  MaxAlterations = 2
  MaxKeys = 2
  PageSize = 1
  NoKey = 0
  NoHash = NoHash
  Submissions <- MCSubmissions
  MaxSetbacks = 1
  Workers = {k1, k2}
  Duration = 2
  MaxClock = 7
  MaxLeases = 3
  NoLease = NoLease
SYMMETRY Interchangeable
INVARIANTS RecordsTypeOK OperationsApplyOnce CompletedIsSettled
  IndexTellsTruth LedgerTellsTruth PlanTellsTruth LeaseIsExclusive
CHECK_DEADLOCK FALSE

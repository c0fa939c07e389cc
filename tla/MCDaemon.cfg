SPECIFICATION Spec
CONSTANTS
  Candidates <- MCCandidates
  Plans = {p1, p2}
  Designs <- MCDesigns
  MaxCycles = 2
  MaxDisturbances = 2
SYMMETRY Interchangeable
INVARIANTS TypeOK OnlyVerifiedDelivered DeliveryIsJudged
  RejectedNeverReturns CyclesCountRejections LedgerAgrees
CHECK_DEADLOCK FALSE

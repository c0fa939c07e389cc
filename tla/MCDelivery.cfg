SPECIFICATION FairSpec
CONSTANTS
  N = 3
  Kind <- MCKind
  Delivers = {d1, d2}
  Reconciles = {r1}
  MaxFaults = 2
INVARIANTS TypeOK CommitsApprovedBytes CompletedMeansLanded
PROPERTIES InterruptedDeliveryCloses
CHECK_DEADLOCK FALSE

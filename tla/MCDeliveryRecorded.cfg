SPECIFICATION FairSpec
CONSTANTS
  N = 3
  Kind <- MCKind
  Delivers = {d1}
  Reconciles = {r1}
  MaxFaults = 1
PROPERTIES CompletedDeliveryIsRecorded
CHECK_DEADLOCK FALSE

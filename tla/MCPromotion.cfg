SPECIFICATION Spec
CONSTANTS
  Modified <- MCModified
  Added <- MCAdded
  Deleted <- MCDeleted
  MaxEdits = 2
  MaxCrashes = 2
  MaxErrors = 1
INVARIANTS JournalIsReserved AllOrNothing UserBytesKept OutcomeMatchesTree
PROPERTIES ReservationEnds
CHECK_DEADLOCK FALSE

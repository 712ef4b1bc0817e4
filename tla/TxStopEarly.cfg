SPECIFICATION FairSpec
CONSTANTS
  RxRooms = {1}
  MaxSessions = 1
CHECK_DEADLOCK FALSE
PROPERTIES CleanupAlwaysReturns

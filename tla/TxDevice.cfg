SPECIFICATION FairSpec
CONSTANTS
  RxRooms = {0, 1}
  MaxSessions = 3
CHECK_DEADLOCK FALSE
INVARIANTS TypeOK ThreadHoldsDevice NoStaleCompletion HalfCycleCarriesOne
PROPERTIES PhaseKept CleanupReturns

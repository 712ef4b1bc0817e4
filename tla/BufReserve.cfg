SPECIFICATION FairSpec
CONSTANTS
  Size = 2
  Threads = {t1}
  Writers = {}
  Reservers = {t1}
  Readers = {}
  Resetters = {t1}
  MayFault = {}
  Lens = {1}
  MaxResets = 1
CHECK_DEADLOCK FALSE
PROPERTIES EveryCallReturns

SPECIFICATION FairSpec
CONSTANTS
  Size = 3
  Threads = {t1, t2}
  Writers = {t1}
  Reservers = {t2}
  Readers = {t1, t2}
  Resetters = {t2}
  MayFault = {t1}
  Lens = {1, 2}
  MaxResets = 1
CHECK_DEADLOCK FALSE
INVARIANTS TypeOK ClaimsDisjoint ReadersSeeStored StoredIsPublished
PROPERTIES OrderlyCallsReturn

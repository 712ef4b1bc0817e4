SPECIFICATION MCSpec
CONSTANTS
  Size = 3
  Threads = {t1, t2, t3}
  Writers = {}
  Reservers = {}
  Readers = {}
  Resetters = {}
  MayFault = {}
  Lens = {1}
  MaxResets = 0
  PipeWriters = {t1}
  PipeReservers = {t3}
  PipeReaders = {t1, t2}
  PipeCopiers = {t3}
  MayBeKilled = {t2}
  MaxReads = 2
  DualWriters = {t1}
  DualReaders = {t1, t2}
  DualResetters = {t1}
  MaxSwaps = 2
  Wanted = {"duplex_ring", "duplex_pipe", "dual"}
  MaxGets = 3
CHECK_DEADLOCK FALSE
INVARIANTS PipeTypeOK DualTypeOK BuffersDistinct HeapExact WaitingWritersAreWoken WaitingReadersAreWoken
PROPERTIES HeldBytesStay ReadersUndisturbed

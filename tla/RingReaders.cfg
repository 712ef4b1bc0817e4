SPECIFICATION DevSpec
CONSTANTS
  Size = 4
  Word = 64
  Writers = {w1}
  Readers = {r1, r2}
  TxThreads = {}
  MayFault = {r1}
  WriteLens = {1, 2}
  ReadLens = {1, 2}
  Sample = 2
  DstLen = 2
  MaxPut = 7
  MaxMissed = 4
  NoThread = NoThread
  NoByte = NoByte
  ZeroByte = ZeroByte
  OutsideByte = OutsideByte
CHECK_DEADLOCK FALSE
CONSTRAINT ContractKept
INVARIANTS NothingLost
PROPERTIES ImplementsFifo

SPECIFICATION FairSpec
CONSTANTS
  Size = 4
  Word = 64
  Writers = {w1, w2}
  Readers = {}
  TxThreads = {tx}
  MayFault = {}
  WriteLens = {3, 5}
  ReadLens = {}
  Sample = 3
  DstLen = 3
  MaxPut = 3
  NoThread = NoThread
  NoByte = NoByte
  ZeroByte = ZeroByte
  OutsideByte = OutsideByte
INVARIANTS TypeOK WriteInBounds
PROPERTIES EveryCallReturns

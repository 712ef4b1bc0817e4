SPECIFICATION DevSpec
CONSTANTS
  Size = 5
  Word = 64
  Writers = {w1, w2}
  Readers = {}
  TxThreads = {tx}
  MayFault = {w1}
  WriteLens = {0, 1, 2, 3}
  ReadLens = {}
  Sample = 3
  DstLen = 3
  MaxPut = 10
  MaxMissed = 4
  NoThread = NoThread
  NoByte = NoByte
  ZeroByte = ZeroByte
  OutsideByte = OutsideByte
CONSTRAINT ContractKept
INVARIANTS NothingLost TxReadsWhatIsThere OffsetsAccount
PROPERTIES ImplementsFifo

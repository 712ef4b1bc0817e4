SPECIFICATION Spec
CONSTANTS
  Size = 4
  Word = 64
  Writers = {w1}
  Readers = {}
  TxThreads = {tx}
  MayFault = {}
  WriteLens = {1}
  ReadLens = {}
  Sample = 3
  DstLen = 3
  MaxPut = 8
  NoThread = NoThread
  NoByte = NoByte
  ZeroByte = ZeroByte
  OutsideByte = OutsideByte
INVARIANT SampleIsWhole

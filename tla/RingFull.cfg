SPECIFICATION Spec
CONSTANTS
  Size = 4
  Word = 64
  Writers = {w1}
  Readers = {}
  TxThreads = {tx}
  MayFault = {}
  WriteLens = {2, 4}
  ReadLens = {}
  Sample = 2
  DstLen = 2
  MaxPut = 8
  NoThread = NoThread
  NoByte = NoByte
  ZeroByte = ZeroByte
  OutsideByte = OutsideByte
INVARIANT AcceptedStaysReadable

SPECIFICATION Spec
CONSTANTS
  Files = {f1, f2}
  LeftFiles = {f1}
  MayFail = {"device"}
  MaxOpens = 2
  MaxOverlapped = 0
  NoFile = NoFile
CHECK_DEADLOCK FALSE
INVARIANTS InterfaceIsAllocated

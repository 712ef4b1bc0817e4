SPECIFICATION Spec
CONSTANTS
  Files = {f1, f2, f3}
  LeftFiles = {f1}
  MayFail = {"ext", "config", "left", "right", "device", "pwm", "clock", "probe"}
  MaxOpens = 5
  MaxOverlapped = 3
  NoFile = NoFile
CHECK_DEADLOCK FALSE
INVARIANTS TypeOK RefcountCoversFiles NothingDeadIsUsed OpenMeansRunning ClosedMeansFreed RingsOutliveThread ThreadHasClock
PROPERTIES TeardownWhenUnused

SPECIFICATION Spec
CONSTANTS
  L1 = L1
  L2 = L2
  u = u
  NoLock = NoLock
  Nothing = Nothing
  Lock <- OneLock
  Release <- OneRelease
  MaxFaults = 0
  Refuses = FALSE
  Typed <- OneLock
PROPERTIES ReportClearsItsOwnLock
CHECK_DEADLOCK FALSE

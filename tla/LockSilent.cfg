SPECIFICATION FairSpec
CONSTANTS
  L1 = L1
  L2 = L2
  u = u
  NoLock = NoLock
  Nothing = Nothing
  Lock <- OneLock
  Release <- NoRelease
  MaxFaults = 1
  Refuses = TRUE
  Typed <- OneLock
PROPERTIES SelfEnding
CHECK_DEADLOCK FALSE

SPECIFICATION EachSpec
CONSTANTS
  L1 = L1
  L2 = L2
  u = u
  NoLock = NoLock
  Nothing = Nothing
  Lock <- TwoLocks
  Release <- OneRelease
  MaxFaults = 2
  Refuses = FALSE
  Typed <- SecondLock
INVARIANTS TypeOK SuppressionIsEarned
PROPERTIES NoRelock Converges
CHECK_DEADLOCK FALSE

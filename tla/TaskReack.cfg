SPECIFICATION Spec
CONSTANTS
  a = a
  b = b
  l = l
  Task <- ScriptAndLock
  Gated <- OneScript
  Silent <- JustLock
  Slots = 1
  ChanCap = 1
  OfflineRetries = 0
  MaxRetry = 0
  MaxFaults = 0
  LinesGetLost = FALSE
INVARIANTS TimeoutMeansNoResult
CHECK_DEADLOCK FALSE

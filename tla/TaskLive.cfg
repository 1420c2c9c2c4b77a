SPECIFICATION FairSpec
CONSTANTS
  a = a
  b = b
  l = l
  Task <- OneScript
  Gated <- OneScript
  Silent <- NoTask
  Slots = 1
  ChanCap = 1
  OfflineRetries = 1
  MaxRetry = 1
  MaxFaults = 2
  LinesGetLost = TRUE
INVARIANTS AtMostOnce AckedMeansStarted
PROPERTIES Delivered Resolved
CHECK_DEADLOCK FALSE

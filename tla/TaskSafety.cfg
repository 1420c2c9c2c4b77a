SPECIFICATION Spec
CONSTANTS
  a = a
  b = b
  l = l
  Task <- TwoScripts
  Gated <- TwoScripts
  Silent <- NoTask
  Slots = 1
  ChanCap = 1
  OfflineRetries = 0
  MaxRetry = 0
  MaxFaults = 1
  LinesGetLost = FALSE
SYMMETRY TaskSymmetry
INVARIANTS TypeOK
PROPERTIES Implements
CHECK_DEADLOCK FALSE

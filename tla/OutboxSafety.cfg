SPECIFICATION Spec
CONSTANTS
  s1 = s1
  s2 = s2
  t1 = t1
  Msg <- MCMsg
  Protected <- MCProtected
  Limit = 1
  MaxAge = 1
  MaxClock = 2
  MaxFaults = 2
  CanStepBack = TRUE
SYMMETRY MCSymmetry
INVARIANTS TypeOK AcceptedIsAccountedFor NoOvertaking SizeBound DegradedOnlyByDisk
PROPERTIES NilMeansDurable ProtectedYieldOnlyToProtected
CHECK_DEADLOCK FALSE

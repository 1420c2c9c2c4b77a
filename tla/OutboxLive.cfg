SPECIFICATION FairSpec
CONSTANTS
  s1 = s1
  s2 = s2
  t1 = t1
  Msg <- MCMsg
  Protected <- MCProtected
  Limit = 1
  MaxAge = 0
  MaxClock = 1
  MaxFaults = 1
  CanStepBack = TRUE
PROPERTIES Drains
CHECK_DEADLOCK FALSE

SPECIFICATION Spec
CONSTANTS
  aScript = aScript
  aPolicy = aPolicy
  aGroup = aGroup
  aProgram = aProgram
  Script <- Scripts
  Policy <- Policies
  Group <- Groups
  Software <- Programs
  Files <- Examples
  Contents <- Bodies
  MaxIds = 8
  MaxEdits = 2
  MaxFaults = 1
  None = None
INVARIANTS ActiveAsAsked
CHECK_DEADLOCK FALSE

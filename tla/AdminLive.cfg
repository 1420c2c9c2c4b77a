SPECIFICATION Spec
CONSTANTS
  employee = employee
  owner = owner
  MaxRequests = 1
  User <- Users
  Native <- Owners
  Nobody = Nobody
  None = None
  Durable = TRUE
  Collect = {TRUE, FALSE}
  MaxFaults = 2
INVARIANTS RightsAreOwned
PROPERTIES RightsEnd Accountable
CHECK_DEADLOCK FALSE

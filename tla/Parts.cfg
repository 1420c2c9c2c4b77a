SPECIFICATION PartSpec
CONSTANTS
  None = None
  Tx = {n1, n2}
  Days = 1
  MaxRows = 3
  MaxTime = 3
  MaxFaults = 1
  Absent = Absent
  Nobody = Nobody
  MaxFailures = 1
  MaxErrors = 1
  MaxCrashes = 1
  SoftwareKey = {n1, n2}
  NameOf <- SameName
  SoftwareVersion = {n5, n6}
  Service = {n3, n4}
  Fact <- Facts
  Installed <- OneThere
  RunningService <- AllOs
  MaxWindowChanges = 1
  MaxAdminSessionSeqJump = 2
  MaxMachineEdits = 1
  MaxWindows = 3
  Machine = {n1}
  MaxDevices = 2
  MaxMade = 1
  MaxTokens = 2
  MaxEnrolls = 1
  MaxUses = 2
  Req = {n1, n2}
  Tenant = {n3, n4}
  Admin = {n1, n2}
  RequireMFA = {}
  MaxFails = 2
  MaxSessions = 2
  MaxSecrets = 2
  MaxNow = 1
  MaxUserRows = 2
  MaxInvites = 1
  PerSecret = 1
  Scopes <- LoginScopes
  Policy = {n2}
  Script = {n1}
  MaxPolicyEdits = 5
  MaxRuns = 2
  Files <- Canonical
  Contents = {"a", "b"}
  MaxIds = 8
  MaxCalls = 2
  MaxVersion = 2
  MaxPublished = 2
  MaxHand = 1
  Record <- Programs
  MaxTasks = 1
  MaxChanges = 1
  After = 1
  Repeat = 0
  MinSeverity = "high"
  Unreachable = 1
  Cooldown = 1
  Levels = {"critical"}
  MaxAlerts = 2
  MaxTicks = 2
  MaxEvents = 2
  ProgramName = {n4}
  Group = {n3}
  OS = "Windows"
  Filters <- Wheres
  MaxRuleEdits = 2
  Proc = {n1, n2}
  DesktopSession = {n3, n4}
  Wayland = {n4}
  Password = {"h1", "h2"}
  MaxLocks = 2
  MaxActs = 2
  Open = Open
  Bad = Bad
  QueuedReport = {n1, n2}
  Task = {n3, n4}
  MaxStops = 3
  n1 = n1
  n2 = n2
  n3 = n3
  n4 = n4
  n5 = n5
  n6 = n6
INVARIANTS PartsTypeOK EvidenceIsTrue IdentitiesAreSound EndedForGood HandlersDoNotRace RunsOnce ResultKept Recoverable OnlyTheTarget TornDownWhole AlertsAreTold ChainIntact NothingLost EndsAgree OverlaysAreKnown StateSurvives Applied
PROPERTIES NoDowngrade
CHECK_DEADLOCK FALSE

CONSTANTS
  Missing = Missing
  Cut = Cut
  NoSave = NoSave
  Thread = {t1, t2}
  CgroupFiles = {"cpu", "memory", "io"}
  Caller = {t1, t2}
  MaxMonitors = 3
  ObservationDays = 2
  MaxInputs = 1
  MaxStarts = 3
  Component = {"os", "agent"}
  Version = {"1.0", "1.1", "1.2"}
  Offered = {"1.1", "1.2"}
  Installed = "1.0"
  NoVersion = "none"
  MaxHistory = 3
  good = good
  odd = odd
  bad = bad
  Proposal = {good, odd, bad}
  DeltaWithin = {good, odd, bad}
  SmokePasses = {good}
  SmokeRaises = {odd}
  Creation <- MCCreation
  Execution <- MCExecution
  Applier = {t1, t2}
  MaxSnapshots = 2
  Secret = {"audit", "api"}
  AuditKey = "audit"
  MaxCreated = 4
  Model = {"q1", "q7"}
  Process = {"setup", "api"}
  SetupProcess = "setup"
  Profiles <- MCProfiles
  Hardware <- MCHardware
  PermissionProfiles <- MCPermissionProfiles
  Request <- MCRequest
  NoRequest = NoRequest
  Settings <- MCSettings
  Readings <- MCReadings
  Cap <- MCCap
  Unreadable = "None"
SYMMETRY Symmetric
SPECIFICATION MCSpec
INVARIANTS
  TypesOK
  CapsAreOwned
  StopIsHeard
  SnapshotsFollowApplied
PROPERTIES
  InputNeedsAutonomy
  RestartResumes
  RollbackReturns
  KeyIsStable
  StampMeansReady
  RevertRestores

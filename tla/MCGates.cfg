CONSTANTS
  Skill = {echo}
  Capability = {run, all, none}
  AnyAction = all
  NoneAction = none
  Role = {admin}
  Durations = {0, 1, 3}
  HoursPerDay = 2
  MaxNow = 6
  search = search
  launch = launch
  balanced = balanced
  strict = strict
  Thread = {t1, t2}
  Key = {search, launch}
  Profile = {balanced, strict}
  DefaultProfile = balanced
  DeniedBy <- MCDeniedBy
  Limit <- MCLimit
  EnforceAllowlist = FALSE
  Allowlist = {search}
  QuotaWindow = 1
  MaxClock = 2
  MaxSamples <- MCMaxSamples
  Package = {"code", "git", "vim"}
  Name = {"vscode", "git", "vim", "nothing"}
  Argument = {"code", "git", "vim"}
  NoPackage = "none"
  Along <- MCAlong
  Resolved <- MCResolved
  PackageAllowlist = {"code", "git"}
  Blocklist = {"code"}
  Worker = {w1, w2}
  Image = {"good", "other"}
  Expected = {"good"}
  Signed = {"good"}
  Vulnerable = {"other"}
  MaxContainers = 2
SYMMETRY Symmetric
SPECIFICATION Spec
INVARIANTS
  StragglersAreReported
  RunsAreVetted
PROPERTIES
  AccessFollowsGrants
  QuotaEnforced
  ChangesArePermitted

CONSTANTS
  echo = echo
  search = search
  p1 = p1
  p2 = p2
  Skill = {echo, search}
  Action = {"say", "find"}
  StepsOf <- MCStepsOf
  Tier <- MCTier
  Permissions <- MCAllPermissions
  AllowedActions <- MCAllowedActions
  AutoGrant = TRUE
  ProfileDenied = {}
  Limited <- EchoSay
  RateNum = 1
  RateDen = 1
  UnlockMaxErrors = 3
  SuspensionHours = 1
  RejectionThreshold = 2
  Thread = {t1, t2}
  Plan = {p1, p2}
  StartSkills = {echo}
  Grantable <- SearchNetwork
  Revocable <- SearchContainer
  Durations = {0}
  MaxRuns = 2
  UnlockConfirmed = 3
  MaxNow = 1
SYMMETRY Symmetric
SPECIFICATION Spec
CHECK_DEADLOCK FALSE
INVARIANTS
  RetriesBounded
  AbortIsFinal
  RunningHasExecutor
  DispatchIsAuthorised

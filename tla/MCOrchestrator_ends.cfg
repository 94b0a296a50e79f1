CONSTANTS
  echo = echo
  search = search
  p1 = p1
  p2 = p2
  Skill = {echo, search}
  Action = {"say", "find"}
  StepsOf <- MCRetriedSteps
  Tier <- MCLowTier
  Permissions <- MCAllPermissions
  AllowedActions <- MCAllowedActions
  AutoGrant = TRUE
  ProfileDenied = {}
  Limited = {}
  RateNum = 1
  RateDen = 1
  UnlockMaxErrors = 3
  SuspensionHours = 1
  RejectionThreshold = 2
  Thread = {t1, t2}
  Plan = {p1, p2}
  StartSkills = {echo, search}
  Grantable = {}
  Revocable = {}
  Durations = {}
  MaxRuns = 3
  UnlockConfirmed = 3
  MaxNow = 0
SPECIFICATION Spec
CHECK_DEADLOCK FALSE
INVARIANTS
  OnboardingExposure
PROPERTIES
  ExecutionEnds

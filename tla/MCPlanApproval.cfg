CONSTANTS
  echo = echo
  search = search
  p1 = p1
  p2 = p2
  Skill = {echo, search}
  Action = {"say", "find"}
  StepsOf <- MCApprovalSteps
  Tier <- MCTier
  Permissions <- MCPermissions
  AllowedActions <- MCAllowedActions
  AutoGrant = TRUE
  ProfileDenied = {}
  Limited = {}
  RateNum = 1
  RateDen = 1
  UnlockMaxErrors = 3
  SuspensionHours = 1
  RejectionThreshold = 2
  Thread = {t1, t2}
  Plan = {p1}
  StartSkills = {echo, search}
  Grantable <- SearchFind
  Revocable <- SearchFind
  Durations = {0}
  MaxRuns = 2
  UnlockConfirmed = 1
  MaxNow = 1
SYMMETRY Symmetric
SPECIFICATION ApprovalSpec
CHECK_DEADLOCK FALSE
INVARIANTS
  ConfirmationGate
  VerdictMatchesSteps
PROPERTIES
  ApprovalIsRemembered

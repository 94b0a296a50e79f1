CONSTANTS
  Category = {shell, echo}
  UnlockConfirmed = 2
  RateNum = 1
  RateDen = 2
  UnlockMaxErrors = 2
  SuspensionHours = 2
  RejectionThreshold = 3
  MaxNow = 3
  MaxOutcomes = 4
SPECIFICATION MCSpec
INVARIANTS
  LockMatchesRejections
  RejectionIsSanctioned
PROPERTY SuspensionIsServed

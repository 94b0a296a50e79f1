SPECIFICATION Spec
CONSTANTS
  t1 = t1
  t2 = t2
  own1 = own1
  own2 = own2
  NoFile = NoFile
  NoObject = NoObject
  Thread = {t1}
  Instance = {own1, own2}
  Threshold = 2
  MaxBackups = 2
  Batch = 2
  WriteMayFail = TRUE
  MayExpire = TRUE
  MaxEvents = 7
  MaxUpset = 5
  MaxRestarts = 2
ACTION_CONSTRAINT MCStep
SYMMETRY ObjectSymmetry
INVARIANTS
  OwnChainIsIntact
  DurableTrail
PROPERTIES
  RecentKept
CHECK_DEADLOCK FALSE

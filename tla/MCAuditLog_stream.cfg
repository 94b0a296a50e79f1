SPECIFICATION Spec
CONSTANTS
  t1 = t1
  t2 = t2
  own1 = own1
  own2 = own2
  NoFile = NoFile
  NoObject = NoObject
  Thread = {t1, t2}
  Instance = {own1, own2}
  Threshold = 0
  MaxBackups = 2
  Batch = 2
  WriteMayFail = TRUE
  MayExpire = FALSE
  MaxEvents = 4
  MaxUpset = 4
  MaxRestarts = 1
INVARIANTS
  StreamIsExact
PROPERTIES
  EventuallyStreamed
CHECK_DEADLOCK FALSE

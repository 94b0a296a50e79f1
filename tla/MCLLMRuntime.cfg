SPECIFICATION Spec
CONSTANTS
  Caller = {c1}
  m1 = m1
  m2 = m2
  Model = {m1, m2}
  MaxServers = 2
  MaxExits = 1
  JoinTimesOut = TRUE
INVARIANT NoOrphanServer
INVARIANT ServesSelected
PROPERTY CallsReturn
PROPERTY StopEndsMonitors

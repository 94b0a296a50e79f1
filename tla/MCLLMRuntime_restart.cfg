SPECIFICATION Spec
CONSTANTS
  Caller = {c1}
  m1 = m1
  m2 = m2
  Model = {m1, m2}
  MaxServers = 2
  MaxExits = 0
  JoinTimesOut = TRUE
PROPERTY RestartProceeds

SPECIFICATION MCSpec
CONSTANTS
  n1 = n1
  n2 = n2
  Node = {n1, n2}
  Key = {k1}
  Value = {v1, v2}
  NoValue = NoValue
  Link <- BothWays
  MaxRetry = 1
  QueueLimit = 1
  MaxTime = 2
  MaxClock = 1
  MaxQueue = 1
  MaxBlobs = 1
  MaxCheckpoints = 1
  MaxRestarts = 1
SYMMETRY Symmetry
INVARIANT SyncedPairsAgree
INVARIANT OwnClockLeads
INVARIANT UnsentIsQueued
PROPERTY NewerWins

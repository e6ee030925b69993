SPECIFICATION Spec
CONSTANTS
  None = None
  d1 = d1
  d2 = d2
  k1 = k1
  k2 = k2
  Daemons = {d1, d2}
  Clients = {k1, k2}
  Limit = 1
  MaxStarts = 3
  MaxCrashes = 1
  MaxQueries = 0
  MaxMisses = 0
PROPERTY RemovesOnlyStale
CHECK_DEADLOCK FALSE

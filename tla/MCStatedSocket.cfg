SPECIFICATION FairSpec
CONSTANTS
  None = None
  d1 = d1
  d2 = d2
  k1 = k1
  k2 = k2
  Daemons = {d1, d2}
  Clients = {k1, k2}
  Limit = 1
  MaxStarts = 3
  MaxCrashes = 1
  MaxQueries = 2
  MaxMisses = 1
INVARIANTS TypeOK ServingIsReachable
PROPERTIES RefusesOnlyForActive QueryEnds PermitsReturn
CHECK_DEADLOCK FALSE

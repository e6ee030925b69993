SPECIFICATION Spec
CONSTANTS
  None = None
  b1 = b1
  b2 = b2
  Brokers = {b1, b2}
  Requests <- MCPromotions
  Catalog <- MCCatalog
  Principals = {"uid:1000"}
  Policies <- MCPolicies
  Troubles = {"crash"}
  MaxTrouble = 1
  MaxAttempts = 2
INVARIANT NoReplay
CHECK_DEADLOCK FALSE

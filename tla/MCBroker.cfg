SPECIFICATION FairSpec
CONSTANTS
  None = None
  b1 = b1
  b2 = b2
  Brokers = {b1, b2}
  Requests <- MCRequests
  Catalog <- MCCatalog
  Principals = {"uid:1000"}
  Policies <- MCPolicies
  Troubles = {"append", "crash"}
  MaxTrouble = 1
  MaxAttempts = 3
INVARIANTS TypeOK TerminalIsFinal JournalIsOrdered EveryEffectIsRecorded AuthorityIsGranted
  NoReplayUndisturbed
PROPERTY RequestEnds
CHECK_DEADLOCK FALSE

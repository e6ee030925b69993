SPECIFICATION FairSpec
CONSTANTS
  None = None
  c1 = c1
  c2 = c2
  p1 = p1
  Procs = {c1, c2}
  Proposals = {p1}
  Paths <- MCPaths
  Root <- MCRoot
  ParentOf <- MCParentOf
  Contents = {"v0", "v1", "v2"}
  Definitions <- MCEditions
  Breaking = {"v2"}
  EditValues = {"absent", "v1"}
  InitialFs <- MCInitialFs
  Troubles = {"prepare", "action", "chmod", "restore", "edit_file", "edit_record"}
  MaxTrouble = 3
INVARIANTS OnlyClassifiedActionsRun
PROPERTIES LockReleased PromotionSettles
CHECK_DEADLOCK FALSE

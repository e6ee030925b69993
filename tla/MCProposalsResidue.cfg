SPECIFICATION Spec
CONSTANTS
  None = None
  c1 = c1
  c2 = c2
  p1 = p1
  p2 = p2
  Procs = {c1, c2}
  Proposals = {p1, p2}
  Paths <- MCPaths
  Root <- MCRoot
  ParentOf <- MCParentOf
  Contents = {"v0", "v1", "v2"}
  Definitions <- MCDefinitions
  Breaking = {"v2"}
  EditValues = {"absent"}
  InitialFs <- MCInitialFs
  Troubles = {"chmod"}
  MaxTrouble = 1
CHECK_DEADLOCK FALSE
PROPERTY RollbackRestores

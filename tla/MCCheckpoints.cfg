SPECIFICATION Spec
CONSTANTS
  None = None
  c1 = c1
  c2 = c2
  k1 = k1
  k2 = k2
  Procs = {c1, c2}
  Checkpoints = {k1, k2}
  Paths <- MCPaths
  Contents = {"v0", "v1"}
  Policies <- MCPolicies
  Configurations <- MCConfigurations
  RootConfig = "root"
  InitialFs <- MCInitialFs
  Troubles = {"snapshot", "capture", "copy", "restore", "save", "system", "crash", "edit_file"}
  MaxTrouble = 2
  MaxCommands = 3
SYMMETRY MCSymmetry
INVARIANTS TypeOK RestoreRestores FailedRestoreUndoes ReadyIsWhole HistoryIsComplete
PROPERTIES NothingIsLost
CHECK_DEADLOCK FALSE

SPECIFICATION Spec
CONSTANTS
  None = None
  c1 = c1
  c2 = c2
  Commands = {c1, c2}
  Facts = {"f", "g"}
  Ids = {1, 2}
  Names = {1, 2, 3}
  FileOf <- MCFileOf
  Tables <- MCTables
  Defaults <- MCDefaults
  InitialFiles <- MCInitialFiles
  Troubles = {}
  MaxTrouble = 0
  MaxCommands = 1
  MaxEdits = 0
INVARIANT NegativeFactStands
CHECK_DEADLOCK FALSE

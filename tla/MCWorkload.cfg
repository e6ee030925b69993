SPECIFICATION Spec
CONSTANTS
  None = None
  c1 = c1
  c2 = c2
  Commands = {c1, c2}
  Facts = {"f", "g"}
  Ids = {1, 2}
  Names = {1, 2, 3}
  FileOf <- MCFileOf
  Tables <- MCTables
  Defaults <- MCDefaults
  InitialFiles <- MCInitialFiles
  Troubles = {"write", "crash"}
  MaxTrouble = 1
  MaxCommands = 2
  MaxEdits = 1
CONSTRAINT AssessAlone
SYMMETRY MCSymmetry
INVARIANTS TypeOK ReadersSeeOneApply VerdictIsJustified
PROPERTIES ApplyKeepsListable
CHECK_DEADLOCK FALSE

SPECIFICATION Spec
CONSTANTS
  Limit = 2
  Backups = 3
  LineSizes <- MCSizes
  FaultModes <- MCRename
  MaxLines = 9
INVARIANTS
  OldestFirst
CHECK_DEADLOCK FALSE

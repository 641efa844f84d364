SPECIFICATION Spec
CONSTANTS
  Limit = 2
  Backups = 3
  LineSizes <- MCSizes
  FaultModes <- MCModes
  MaxLines = 9
INVARIANTS
  TypeOK
  Bounded
  KeepsBackups
  InOrder
PROPERTIES
  ImplementsKeptLog
CHECK_DEADLOCK FALSE

SPECIFICATION FairSpec
CONSTANTS
  e1 = e1
  e2 = e2
  e3 = e3
  l1 = l1
  l2 = l2
  Editors <- MCEditors
  LogWindows <- MCLogs
  Modes <- MCModes
  MaxAsks = 2
  None = None
INVARIANTS
  TypeOK
  LogButton
  SoleEditor
PROPERTIES
  ExitsWithMainWindow
  SignalIsHandled
CHECK_DEADLOCK FALSE

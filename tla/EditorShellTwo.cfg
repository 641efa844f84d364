SPECIFICATION Spec
CONSTANTS
  e1 = e1
  e2 = e2
  e3 = e3
  l1 = l1
  l2 = l2
  Editors <- MCTwo
  LogWindows <- MCOneLog
  Modes <- MCOverlap
  MaxAsks = 0
  None = None
INVARIANTS
  OneEditor
CHECK_DEADLOCK FALSE

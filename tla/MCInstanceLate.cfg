\* Two operations and one Close.
CONSTANTS
  Ops = {o1, o2}
  Cancels = {}
  Closers = {c1}
  Restores = {}
  Nobody = Nobody
  MaxOthers = 3
  MaxModules = 1
SPECIFICATION Spec
CHECK_DEADLOCK FALSE
INVARIANTS
  LateOperationsReportClosed

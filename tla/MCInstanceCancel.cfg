\* Two operations and one Cancel.
CONSTANTS
  Ops = {o1, o2}
  Cancels = {k1}
  Closers = {}
  Restores = {}
  Nobody = Nobody
  MaxOthers = 3
  MaxModules = 1
SPECIFICATION Spec
CHECK_DEADLOCK FALSE
INVARIANTS
  CancelHitsOneOperation

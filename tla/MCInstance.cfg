\* Two operations with a Cancel, a Close or a Restore, under fairness.
CONSTANTS
  Ops = {o1, o2}
  Cancels = {k1}
  Closers = {c1}
  Restores = {r1}
  Nobody = Nobody
  MaxOthers = 1
  MaxModules = 2
SPECIFICATION BoundedSpec
CHECK_DEADLOCK FALSE
INVARIANTS
  ModuleStaysUnderOperation
  OwnCancelStaysHome
  OwnCancelIsWhole
  StaleCancelsAreForgotten
PROPERTIES
  KeepsPromise
  ExpiredOperationsEnd

\* Two operations, a Cancel, a Close and a Restore, all at once; by hand.
CONSTANTS
  Ops = {o1, o2}
  Cancels = {k1}
  Closers = {c1}
  Restores = {r1}
  Nobody = Nobody
  MaxOthers = 3
  MaxModules = 2
SPECIFICATION Spec
SYMMETRY Symmetry
CHECK_DEADLOCK FALSE
INVARIANTS
  TypeOK
  ModuleStaysUnderOperation
  OwnCancelStaysHome
  OwnCancelIsWhole
  StaleCancelsAreForgotten
PROPERTIES
  KeepsPromise

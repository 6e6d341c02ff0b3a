\* Two runs at once and a Close.
CONSTANTS
  Runs = {r1, r2}
  Closers = {c1}
  NoRun = NoRun
  MaxIdle = 1
SPECIFICATION Spec
SYMMETRY Symmetry
CHECK_DEADLOCK FALSE
INVARIANTS
  OneOwner
  PooledAreFresh
  IdleBound
  NothingLeaks

\* Two runs, one cancelled.
CONSTANTS
  Runs = {r1, r2}
  Closers = {}
  NoRun = NoRun
  MaxIdle = 1
SPECIFICATION Spec
SYMMETRY Symmetry
CHECK_DEADLOCK FALSE
INVARIANTS
  RunCancelStaysHome

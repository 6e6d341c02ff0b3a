\* One operation and one Close, under fairness.
CONSTANTS
  Ops = {o1}
  Cancels = {}
  Closers = {c1}
  Restores = {}
  Nobody = Nobody
  MaxOthers = 3
  MaxModules = 1
SPECIFICATION FairSpec
CHECK_DEADLOCK FALSE
PROPERTIES
  CloseReturns

\* One operation, under fairness; by hand.
CONSTANTS
  Ops = {o1}
  Cancels = {}
  Closers = {}
  Restores = {}
  Nobody = Nobody
  MaxOthers = 3
  MaxModules = 1
SPECIFICATION FairSpec
CHECK_DEADLOCK FALSE
PROPERTIES
  DeadlinesLimitExecution

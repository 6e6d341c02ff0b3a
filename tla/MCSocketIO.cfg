\* A connect and three transfers, each with its own context, timeout and fault.
CONSTANT MaxCalls = 4
SPECIFICATION FairSpec
INVARIANTS
  OwnInterruption
  CountsAreKept
  ConnectionsAreOwned
PROPERTIES
  EndedCallsReturn

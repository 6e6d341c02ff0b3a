\* Two slots, so that the root list has an index to pad up to and to fail at, and
\* objects that take them in turn; generations wrap after two, and a slot counts to
\* two, so that a transfer may be refused as well.
CONSTANTS
  Objs = {o1, o2}
  Handles = {h1}
  NoObj = NoObj
  MaxSlots = 2
  GenMask = 2
  MaxCount = 2
  MaxLedger = 2
SPECIFICATION FairSpec
INVARIANTS
  HandlesNameTheirObject
  AcquisitionsBalance
  LoweredRefsStayPinned
  PinsMatchTable
PROPERTIES
  LostHandlesAreReleased

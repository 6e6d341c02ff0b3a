\* One slot that two handles share, age and outlive; generations wrap after two.
CONSTANTS
  Objs = {o1, o2}
  Handles = {h1, h2}
  NoObj = NoObj
  MaxSlots = 1
  GenMask = 2
  MaxCount = 3
  MaxLedger = 2
SPECIFICATION Spec
SYMMETRY Symmetry
INVARIANTS
  TypeOK
  HandlesNameTheirObject
  AcquisitionsBalance
  LoweredRefsStayPinned

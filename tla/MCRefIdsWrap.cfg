\* One slot, at the width of the code: 12 bits of generation.
CONSTANTS
  Objs = {o1, o2}
  kept = h1
  Holders = {h1, h2}
  NoObj = NoObj
  MaxSlots = 1
  GenMask = 4095
  MaxCount = 2
SPECIFICATION IdsSpec
CONSTRAINT OneHandleKept
INVARIANT FreedIdsStayStale

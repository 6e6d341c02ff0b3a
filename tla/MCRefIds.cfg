\* Two slots, three generations, three holders of two objects.
CONSTANTS
  Objs = {o1, o2}
  kept = h1
  Holders = {h1, h2, h3}
  NoObj = NoObj
  MaxSlots = 2
  GenMask = 3
  MaxCount = 2
SPECIFICATION IdsSpec
SYMMETRY Symmetry
INVARIANTS
  TableConsistent
  IdsNameTheirObject

\* One interpreter, three allocations in an operation.
CONSTANTS
  PageSize = 4
  GuestPages = 4
  MaxPages = 10
  SignedLimit = 32
  HeapSize = 4
  ArenaSize = 6
  Align = 2
  Sizes = {1, 3, 7}
  MaxRegions = 3
  NoImage = NoImage
SPECIFICATION Spec
INVARIANTS
  HeapIsMemory
  RegionsApart
  NothingSpilledStays

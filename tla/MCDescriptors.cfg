\* Two interpreters, and a pool that rewinds them.
CONSTANTS
  Interpreters = {i1, i2}
  Files = {f1, f2}
  Sockets = {s1}
  MaxHandles = 1
  LastDescriptor <- Last
  NoImage = NoImage
SPECIFICATION Spec
SYMMETRY Symmetry
INVARIANTS
  TokensNameTheirHandle
  HandlesAreHeld
  NothingLeaks

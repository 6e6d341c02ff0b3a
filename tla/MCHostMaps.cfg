\* An interpreter and an image; a configuration may hold more variables than the
\* guest is allowed to set.
CONSTANTS
  Callbacks = {f1, f2}
  Names = {n1, n2}
  Values = {v1}
  MaxVars = 1
  MaxFunctions = 2
  NoImage = NoImage
SPECIFICATION Spec
SYMMETRY Symmetry
INVARIANTS
  FunctionsNameTheirCallback
PROPERTIES
  KeepsHostState

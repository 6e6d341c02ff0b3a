SPECIFICATION Spec
CONSTANTS
  Ints = {1}
  Strs = {2}
  Opaques = {3}
  Lists = {4}
  Tuples = {5}
  Dicts = {6}
  Length <- MCLength
  Attributes <- MCAttributes
  Shapes <- MCShapes
  Base = 4
  AnswerBase = 400
  Capacity = 72
  MaxDepth = 2
  HostDepth = 1
  MaxHostArgs = 2
  MaxInt = 3
  ErrorSizes = {6, 100}
  FallbackSize = 8
  Answers <- MCAnswers
  Awkward = TRUE
INVARIANTS
  ValueIsWhole
  WrittenIsReadable
  FullIsTold
  NothingOwed
  AnswerIsWhole
CHECK_DEADLOCK FALSE

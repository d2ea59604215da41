SPECIFICATION Spec
CONSTANTS
  Cap = 272
  Lengths = {125, 128}
  MaxDepth = 2
INVARIANTS
  StaysInBuffer
  LengthIsExact
  FailsOnlyForWindows
CHECK_DEADLOCK FALSE

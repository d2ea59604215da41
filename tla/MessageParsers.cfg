CONSTANTS
  MaxOidBytes = 33
  MaxOctets = 256
  MaxVarBinds = 2
  MaxChildren = 6
  Messages <- MCMessages
  Bytes <- MCBytes
  MaxFaults <- MCMaxFaults
SPECIFICATION Spec
CHECK_DEADLOCK FALSE
INVARIANTS
  MessageIsRead
  CutIsRejected
  PathsReadAlike
  InPlaceIsStricter

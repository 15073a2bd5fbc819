CONSTANTS
  Calls = {c1, c2, c3}
  MaxTogether = 1
  Blocks = 3
  OldLengths <- MCOldLengths
  Old = Old
  None = None

SPECIFICATION Spec

INVARIANTS
  TypeOK

PROPERTIES
  UndisturbedModelIsWhole

CHECK_DEADLOCK FALSE

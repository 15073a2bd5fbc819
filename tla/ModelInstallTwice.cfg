CONSTANTS
  Calls = {c1, c2, c3}
  MaxTogether = 2
  Blocks = 3
  OldLengths <- MCOldLengths
  Old = Old
  None = None

SPECIFICATION Spec


PROPERTIES
  UndisturbedModelIsWhole

CHECK_DEADLOCK FALSE

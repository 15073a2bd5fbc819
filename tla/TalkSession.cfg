CONSTANTS
  None = None
  Questions = {1, 2}
  MaxTokens = 1
  MaxPanels = 2

SPECIFICATION Spec

INVARIANTS
  TypeOK
  StreamsAreOrdered
  DraftIsOfTheQuestion
  ThoughtsAreTimed

PROPERTIES
  TurnsSpec

CHECK_DEADLOCK FALSE

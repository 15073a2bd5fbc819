CONSTANTS
  None = None
  Questions = {1}
  MaxTokens = 2
  MaxPanels = 1

SPECIFICATION Spec

PROPERTIES
  StoppedRequestsAreQuiet

CHECK_DEADLOCK FALSE

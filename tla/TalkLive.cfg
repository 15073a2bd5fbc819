CONSTANTS
  None = None
  Questions = {1, 2}
  MaxTokens = 1
  MaxPanels = 1

SPECIFICATION FairSpec

PROPERTIES
  TurnsEnd
  BridgeIsFreed
  ThreadsFinish

CHECK_DEADLOCK FALSE

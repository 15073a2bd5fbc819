CONSTANTS
  None = None
  Questions = {1, 2, 3}
  MaxTokens = 1
  MaxPanels = 1

SPECIFICATION Spec

INVARIANTS
  OneGenerationAtATime

CHECK_DEADLOCK FALSE

CONSTANTS
  Presets = {"small", "large"}
  Tokens = {"plain", "first", "rest", "stray", "stop"}
  EndTokens = {"stop"}
  Piece <- MCPiece
  BatchSize = 2
  ContextSize = 6
  MaxPrompt = 3
  MaxTokens = 4
  MaxRequests = 2
  None = None

SPECIFICATION Spec

INVARIANTS
  TypeOK
  EngineIsWhole
  MemoryIsOfTheRequest
  ReplyIsWhole

SPECIFICATION Spec
CONSTANTS
  Piece <- MCPiece
  EOG <- MCEOG
  Setups <- MCSetups
  MaxTokens = 5
  MAX_REPETITION_THRESHOLD = 28
INVARIANT OffersExactly
PROPERTY FailsOnlyKnown
CHECK_DEADLOCK FALSE

SPECIFICATION Spec
CONSTANTS
  r1 = r1
  r2 = r2
  r3 = r3
  Request = {r1, r2, r3}
  Says <- MCSays
  Offers <- MCOffers
  NCtx = 6
  Margin = 1
  Prompts = {1, 5}
  MaxTokens <- MCMax
  Strip = TRUE
  ParseEvery = 2
CHECK_DEADLOCK FALSE
INVARIANTS Undisturbed OnlyDroppedStalls WellFormed TextMatches
PROPERTIES InOrder

SPECIFICATION Spec
CONSTANTS
  r1 = r1
  r2 = r2
  Request = {r1, r2}
  Nobody = Nobody
  Says <- MCSays
  Offers <- MCOffers
  NCtx = 4
  Prompts = {1, 4}
  MaxTokens <- MCMax
  ParseEvery = 3
CHECK_DEADLOCK FALSE
INVARIANTS SendsAnswer StreamReassembles
PROPERTIES StreamEnds

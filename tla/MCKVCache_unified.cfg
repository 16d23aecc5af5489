SPECIFICATION Spec
CONSTANTS
  Seqs <- MCSeqs2
  Size = 3
  MaxPos = 2
  Unified = TRUE
  SwaType = "none"
  SwaWindow = 1
  NUbatch = 2
  Batches <- MCThree
  Ops <- MoveOps
  Froms <- MCFroms
  Tos <- MCTos
  Deltas <- MCBack
  Divisors = {2}
  MaxShift = 1
CONSTRAINT InScope
VIEW MCView
PROPERTIES TrialRestores RefusedOnlyWhenFull UbatchUndone ImplementsMemory

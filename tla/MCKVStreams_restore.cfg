SPECIFICATION SpecStreams
CONSTANTS
  Seqs <- MCSeqs
  Size = 2
  MaxPos = 1
  Unified = FALSE
  SwaType = "none"
  SwaWindow = 1
  NUbatch = 2
  Batches <- MCBatches
  Ops <- AllOps
  Froms <- MCFroms
  Tos <- MCEnds
  Deltas <- MCDeltas
  Divisors = {2}
  MaxShift = 1
  Toks = {"a", "b"}
  SaveOf <- MCSaveOf
  MaxPending = 2
  MaxBetween = 1
VIEW MCView
PROPERTIES RestoreReturns

SPECIFICATION Spec
CONSTANTS
  Seqs = {0, 1, 2}
  Batches <- MCGiven
  AutoBatches <- MCAutoAll
  Mems <- MCMems
  NUbatches = {1, 2, 3}
  Kinds = {"simple", "equal", "sequential", "seq"}
INVARIANTS EachTokenOnce KeepsOrder BlocksMatchStreams OutputsResolve
CHECK_DEADLOCK FALSE

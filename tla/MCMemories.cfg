SPECIFICATION Spec
CONSTANTS
  Seqs = {0, 1, 2}
  MaxPos = 5
  Unified = FALSE
  SwaType = "standard"
  SwaWindow = 2
  NUbatch = 2
  BaseSize = 6
  SwaSize = 4
  Kinds = {"recurrent", "iswa", "hybrid", "hybrid_iswa"}
  BatchesOf <- MCBatchesOf
  SeqsOf <- MCSeqsOf
  OpsOf <- MCOpsOf
  Froms <- MCFroms
  Tos <- MCTos
  Divisors = {2}
  MaxShift = 1
  MaxPosOf <- MCMaxPosOf
VIEW MCView
INVARIANTS SwaWithinBase EndsAgree
PROPERTIES ImplementsStates SoundKept WindowKept
CHECK_DEADLOCK FALSE

SPECIFICATION Spec
CONSTANTS
  Capacity = 2
  MaxAdds = 5
  MaxPauses = 3
INVARIANTS FileInOrder PauseFlushes
PROPERTIES PauseReturns
CHECK_DEADLOCK FALSE

SPECIFICATION Spec
CONSTANTS
  s1 = s1
  s2 = s2
  Size = 2
  Seqs = {s1, s2}
  MaxPos = 2
  Deltas <- MCDeltas
  Divisors = {2}
  MaxShift = 2
SYMMETRY SeqSymmetry
INVARIANTS IndexOK ShiftAccounts

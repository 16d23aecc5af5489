SPECIFICATION Spec
CONSTANTS
  Seqs <- MCSeqs
  Room = 6
  NBatch = 3
  NUbatch = 2
  Gens = {"g1", "g2"}
  Uses <- MCUses
INVARIANTS Exact TextWhole SeqsApart KnownAborts
PROPERTIES Resumes
CHECK_DEADLOCK FALSE

SPECIFICATION Spec
CONSTANTS
  Sampler = {s1, s2, s3, s4}
  Handle = {h1, h2, h3}
  Null = Null
  MaxGeneration = 2
SYMMETRY Symmetry
INVARIANTS SingleOwner FlatHandleSafe
PROPERTIES RetiredForGood
CHECK_DEADLOCK FALSE

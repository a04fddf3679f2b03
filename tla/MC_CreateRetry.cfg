SPECIFICATION Spec
CONSTANTS
  Workers = {w1, w2, w3, w4}
  None = None
SYMMETRY Symmetry
CHECK_DEADLOCK FALSE
INVARIANTS
  OkIsMine
  ErrorMeansLost

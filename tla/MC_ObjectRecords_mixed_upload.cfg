SPECIFICATION Spec
CONSTANTS
  p1 = p1
  p2 = p2
  ObjectIds = {o1}
  Workers = {w1, w2}
  Payloads <- TwoPayloads
  MaxVersion = 3
  LargeWrites <- BothLarge
  Faults = FALSE
  None = None
SYMMETRY Symmetry
INVARIANTS
  LargeBlobMatchesDek

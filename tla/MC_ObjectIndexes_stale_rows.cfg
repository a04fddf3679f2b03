SPECIFICATION IndexSpec
CONSTANTS
  p1 = p1
  p2 = p2
  t1 = t1
  t2 = t2
  ObjectIds = {o1}
  Workers = {w1}
  Payloads <- TwoPayloads
  MaxVersion = 3
  LargeWrites = {}
  Faults = FALSE
  None = None
  Names <- TwoNames
  Tokens <- TwoTokens
  IndexTokens <- DifferInFirst
  BatchLimit = 2
  GsiLag = FALSE
SYMMETRY Symmetry
INVARIANTS
  ExactMatch

SPECIFICATION IndexSpec
CONSTANTS
  p1 = p1
  p2 = p2
  t1 = t1
  t2 = t2
  ObjectIds = {o1}
  Workers = {w1, w2}
  Payloads <- TwoPayloads
  MaxVersion = 3
  LargeWrites = {}
  Faults = TRUE
  None = None
  Names <- TwoNames
  Tokens <- TwoTokens
  IndexTokens <- OneOrTwo
  BatchLimit = 1
  GsiLag = TRUE
SYMMETRY Symmetry
INVARIANTS
  RowsWereWritten
  
PROPERTIES
  ImplementsVersionedObjects

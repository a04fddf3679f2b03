SPECIFICATION IndexSpec
CONSTANTS
  p1 = p1
  p2 = p2
  t1 = t1
  t2 = t2
  ObjectIds = {o1}
  Workers = {w1, w2}
  Payloads <- OnePayload
  MaxVersion = 3
  LargeWrites <- Large
  Faults = TRUE
  None = None
  Names <- TwoNames
  Tokens <- TwoTokens
  IndexTokens <- DifferInFirst
  BatchLimit = 2
  GsiLag = FALSE
SYMMETRY Symmetry
INVARIANTS
  CreatedWithIndexes
  IInv
  LargeBlobUploaded
PROPERTIES
  ImplementsVersionedObjects

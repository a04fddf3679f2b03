SPECIFICATION FairSpec
CONSTANTS
  None = None
  Sign = 2
  Infinity = 6
  Infinity32 = 1
  Second = 2
  Enc <- SmallEnc
  Ids = {1, 2, 3}
  MinId = 0
  MaxId = 4
  MaxRange = 7
  Starts <- SmallStarts
  BatchSize = 2
  MaxChanges = 2
  MaxPage = 3
CHECK_DEADLOCK FALSE
INVARIANTS
  IInv
  InKeyOrder
  ExactAnswer
  TrueToValues
PROPERTY
  TraversalEnds

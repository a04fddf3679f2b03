SPECIFICATION LuckySpec
CONSTANTS
  Workers = {w1, w2}
  None = None
CHECK_DEADLOCK FALSE
PROPERTY
  CreateReturns

SPECIFICATION FairSpec
CONSTANTS
  Calls = {k1, k2, k3, k4}
  LongCalls = {k4}
  Conns = {c1, c2}
  MaxIdle = 1
  Crashes = TRUE
  GaveUp = GaveUp
  None = None
INVARIANTS
  TypeOK
  AnswerIsOwn
  InSync
  OneUser
  NoLeak
PROPERTIES
  ImplementsEnclaveCalls
  Returned
\* Every call is made once: the system stops when all have returned.
CHECK_DEADLOCK FALSE

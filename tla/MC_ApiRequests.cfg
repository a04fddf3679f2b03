SPECIFICATION ApiSpec
CONSTANTS
  None = None
  Requests = {r1, r2, r3}
  Window = 3
  Limit = 2
  MaxDelay = 1
  MaxTime = 4
SYMMETRY Symmetry
CHECK_DEADLOCK FALSE
INVARIANTS
  ApiInv
  LastMinuteLimited
  RejectedWhenBusy
  OwnTenantServed
PROPERTY
  TurnedAwayByLagOrError

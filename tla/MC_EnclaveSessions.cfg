SPECIFICATION Spec
CONSTANTS
  Clients = {c1, c2}
  Calls = {r1}
  TTL = 3
  MaxTime = 5
  MaxBoot = 3
  None = None
SYMMETRY Symmetry
CHECK_DEADLOCK FALSE
INVARIANTS
  IInv
  EnvelopesOpen
  RefusedOnlyWhenGone
  LiveIsFound
PROPERTY
  GoneForGood

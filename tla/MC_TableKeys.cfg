SPECIFICATION Spec
CONSTANTS
  Workers = {w1, w2, w3}
  Keys = {k1, k2, k3, k4}
  Lag = TRUE
  None = None
SYMMETRY Symmetry
INVARIANTS
  HandedWasStored
PROPERTIES
  FinalKey
  AgreedForGood

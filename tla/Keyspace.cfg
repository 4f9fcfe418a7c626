SPECIFICATION Spec
CONSTANTS
  Keys = {k1, k2}
  Clients = {c1}
  MaxVersion = 4
SYMMETRY Symmetry
INVARIANTS
  Inv
  ExpiryHasKey
PROPERTIES
  WatchNoticed
CHECK_DEADLOCK FALSE

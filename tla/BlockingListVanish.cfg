CONSTANTS
  k1 = k1
  k2 = k2
  c1 = c1
  c2 = c2
  Keys <- TwoKeys
  Consumers <- TwoConsumers
  KeyArgs <- BothOrders
  PushSizes = {1, 2}
  MaxVals = 3
SPECIFICATION Spec
INVARIANT NoElementVanishes
CHECK_DEADLOCK FALSE

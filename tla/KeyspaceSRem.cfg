SPECIFICATION Spec
CONSTANTS
  Keys = {k1}
  Clients = {}
  MaxVersion = 2
PROPERTY EveryChangeIsTold
CHECK_DEADLOCK FALSE

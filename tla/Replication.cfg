CONSTANTS
  c1 = c1
  c2 = c2
  Clients <- TwoClients
  Ops = {"SET", "FLUSHDB"}
  Features = {"multi", "stop", "local"}
  WritesDuringSync = TRUE
  MaxWrites = 2
  MaxLoops = 2
  MaxBreaks = 1
  MaxConns = 2
SPECIFICATION Spec
INVARIANTS
  Inv
  SentOnceInOrder
  OneLateMessage
CHECK_DEADLOCK FALSE

CONSTANTS
  c1 = c1
  c2 = c2
  Clients <- OneClient
  Ops = {"INCR"}
  Features = {}
  WritesDuringSync = TRUE
  MaxWrites = 1
  MaxLoops = 1
  MaxBreaks = 0
  MaxConns = 1
SPECIFICATION Spec
INVARIANT InSync
CHECK_DEADLOCK FALSE

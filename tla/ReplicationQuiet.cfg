CONSTANTS
  c1 = c1
  c2 = c2
  Clients <- OneClient
  Ops = {"SET", "INCR"}
  Features = {}
  WritesDuringSync = FALSE
  MaxWrites = 3
  MaxLoops = 1
  MaxBreaks = 2
  MaxConns = 3
SPECIFICATION FairSpec
INVARIANT InSync
PROPERTY EventuallyInSync
CHECK_DEADLOCK FALSE

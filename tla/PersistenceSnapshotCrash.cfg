CONSTANTS
  r1 = r1
  r2 = r2
  h1 = h1
  b1 = b1
  RespClients <- OneResp
  HttpClients <- Nobody
  BlockClients <- Nobody
  RespOps = {"INCR"}
  HttpOps = {}
  Values = {"plain"}
  Features = {"save"}
  Fsync = "always"
  MaxCmds = 2
  MaxCrashes = 1
SPECIFICATION Spec
PROPERTY SurvivesRestarts
CHECK_DEADLOCK FALSE

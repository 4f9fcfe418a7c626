CONSTANTS
  r1 = r1
  r2 = r2
  h1 = h1
  b1 = b1
  RespClients <- TwoResp
  HttpClients <- OneHttp
  BlockClients <- OneBlock
  RespOps <- AllRespOps
  HttpOps <- AllHttpOps
  Values = {"plain", "escape", "long"}
  Features = {"save", "torn"}
  Fsync = "always"
  MaxCmds = 3
  MaxCrashes = 2
SPECIFICATION Spec
INVARIANTS
  Inv
PROPERTIES
  RestartKeepsAnswered
  SaveHeals
CHECK_DEADLOCK FALSE

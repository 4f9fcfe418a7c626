SPECIFICATION Spec
CONSTANTS
  s1 = s1
  Subscribers = {s1}
  Names <- MCNames
  Matching <- MCMatching
  Channels = {"news"}
  BufferSize = 1
  QueueSize = 1
  MaxMessages = 2
  NodeOrder <- MCNodeOrder
  ServerAt <- MCServerAt
  Viewers = {"a", "b"}
  OwnAddr <- MCOwnAddr
  StaticPeers <- MCStaticPeers
  SlotCount = 5
  MaxCommands = 2
  MaxCrashes = 1
  Masters = {"a", "b"}
  MaxLoops = 3
  MaxLosses = 1
  MaxSwitches = 3
  Limit = 2
  Window = 4
  TicksPerMs = 2
  MaxTime = 9
  Elements = {"x", "y"}
  MinCap = 2
  MaxCount = 5
  Members = {1, 2, 3}
  Scores = {1, 2}
  EvictKeys = {"k1", "k2"}
  Sizes = {1, 3}
  Limits = {0, 2}
  RefreshEvery = 3
  SampleSize = 2
INVARIANTS
  PubSubInv
  ClusterInv
  MultiMasterInv
  RateInv
  DequeInv
  SortedSetInv
  EvictionInv
PROPERTIES
  PubSubLive
  ClusterLive
  MultiMasterLive
  DequeIsSequence
  EvictionEnds
  EvictedEnough
CHECK_DEADLOCK FALSE

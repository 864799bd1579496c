SPECIFICATION DataSpec
CONSTANTS
  Base = 8
  MaxNumSize = 2
  MaxNumber = 255
  MaxN = 2
  PushLimits <- MCPushLimits
  MaxElement = 5
  MaxOps = 8
  MaxKeys = 3
  MaxSize = 40
  MaxStack = 8
  DerSigs <- MCDer
  TypedSigs <- MCTyped
  CompressedKeys <- MCCompressed
  UncompressedKeys <- MCUncompressed
  Accepted <- MCAccepted
  Tx <- MCTx
  LockThreshold = 30
  Scripts <- MCScripts
  FlagSets <- MCFlagSets
  Addrs = {"a", "b"}
  Capacity = 1
  StorageTime = 0
  Savers = {1, 2}
  Faults = {"open", "write"}
  MaxTime = 2
  MaxCalls = 2
  MaxLives = 2
  ArenaSize = 8
  Alignment = 2
  Sizes = {0, 1, 3, 4, 9}
  Limits = {0, 5, 20}
  MaxArenas = 2
  Threads = {1, 2}
  MaxConnections = 2
  MaxHandles = 2
  MaxNested = 2
  MaxPools = 2
  MaxMishaps = 1
INVARIANTS DataTypeOK MultiSigIsMatching DepthFollowsScript
  FileIsWhole KnownIsSaved BannedStaysOut  PoolsHold
PROPERTIES SkippedIsInert DigestsAgree
\* Scripts end, and the node is not started for ever.
CHECK_DEADLOCK FALSE

SPECIFICATION Spec
CONSTANTS
  NVertices = 4
  MaxThreads = 3
  MaxPaths = 4
  Requests = {0, 1, 2, 3, 9}
  WorkspaceBytes = {0, 100000001}
  MatchCounts <- FewOrMany
  WordBytes = 8
  ContextBytes = 408
  ResultBytes = 26400008
  HandleBytes = 8
  FlagBytes = 4
INVARIANTS
  ParallelTypeOK
  ShardsPartition
  BlocksApart
  ArenaOutlivesThreads
  ParallelExact
CHECK_DEADLOCK FALSE

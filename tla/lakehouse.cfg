SPECIFICATION Spec
CONSTANTS
  Queries = {"last", "middle"}
  Pattern <- Patterns
  within_ms <- Within
  Lateness = 1
  Logs <- LakeLogs
  NullType = NullType
  None = None
  Scan = Scan
  Minute = 2
  Replays = {"scan"}
  ChangedMs <- Ranges
  MaxNow = 3
  MaxFailures = 1
INVARIANTS
  LakeTypeOK
  BufferHoldsLive
  LiveTrendsReal
  OneRowPerTrend
  RetractionsJustified
  ReplayExact
PROPERTIES
  CommitsComplete
CHECK_DEADLOCK FALSE

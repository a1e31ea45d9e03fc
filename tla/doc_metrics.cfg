SPECIFICATION FairSpec
CONSTANTS
  Queries = {"last"}
  Pattern <- Patterns
  within_ms <- Within
  Lateness = 1
  Logs <- LakeLogs
  NullType = NullType
  None = None
  Scan = Scan
  Minute = 2
  Replays = {"scan"}
  ChangedMs <- Ranges
  MaxNow = 0
  MaxFailures = 0
PROPERTY
  DurationReported
CHECK_DEADLOCK FALSE

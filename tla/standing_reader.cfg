SPECIFICATION FairPinnedSpec
CONSTANTS
  EventIds = {1, 2, 3}
  DefaultKey = "default"
  EmptyKey = ""
  Partitions = {"default", "p"}
  u1 = u1
  u2 = u2
  NoValue = NoValue
  Unlimited = Unlimited
  NoSnapshot = NoSnapshot
  MaxGap = 3
  EventTypes <- MCTypes
  EntityKeys <- MCEntityKeys
  Values <- MCValues
  Payloads <- SmallPayloads
  Queries <- TwoQueries
  NSinks = 2
  MaxWindow = 2
  MaxMatches = 2
  EmitCancellations = TRUE
  MaxRevision = 5
CHECK_DEADLOCK FALSE
INVARIANTS
  ActiveIsLive
PROPERTIES
  ReaderSpec

SPECIFICATION FaultSpec
CONSTANTS
  EventIds = {1, 2}
  DefaultKey = "default"
  EmptyKey = ""
  Partitions = {"default", "p"}
  u1 = u1
  u2 = u2
  NoValue = NoValue
  Unlimited = Unlimited
  NoSnapshot = NoSnapshot
  MaxGap = 3
  EventTypes <- MCTypes
  EntityKeys <- MCEntityKeys
  Values <- MCValues
  Payloads <- FaultPayloads
  Queries <- OneQuery
  NSinks = 2
  MaxWindow = 10
  MaxMatches = 10
  EmitCancellations = TRUE
  MaxRevision = 3
CHECK_DEADLOCK FALSE
INVARIANTS
  ShownOrForgotten
  NoLostPositiveUnlessFailed

SPECIFICATION ReliableSpec
CONSTANTS
  EventIds = {1, 2, 3}
  DefaultKey = "default"
  EmptyKey = ""
  Partitions = {"default", "p"}
  u1 = u1
  u2 = u2
  NoValue = NoValue
  Unlimited = Unlimited
  NoSnapshot = NoSnapshot
  MaxGap = 3
  EventTypes <- MCTypes
  EntityKeys <- MCEntityKeys
  Values <- MCValues
  Payloads <- TypedPayloads
  Queries <- OneQuery
  NSinks = 2
  MaxWindow = 10
  MaxMatches = 10
  EmitCancellations = TRUE
  MaxRevision = 4
CHECK_DEADLOCK FALSE
INVARIANTS
  RuntimeTypeOK
  ReadersCatchUp
  CancelsAreInvalid
PROPERTIES
  DeliveriesAlternate
  CallsRepairView

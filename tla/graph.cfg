SPECIFICATION FamilySpec
CONSTANTS
  EventIds = {1, 2, 3, 4}
  DefaultKey = "default"
  EmptyKey = ""
  Partitions = {"", "default"}
  u1 = u1
  u2 = u2
  NoValue = NoValue
  Unlimited = Unlimited
  NoSnapshot = NoSnapshot
  MaxGap = 1
  MaxRevision = 4
  EventTypes <- MCTypes
  EntityKeys <- MCEntityKeys
  Values <- MCValues
  Payloads <- AllPayloads
CHECK_DEADLOCK FALSE
INVARIANTS
  TypeOK
  MapsAgree
  EdgesForward
  EntityEdgesExact
  ParentEdgesSound
  IndexExact
  LateEventsLinked
PROPERTIES
  OtherEdgesKept

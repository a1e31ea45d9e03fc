SPECIFICATION Spec
CONSTANTS
  Messages <- MCMessages
  Hash <- MCHash
  Queries <- MCQueries
  Missing = Missing
  Salts = {1, 2}
  batch_size = 2
  max_messages = 2
  MaxRuns = 2
  MaxNow = 2
  Retention = 1
  Tasks = {t1, t2}
  MaxFailures = 1
  NoValue = NoValue
  Unlimited = Unlimited
  EntityKeys = {}
  EmptyValue = ""
  MaxGap = 2
  MaxPathLen = 3
  MaxPaths = 3
  MaxEvents = 3
  MaxEdges = 1
  MaxInt = 7
  Numbers = {}
  TextMatches = {}
INVARIANTS
  MainTypeOK
  NoDeadLetterWithoutRetry
PROPERTIES
  ColocatedComplete
SYMMETRY TaskSymmetry
CHECK_DEADLOCK FALSE

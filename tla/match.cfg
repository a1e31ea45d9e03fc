SPECIFICATION BatchSpec
CONSTANTS
  NEvents = 4
  Inputs <- MatchInputs
  Caps = {0, 1, 2, 100}
  u1 = u1
  u2 = u2
  NoValue = NoValue
  Unlimited = Unlimited
  EntityKeys = {"user_id"}
  EmptyValue = ""
  MaxGap = 2
  MaxPathLen = 4
  MaxPaths = 10
  MaxEvents = 100
  MaxEdges = 100
  MaxInt = 7
  Numbers = {}
  TextMatches = {}
INVARIANTS
  SearchIsExact
  TrendsAreValid
  NativeSuperset
CHECK_DEADLOCK FALSE

SPECIFICATION Spec
CONSTANTS
  EventTypes = {"A", "B"}
  Calls <- KernelCalls
  MaxPaths = 8
  MaxPathLen = 5
  NoValue = NoValue
  EmptyValue = EmptyValue
  Unlimited = Unlimited
  MaxGap = 2
INVARIANTS
  KernelTypeOK
  PathsSound
  ResultsExact
  OverflowExact
PROPERTIES
  Terminates
CHECK_DEADLOCK FALSE

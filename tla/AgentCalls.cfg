SPECIFICATION FairSpec
CONSTANTS
  SchemaRetries = 1
  TransientRetries = 2
  MaxCompactions = 2
  MaxSteps = 3
  MaxTools = 2
  MaxSubs = 1
  SubSteps = 3
  SubTools = 1
  SubContexts = 1
  OtherCalls = 1
INVARIANTS EveryEndIsTraced CallsBounded CallsAreCounted RefusedOnlyWhenLate TimeoutsKept
PROPERTIES RunEnds
CHECK_DEADLOCK FALSE

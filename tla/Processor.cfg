\* Both streams with every disturbance once.
SPECIFICATION FairSpec
CONSTANTS
  Backend = "sqlite"
  MaxMessages <- TwoAndOne
  MaxCrashes = 1
  MaxStops = 1
  MaxRepeats = 1
  MaxFailures = 1
  MaxConflicts = 1
INVARIANTS
  TypeOK
  LossBounded
  DuplicatesBounded
PROPERTIES
  EveryMessageHandled
CHECK_DEADLOCK FALSE

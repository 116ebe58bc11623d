\* One reading against the Postgres schema, with nothing going wrong.
SPECIFICATION Spec
CONSTANTS
  Backend = "postgres"
  MaxMessages <- OneAndNone
  MaxCrashes = 0
  MaxStops = 0
  MaxRepeats = 0
  MaxFailures = 0
  MaxConflicts = 0
INVARIANTS
  LossBounded
CHECK_DEADLOCK FALSE

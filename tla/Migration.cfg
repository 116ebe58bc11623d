\* Three runs with a failure, between services that write to both databases.
SPECIFICATION Spec
CONSTANTS
  Stored <- NoMetrics
  Muted = {h1}
  MaxRuns = 3
  MaxFailures = 1
  MaxWrites = 1
  MaxDeletes = 2
  MaxForeign = 1
INVARIANTS
  TypeOK
  CopiedOnce
  MissedBounded
  RepeatsBounded
CHECK_DEADLOCK FALSE

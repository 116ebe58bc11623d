\* One undisturbed run from a database without metrics.
SPECIFICATION Spec
CONSTANTS
  Stored <- NoMetrics
  Muted = {h1}
  MaxRuns = 1
  MaxFailures = 0
  MaxWrites = 0
  MaxDeletes = 0
  MaxForeign = 0
INVARIANTS
  FailsOnlyOnError
CHECK_DEADLOCK FALSE

\* Every call that may fail, and edits of the rules under a running alerter.
SPECIFICATION Spec
CONSTANTS
  Backend = "postgres"
  Hosts = {h1}
  Readings <- BothReadings
  Garbled = Garbled
  StoredRules <- EditedCpu
  Settings <- CpuOff
  Faults = {"open", "close", "restore", "reload"}
  MaxReadings = 3
  MaxCrashes = 1
  MaxStops = 0
  MaxRepeats = 0
  MaxEdits = 1
  MaxFaults = 1
  MaxUnsent = 1
INVARIANTS
  NoticesMatchIncidents
  OrphanBound
  CpuAlertEarned
CHECK_DEADLOCK FALSE

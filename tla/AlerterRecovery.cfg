\* Crashes, stops, restarts and redeliveries around every step of check.
SPECIFICATION Spec
CONSTANTS
  Backend = "postgres"
  Hosts = {h1}
  Readings <- BothReadings
  Garbled = Garbled
  StoredRules <- EitherTable
  Settings <- NoSettings
  Faults = {"abort", "conflict"}
  MaxReadings = 3
  MaxCrashes = 1
  MaxStops = 1
  MaxRepeats = 1
  MaxEdits = 0
  MaxFaults = 1
  MaxUnsent = 0
INVARIANTS
  TypeOK
  OneOpenIncident
  AlertedIffOpen
  TableFollowsReading
  CpuAlertEarned
CHECK_DEADLOCK FALSE

\* A CPU rule switched off and on again while the alerter counts.
SPECIFICATION Spec
CONSTANTS
  Backend = "sqlite"
  Hosts = {h1}
  Readings <- CpuReadings
  Garbled = Garbled
  StoredRules <- EditedCpu
  Settings <- CpuOff
  Faults = {}
  MaxReadings = 3
  MaxCrashes = 0
  MaxStops = 0
  MaxRepeats = 0
  MaxEdits = 2
  MaxFaults = 0
  MaxUnsent = 0
INVARIANTS
  CpuAlertConsecutive
CHECK_DEADLOCK FALSE

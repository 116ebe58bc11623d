\* Two hosts and a crash: the table follows the abstract log
\* and every reading is handled.
SPECIFICATION FairSpec
CONSTANTS
  Backend = "sqlite"
  Hosts = {h1, h2}
  Readings <- RamReadings
  Garbled = Garbled
  StoredRules <- Fresh
  Settings <- NoSettings
  Faults = {}
  MaxReadings = 2
  MaxCrashes = 1
  MaxStops = 0
  MaxRepeats = 0
  MaxEdits = 0
  MaxFaults = 0
  MaxUnsent = 0
PROPERTIES
  ImplementsIncidentLog
  EveryReadingHandled
CHECK_DEADLOCK FALSE

\* Three processes start together, fail and are restarted, beside two edits.
SPECIFICATION Spec
CONSTANTS
  Processes <- AllThree
  Settings <- Edits
  MaxCrashes = 1
  MaxFailures = 1
  MaxEdits = 2
INVARIANTS
  TypeOK
  DuplicatesBounded
PROPERTIES
  InitNeverOverrides
CHECK_DEADLOCK FALSE

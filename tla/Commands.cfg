\* Two hosts, two commands.
SPECIFICATION FairSpec
CONSTANTS
  h1 = h1
  h2 = h2
  Hosts = {h1, h2}
  None = None
  MaxProcesses <- TwoAndOne
  MaxCommands = 2
  MaxCrashes = 1
  MaxStops = 1
  MaxRepeats = 1
  MaxFailures = 1
  MaxTroubles = 3
INVARIANTS
  TypeOK
  CommandStaysOnItsHost
  OneVictimPerDelivery
  AcceptedIsKept
  DeafHasReason
PROPERTIES
  EveryCommandFinished
CHECK_DEADLOCK FALSE

\* Two hosts and two browsers.
SPECIFICATION FairSpec
CONSTANTS
  h1 = h1
  h2 = h2
  Hosts = {h1, h2}
  Parts <- OnePart
  PartsEvery = 2
  Browsers = {b1, b2}
  MaxTicks <- TwoAndOne
  MaxTroubles = 1
  MaxInvalid = 1
  MaxConnects = 2
  MaxStalls = 1
  MaxCrashes = 1
  MaxStops = 1
  MaxRepeats = 1
INVARIANTS
  TypeOK
  CacheKeepsNewest

PROPERTIES
  StaleGaugesCorrected
  EveryMessageShown
  HandlersGetTheLock
CHECK_DEADLOCK FALSE

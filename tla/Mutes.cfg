\* The bot with every disturbance once.
SPECIFICATION FairSpec
CONSTANTS
  h1 = h1
  h2 = h2
  owner = owner
  stranger = stranger
  Hosts = {h1, h2}
  Chats = {owner, stranger}
  Allowed = {owner}
  Updates <- SomeUpdates
  Minute = 2
  Half = 8
  KeepsExpired = FALSE
  MaxNow = 2
  MaxUpdates = 2
  MaxCrashes = 1
  MaxStops = 1
  MaxFaults = 1
INVARIANTS
  TypeOK
  ConfirmedMuteHolds
  ConfirmedUnmuteHolds
  NewestWins
  AnsweredOnce
PROPERTIES
  EveryUpdateAnswered
CHECK_DEADLOCK FALSE

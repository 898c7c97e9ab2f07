\* One room of three users, two churn ticks, up to three failed token fetches, one
\* user that ends by itself, under fairness.
SPECIFICATION FairSpec
CONSTANTS
  Rooms = 1
  RoomUsers = 3
  Churning = TRUE
  MaxChurns = 2
  MaxFailed = 3
  MaxEnded = 1
INVARIANTS
  OneRunnerPerSlot
  PopulationAccounts
  GaugeDrift
PROPERTIES
  RunEnds
CHECK_DEADLOCK FALSE

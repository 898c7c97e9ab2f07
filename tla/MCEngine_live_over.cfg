\* No churn of a joining runner is needed: one runner ends by itself.
SPECIFICATION Spec
CONSTANTS
  Rooms = 1
  RoomUsers = 2
  Churning = TRUE
  MaxChurns = 0
  MaxFailed = 0
  MaxEnded = 1
INVARIANT
  RoomLiveOnlyLive
CHECK_DEADLOCK FALSE

\* Nothing fails; churn may pick a runner that is still joining.
SPECIFICATION Spec
CONSTANTS
  Rooms = 1
  RoomUsers = 2
  Churning = TRUE
  MaxChurns = 1
  MaxFailed = 0
  MaxEnded = 0
INVARIANT
  RoomLiveCountsAll
CHECK_DEADLOCK FALSE

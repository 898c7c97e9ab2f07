\* The only listed runner's replacement cannot be spawned.
SPECIFICATION Spec
CONSTANTS
  Rooms = 1
  RoomUsers = 1
  Churning = TRUE
  MaxChurns = 2
  MaxFailed = 1
  MaxEnded = 0
INVARIANT
  ChurnFindsRunner
CHECK_DEADLOCK FALSE

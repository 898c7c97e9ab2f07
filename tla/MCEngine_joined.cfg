\* One user, replaced once, nothing fails.
SPECIFICATION Spec
CONSTANTS
  Rooms = 1
  RoomUsers = 1
  Churning = TRUE
  MaxChurns = 1
  MaxFailed = 0
  MaxEnded = 0
INVARIANT
  CleanRunsJoinWhatWasRequested
CHECK_DEADLOCK FALSE

\* The connection is open, and its consumer cannot be attached.
SPECIFICATION Spec
CONSTANTS
  InitCap = 1
  ListCap = 2
  MaxMissed = 2
  MaxRepeats = 0
  MaxPongs = 2
  MaxSendErrors = 1
INVARIANT
  ReturnsClosed
CHECK_DEADLOCK FALSE

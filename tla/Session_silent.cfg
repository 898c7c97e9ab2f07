\* One publish fails: the ping loop's own.
SPECIFICATION Spec
CONSTANTS
  InitCap = 1
  ListCap = 2
  MaxMissed = 2
  MaxRepeats = 0
  MaxPongs = 2
  MaxSendErrors = 1
INVARIANT
  EarlyEndIsReported
CHECK_DEADLOCK FALSE

\* One listener.
SPECIFICATION Spec
CONSTANTS
  MaxUsers = 1
  Flags <- OneListener
INVARIANT
  StoppedIsOffline
CHECK_DEADLOCK FALSE

\* One listener.
SPECIFICATION Spec
CONSTANTS
  MaxUsers = 1
  Flags <- OneListener
INVARIANT
  GaugeReturnsToZero
CHECK_DEADLOCK FALSE

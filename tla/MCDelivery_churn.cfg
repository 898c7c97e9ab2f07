\* Two users are replaced one after the other while the clock moves on; one of them
\* is still joining; one leave event may come twice, or one user end by itself.
SPECIFICATION Spec
CONSTANTS
  a = a
  b = b
  c = c
  Users = {a, b, c}
  Chatters = {}
  Churned = {b, c}
  AtStart = {a, b}
  Cap = 9
  SweepEvery = 1
  TTL = 9
  MaxTime = 1
  MaxFaults = 1
INVARIANTS
  TypeOK
  LeaveSamplesNotNegative
CHECK_DEADLOCK FALSE

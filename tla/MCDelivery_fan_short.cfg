\* A fixed room of three users, nothing lost, nobody leaves.
SPECIFICATION Spec
CONSTANTS
  a = a
  b = b
  c = c
  Users = {a, b, c}
  Chatters = {a}
  Churned = {}
  AtStart = {a, b, c}
  Cap = 9
  SweepEvery = 1
  TTL = 9
  MaxTime = 0
  MaxFaults = 0
INVARIANT
  EveryoneMeansFullFan
CHECK_DEADLOCK FALSE

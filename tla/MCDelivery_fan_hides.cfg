\* A user is joining while another chats, and one copy is lost.
SPECIFICATION Spec
CONSTANTS
  a = a
  b = b
  c = c
  Users = {a, b, c}
  Chatters = {a}
  Churned = {}
  AtStart = {a, b}
  Cap = 9
  SweepEvery = 1
  TTL = 9
  MaxTime = 0
  MaxFaults = 1
INVARIANT
  FullFanMeansEveryone
CHECK_DEADLOCK FALSE

\* Three users, one still joining: one chats, one is churned, the clock moves on once;
\* one fault of any kind (a lost copy, a leave event that comes twice, a user that
\* ends by itself, the end of the window at the first tick).
SPECIFICATION Spec
CONSTANTS
  a = a
  b = b
  c = c
  Users = {a, b, c}
  Chatters = {a}
  Churned = {b}
  AtStart = {a, b}
  Cap = 9
  SweepEvery = 0
  TTL = 0
  MaxTime = 1
  MaxFaults = 1
VIEW Deciding
CONSTRAINT ClockStops
INVARIANTS
  LeaveNeverEarly
  FanIsExact
PROPERTY
  ImplementsRegistry
CHECK_DEADLOCK FALSE

\* Two requests to one foreign peer, one between users, one of the foreign peer;
\* one copy is delivered twice.
SPECIFICATION Spec
CONSTANTS
  u = u
  v = v
  f = f
  r1 = r1
  r2 = r2
  r3 = r3
  r4 = r4
  Synthetic = {u, v}
  Foreign = {f}
  Messages = {r1, r2, r3, r4}
  From <- MCFrom
  To <- MCTo
  Cap = 3
  SweepEvery = 0
  TTL = 1
  PendTTL = 0
  MaxTime = 1
  MaxLag = 0
  MaxRedelivered = 1
VIEW Deciding
INVARIANTS
  ForeignPeersDoNotCount
  DirectTripsCountOnce
PROPERTIES
  PendingsExpire
CHECK_DEADLOCK FALSE

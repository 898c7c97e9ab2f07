\* One request, one broadcast.
SPECIFICATION Spec
CONSTANTS
  me = me
  p = p
  q = q
  bad = bad
  Self = me
  Others = {p, q}
  Bad = bad
  JoinedAt <- MCJoinedAt
  Lists <- MCLists
  MaxSwitches = 0
PROPERTY
  SamplesAreOwn
CHECK_DEADLOCK FALSE

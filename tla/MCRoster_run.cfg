\* Two own requests and a broadcast on their way at once, two presenter switches.
SPECIFICATION FairSpec
CONSTANTS
  me = me
  p = p
  q = q
  bad = bad
  Self = me
  Others = {p, q}
  Bad = bad
  JoinedAt <- MCJoinedAt
  Lists <- MCLists
  MaxSwitches = 2
INVARIANTS
  DonorIsEarliest
  AsksEachOnce
PROPERTIES
  AnswerIsSampled
  PresenterConverges
CHECK_DEADLOCK FALSE

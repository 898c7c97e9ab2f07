\* Every plan for rooms of up to two users, and a video publisher with two
\* listeners; under fairness.
SPECIFICATION FairSpec
CONSTANTS
  MaxUsers = 3
  Flags <- SmallRooms
INVARIANTS
  PlanIsMet
  GaugeCoversLive
PROPERTY
  LoopsEnd
CHECK_DEADLOCK FALSE

\* Chats and published tracks over two ids, in a registry of two entries, so that
\* the cap, re-registration, expiry and the three lock sections of a published
\* track all meet; callers reach the lock up to one tick after their time stamp.
SPECIFICATION Spec
CONSTANTS
  chat = chat
  PubTrack = PubTrack
  m1 = m1
  m2 = m2
  Kinds = {chat, PubTrack}
  Ids = {m1, m2}
  Cap = 2
  SweepEvery = 0
  TTL = 0
  MaxExpected = 2
  MaxTime = 1
  MaxLag = 1
  MaxFan = 2
  MaxTracks = 2
SYMMETRY Symmetry
INVARIANTS
  TypeOK
  FanWithinExpected
  RegistryBounded
  PendingSendsWait
  TrackReceiptsBounded
PROPERTIES
  ForgetsOnlyDoneOrStale
  ImplementsLedger

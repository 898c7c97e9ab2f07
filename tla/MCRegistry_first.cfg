\* Two published tracks, against the comment on FirstReceiptMs.
SPECIFICATION Spec
CONSTANTS
  chat = chat
  PubTrack = PubTrack
  m1 = m1
  m2 = m2
  Kinds = {PubTrack}
  Ids = {m1, m2}
  Cap = 2
  SweepEvery = 0
  TTL = 1
  MaxExpected = 2
  MaxTime = 1
  MaxLag = 0
  MaxFan = 4
  MaxTracks = 2
SYMMETRY Symmetry
INVARIANT
  FirstReceiptReported

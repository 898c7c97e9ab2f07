\* A user with or without a media role, who gives up after two missed pings; the
\* server repeats one answer, one publish fails; channels of one and two places, where
\* the code has 4 and 128, so that they fill; under fairness.
SPECIFICATION FairSpec
CONSTANTS
  InitCap = 1
  ListCap = 2
  MaxMissed = 2
  MaxRepeats = 1
  MaxPongs = 2
  MaxSendErrors = 1
INVARIANTS
  NoLostWakeup
  JoinedWasServed
  ReturnsDrained
PROPERTIES
  GivenUpOnlyAfterSilence
  SessionEnds
CHECK_DEADLOCK FALSE

\* A series of at most four points out of up to eleven samples: the picked points
\* are up to three samples apart, so that a peak may lie between them anywhere.
\* Two pids, two names, three samples of a machine of one tick a unit, in two units
\* that may pass between any two reads: each of them may fail.
SPECIFICATION MCSpec
CONSTANTS
  MaxSeriesPoints = 4
  Rss = {1, 2}
  MaxSamples = 11
  p1 = p1
  p2 = p2
  Pids = {p1, p2}
  server = server
  tester = tester
  Names = {server, tester}
  Capacity = 1
  Uptime = 3
  MaxTime = 2
  MaxHostSamples = 3
INVARIANTS
  SeriesInOrder
  DistantAnchorsKept
  WithinMachine
SYMMETRY Symmetry
CHECK_DEADLOCK FALSE

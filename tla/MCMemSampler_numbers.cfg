\* Two samples whose reads of /proc/stat fail: the totals are no numbers.
SPECIFICATION MCSpec
CONSTANTS
  MaxSeriesPoints = 4
  Rss = {1, 2}
  MaxSamples = 11
  p1 = p1
  p2 = p2
  Pids = {p1, p2}
  server = server
  tester = tester
  Names = {server, tester}
  Capacity = 1
  Uptime = 3
  MaxTime = 2
  MaxHostSamples = 3
INVARIANTS
  TotalsAreNumbers
SYMMETRY Symmetry
CHECK_DEADLOCK FALSE

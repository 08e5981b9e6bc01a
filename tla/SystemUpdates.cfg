CONSTANTS
  Checkers = {ticker, other}
  Ticker = ticker
  Intervals = {0, 1}
  DefaultRefresh = 3
  MinRefresh = 2
  MaxCheck = 1
  Longest = 3
  Absent = Absent
  MaxReleases = 1
  MaxRuns = 1
  MaxReloads = 1
  MaxFaults = 1
SPECIFICATION FairSpec
CHECK_DEADLOCK FALSE
INVARIANTS
  TypeOK
  NoDuplicateRuns
PROPERTIES
  CountSettles

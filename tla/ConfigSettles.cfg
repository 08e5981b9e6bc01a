CONSTANTS
  a = a
  w1 = w1
  w2 = w2
  Names = {a}
  AppNames = {}
  Refreshers <- TwoRefreshers
  Reloaders <- Both
  HasToken = FALSE
  MaxEdits = 0
  MaxVersion = 1
  MaxFaults = 0
SPECIFICATION FairSpec
PROPERTIES
  WatcherRests
  VersionsSettle

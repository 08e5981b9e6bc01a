CONSTANTS
  a = a
  w1 = w1
  w2 = w2
  Names = {a}
  AppNames = {}
  Refreshers <- OneRefresher
  Reloaders <- OnlyWatcher
  HasToken = FALSE
  MaxEdits = 1
  MaxVersion = 1
  MaxFaults = 0
SPECIFICATION FairSpec
PROPERTIES
  EveryEditIsLoaded

CONSTANTS
  a = a
  w1 = w1
  w2 = w2
  Names = {a}
  AppNames = {a}
  Refreshers <- TwoRefreshers
  Reloaders <- OnlyWatcher
  HasToken = TRUE
  MaxEdits = 1
  MaxVersion = 1
  MaxFaults = 1
SPECIFICATION Spec
SYMMETRY Interchangeable
INVARIANTS
  TypeOK
PROPERTIES
  FileIsLoaded
  WriteBackIsCurrent

CONSTANTS
  r1 = r1
  r2 = r2
  r3 = r3
  op = op
  app = app
  NoRun = NoRun
  Names <- TwoNames
  OpNames <- OneName
  Persistent <- OnlyApp
  Runs <- TwoRuns
  NameOf <- OneEach
  CommandExits = {0, 3}
  MaxHistory = 1
  MaxClock = 0
  MaxDbFaults = 0
SPECIFICATION Spec
INVARIANTS
  TypeOK
  NoFalseSuccess
  ReturnedRunsAreFinished
  OwnRowWaits
  PersistentKeepsExit

CONSTANTS
  r1 = r1
  r2 = r2
  r3 = r3
  op = op
  app = app
  NoRun = NoRun
  Names <- OneName
  OpNames <- OneName
  Persistent = {}
  Runs <- ThreeRuns
  NameOf <- AllSame
  CommandExits = {0}
  MaxHistory = 1
  MaxClock = 1
  MaxDbFaults = 0
SYMMETRY Interchangeable
SPECIFICATION Spec
INVARIANTS
  OneRunPerName
  ActiveMatchesRuns
  CancelReachesItsRun
  RowsBounded
PROPERTIES
  FinishedRowsStay
  ImplementsExclusiveSafety

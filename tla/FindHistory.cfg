CONSTANTS
  r1 = r1
  r2 = r2
  r3 = r3
  op = op
  app = app
  NoRun = NoRun
  Names <- OneName
  OpNames <- OneName
  Persistent = {}
  Runs <- TwoRuns
  NameOf <- AllSame
  CommandExits = {0}
  MaxHistory = 1
  MaxClock = 0
  MaxDbFaults = 0
SPECIFICATION Spec
INVARIANTS
  HistoryAnswers

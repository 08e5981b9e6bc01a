CONSTANTS
  u1 = u1
  u2 = u2
  Initial = Initial
  Absent = Absent
  Upgraders <- TwoUpgraders
  Seconds = {1, 2}
  MaxFaults = 2
SYMMETRY Interchangeable
SPECIFICATION Spec
CHECK_DEADLOCK FALSE
INVARIANTS
  TypeOK
  OneRemains
  ServiceEndsUp
  RollbackWorks
  SuccessIsTrue

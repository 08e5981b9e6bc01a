CONSTANTS
  MaxAttempts = 5
  MaxCrashes = 2
  MaxLosses = 2
  MaxFaults = 2
SPECIFICATION FairSpec
CHECK_DEADLOCK FALSE
INVARIANTS
  TypeOK
  MarkerIsTrue
  ValidTokenStays
  HeartbeatsArePaced
PROPERTIES
  HeartbeatGoesOn
  KeyIsRestored

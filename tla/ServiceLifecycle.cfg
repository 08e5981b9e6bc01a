CONSTANTS
  u1 = u1
  u2 = u2
  v1 = v1
  v2 = v2
  Updates <- TwoUpdates
  VersionOf <- TwoVersions
  Original = Original
  Shipped = Shipped
  Partial = Partial
  None = None
  DockerEnabled = TRUE
  MaxRestarts = 1
  MaxCrashes = 1
  MaxFaults = 1
SPECIFICATION FairSpec
INVARIANTS
  TypeOK
  BinaryIsWhole
PROPERTIES
  UninstallFinishes
  ComesBack

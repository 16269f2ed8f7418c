CONSTANTS
  Run = {r1, r2}
  Version = {1, 2, 3}
  None = None
  Source <- Sources
  Catalog = {1, 2}
  MaxFaults = 3
SPECIFICATION Spec
SYMMETRY Runs
INVARIANTS
  SoundBuild
  UndisturbedBuilds
PROPERTIES
  FittingLockStays

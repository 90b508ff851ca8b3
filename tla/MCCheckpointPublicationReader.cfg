SPECIFICATION Spec
CONSTANTS
  MaxSaves = 2
  Kinds <- OrdinaryOnly
  MaxFaults = 0
  MaxCrashes = 0
  HasReader = TRUE
INVARIANTS
  ScanFindsPublished

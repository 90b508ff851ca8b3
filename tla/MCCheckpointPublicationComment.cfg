SPECIFICATION Spec
CONSTANTS
  MaxSaves = 2
  Kinds <- OrdinaryOnly
  MaxFaults = 2
  MaxCrashes = 2
  HasReader = FALSE
INVARIANTS
  VisibleIsWhole

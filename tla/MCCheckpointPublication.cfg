SPECIFICATION ThreeMishapsSpec
CONSTANTS
  MaxSaves = 3
  Kinds <- BothKinds
  MaxFaults = 2
  MaxCrashes = 3
  HasReader = TRUE
INVARIANTS
  PublishedStaysWhole
  CrashesNeverWedge
  StillScanFindsPublished
PROPERTIES
  ImplementsSlot

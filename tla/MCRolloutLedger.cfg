SPECIFICATION FairSpec
CONSTANTS
  r0 = r0
  r1 = r1
  Ranks <- RanksDef
  Primary = r0
  MaxWorlds = 2
  MaxFaults = 1
  MaxCrashes = 2
INVARIANTS
  VisibleIsWhole
  SuccessIsDurable
  RewindsOnlyUnpublished
  RanksKeepTogether
PROPERTIES
  ImplementsWindow
  EveryWorldReturns

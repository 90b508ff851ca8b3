SPECIFICATION FairSpec
CONSTANTS
  r1 = r1
  r2 = r2
  Ranks = {r1, r2}
  NoRank = NoRank
  Shapes = {"vec2", "vec3"}
  MaxCalls = 4
  MaxSpurious = 2
INVARIANTS
  TypeOK
  OneContributionPerRound
  NobodyMissesARound
  NoLostWakeup
PROPERTIES
  DeadWorldDecidesNothing
  EveryCallReturns
  FullHouseNeedsNoDeadline
  ImplementsAllReduce

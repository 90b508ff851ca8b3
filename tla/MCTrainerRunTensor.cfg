SPECIFICATION FairSpec
CONSTANTS
  r0 = r0
  r1 = r1
  Ranks <- RanksDef
  Primary = r0
  Flagged <- OnlyR1
  Sharded = TRUE
  Steps = 2
  Accum = 2
  Mu = 2
  Every = 2
  KL = FALSE
  LogCandidates = FALSE
  MaxAttempts = 3
  MaxFaults = 2
INVARIANTS
  SameCall
  RestoredMeansRestored
PROPERTIES
  RunCompletes

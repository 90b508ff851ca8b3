SPECIFICATION Spec
CONSTANTS
  r0 = r0
  r1 = r1
  Ranks <- RanksDef
  Primary = r0
  Flagged <- OnlyR1
  Sharded = FALSE
  Steps = 3
  Accum = 1
  Mu = 1
  Every = 2
  KL = TRUE
  LogCandidates = TRUE
  MaxAttempts = 2
  MaxFaults = 2
INVARIANTS
  CheckpointIsItsStep
  MetricsReachCheckpoint
  VerdictsAreBacked
  CandidateStreamsAgree
PROPERTIES
  PublishesTheWorldsState
  NoPublishedWorkIsRedone

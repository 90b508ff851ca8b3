SPECIFICATION TwoMishapsSpec
CONSTANTS
  r0 = r0
  r1 = r1
  j1 = j1
  j2 = j2
  Ranks <- TwoRanks
  Primary = r0
  Streams <- TwoRanks
  Jobs <- TwoJobs
  Steps = 2
  MaxFaults = 1
  MaxKills = 1
  MaxOutages = 1
INVARIANTS
  ReceiptTellsAll
  NoForeignWindow
PROPERTIES
  RowsComeFirst
  ImplementsLog
  ChainCompletes

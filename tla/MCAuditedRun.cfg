SPECIFICATION ApartSpec
CONSTANTS
  l1 = l1
  l2 = l2
  p1 = p1
  p2 = p2
  d1 = d1
  d2 = d2
  file1 = file1
  file2 = file2
  None = None
  NoOne = NoOne
  Manifest = Manifest
  Launches = {l1, l2}
  World <- WorldSizes
  Seconds = {1}
  HeldOut = {l1}
  Oddities <- OneOddItem
  Places <- OneOrTwoFiles
  MaxFaults = 1
  Publishers = {p1, p2, d1, d2}
  Discoveries = {d1, d2}
  Payload = {file1, file2}
  MaxMishaps = 2
INVARIANTS
  Lockstep
  StaleIdsAreStranded
  EvidenceIsBound
PROPERTIES
  ImplementsArtifact

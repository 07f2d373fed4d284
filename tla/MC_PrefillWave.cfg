CONSTANTS
  PageSize = 2
  MaxSeq = 12
  SuffixBuckets <- MCBuckets
  MaxPadding = 8
  Waves <- MCWaves
  MaxFree = 3
SPECIFICATION WaveSpec
INVARIANTS
  WaveReservesFit
  GroupShape
PROPERTIES
  WavePartitioned
CHECK_DEADLOCK FALSE

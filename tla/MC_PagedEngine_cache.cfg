CONSTANTS
  Pages = {p1, p2, p3, p4, p5}
  PageSize = 2
  MaxActive = 2
  MaxSeq = 7
  SuffixBuckets <- MCBuckets
  MaxPadding = 8
  Capacity = 1
  Tokens = {0, 1}
  Eos = 1
  Prompts <- MCPrompts
  MaxNews = {1, 2}
  SpecK = 2
  MaxRequests = 3
  MaxFailures = 1
SPECIFICATION Spec
SYMMETRY MCSymmetry
INVARIANTS
  TypeOK
  KVIsolated
  DecodePagesPrivate
  ReserveNeverFails
PROPERTIES
  PoolSpec
CHECK_DEADLOCK FALSE

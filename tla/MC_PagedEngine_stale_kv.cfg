CONSTANTS
  Pages = {p1, p2, p3, p4, p5, p6}
  PageSize = 2
  MaxActive = 2
  MaxSeq = 7
  SuffixBuckets <- MCBuckets
  MaxPadding = 8
  Capacity = 1
  Tokens = {0, 1}
  Eos = 1
  Prompts <- MCPrompts
  MaxNews = {1, 2}
  SpecK = 0
  MaxRequests = 2
  MaxFailures = 0
SPECIFICATION Spec
SYMMETRY MCSymmetry
INVARIANTS
  KVMatchesTokens
CHECK_DEADLOCK FALSE

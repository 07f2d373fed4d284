CONSTANTS
  Pages = {p1, p2, p3, p4}
  PageSize = 2
  MaxActive = 2
  MaxSeq = 6
  SuffixBuckets <- MCBuckets
  MaxPadding = 8
  Capacity = 0
  Tokens = {0, 1}
  Eos = 1
  Prompts <- MCOddPrompts
  MaxNews = {3}
  SpecK = 1
  MaxRequests = 3
  MaxFailures = 0
SPECIFICATION FairSpec
INVARIANTS
  KVMatchesTokens
  NoLeak
  NoRequestLost
PROPERTIES
  AllAnswered
CHECK_DEADLOCK FALSE

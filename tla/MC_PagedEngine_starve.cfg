CONSTANTS
  Pages = {p1, p2, p3}
  PageSize = 2
  MaxActive = 1
  MaxSeq = 4
  SuffixBuckets <- MCBuckets
  MaxPadding = 8
  Capacity = 2
  Tokens = {0, 1}
  Eos = 1
  Prompts <- MCShortPrompts
  MaxNews = {1}
  SpecK = 0
  MaxRequests = 2
  MaxFailures = 0
SPECIFICATION FairSpec
PROPERTIES
  AllAnswered
CHECK_DEADLOCK FALSE

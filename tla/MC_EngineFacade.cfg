CONSTANTS
  Streams = {s1, s2}
  Ids = {a, b}
  NoId = NoId
  MaxTokens = 2
SPECIFICATION Spec
SYMMETRY MCSymmetry
INVARIANTS
  TypeOK
  ActiveExact
  NoStrayCancel
  CancelStops
  StreamComplete
  NobodyWaits

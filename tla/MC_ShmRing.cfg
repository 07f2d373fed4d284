CONSTANTS
  NReaders = 2
  NSlots = 2
  MaxSends = 3
  MaxBuffer = 8
  Timeouts = TRUE
SPECIFICATION FairSpec
INVARIANTS
  TypeOK
PROPERTIES
  LogSpec
  AllDelivered
  EnqueueReturns
CHECK_DEADLOCK FALSE

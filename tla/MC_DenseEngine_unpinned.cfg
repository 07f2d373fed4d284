SPECIFICATION Spec
CONSTANTS
  MaxActive = 2
  PrefixRows = 2
  MaxLen = 7
  MinCommon = 2
  Requests <- RequestsDef
  Prompt <- ExtendingPrompts
  Reply <- ReplyDef
  MaxNew <- MaxNewDef
  Modes <- UnpinnedModes
INVARIANTS KVMatches
CHECK_DEADLOCK FALSE

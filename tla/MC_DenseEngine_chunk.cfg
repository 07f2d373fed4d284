SPECIFICATION Spec
CONSTANTS
  MaxActive = 3
  PrefixRows = 1
  MaxLen = 7
  MinCommon = 2
  Requests <- RequestsDef
  Prompt <- PromptDef
  Reply <- ReplyDef
  MaxNew <- MaxNewDef
  Modes <- ChunkAdoptModes
INVARIANTS KVMatches
CHECK_DEADLOCK FALSE

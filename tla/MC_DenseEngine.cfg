SPECIFICATION Spec
CONSTANTS
  MaxActive = 2
  PrefixRows = 2
  MaxLen = 7
  MinCommon = 2
  Requests <- RequestsDef
  Prompt <- PromptDef
  Reply <- ReplyDef
  MaxNew <- MaxNewDef
  Modes <- ModesDef
INVARIANTS TypeOK RowsPartitioned KVMatches RowsSuffice
PROPERTIES PinnedStays AllAnswered
CHECK_DEADLOCK FALSE

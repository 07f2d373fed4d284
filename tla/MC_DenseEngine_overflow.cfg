SPECIFICATION Spec
CONSTANTS
  MaxActive = 2
  PrefixRows = 2
  MaxLen = 7
  MinCommon = 2
  Requests <- RequestsDef
  Prompt <- PromptDef
  Reply <- ReplyDef
  MaxNew <- MaxNewDef
  Modes <- OverflowModes
INVARIANTS RowsSuffice
CHECK_DEADLOCK FALSE

SPECIFICATION Spec
CONSTANTS
  Clients <- c_Clients
  Key <- c_Key
  CacheSize = 1
  Stream <- c_Stream
  Class <- c_Class
  MaxTokens <- c_MaxTokens
  Limit = 2
  Modes <- c_Modes
  Stop = Stop
CHECK_DEADLOCK FALSE
PROPERTIES CloseReturns

SPECIFICATION FairOperation
CONSTANTS
  Closers = {"closer"}
  RawEvents <- MCRawEvents
  SourceErrors <- MCSourceErrors
  CloseErrors = {}
  ContextEnds = {"canceled", "deadline"}
  MaxEvents = 2
  MaxRetries = 1
  Responses <- MCResponses
  Byte <- MCByte
  Continuation = {}
  ChunkBytes = 2
  MaxText = 6
  MaxOutputItems = 3
  MaxCalls = 2
  WireCodes <- MCWireCodes
  Folded <- MCFolded
  PlainCodes <- MCWireCodes
  ToolNames = {}
  AllowedTools = {}
  CallIDs = {}
INVARIANTS
  EndExplained
  NothingLeft
  BodyHasOwner
PROPERTIES
  RecvAlwaysReturns
  StreamIsResponsesStream
CHECK_DEADLOCK FALSE

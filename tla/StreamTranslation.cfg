SPECIFICATION Spec
CONSTANTS
  c1 = c1
  c2 = c2
  Closers <- NoCloser
  RawEvents <- TranslationEvents
  SourceErrors <- RaceSourceErrors
  CloseErrors <- RaceCloseErrors
  ContextEnds = {}
  MaxEvents = 3
  Byte <- MCByte
  Continuation <- MCContinuation
  ChunkBytes = 2
  MaxText = 6
  MaxOutputItems = 3
  MaxCalls = 2
  WireCodes <- MCWireCodes
  Folded <- MCFolded
  PlainCodes <- MCPlainCodes
  ToolNames <- MCToolNames
  AllowedTools <- MCAllowedTools
  CallIDs = {"i1", "i2", "i3"}
INVARIANTS
  TypeOK
  CallsOnlyWithCompletion
  TextReconciled
  DeltasKeepCharacters

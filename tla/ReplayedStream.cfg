SPECIFICATION Spec
CONSTANTS
  MaxRetries = 2
  Responses <- MCResponses
  ContextEnds = {"canceled", "deadline"}
  WireCodes <- MCWireCodes
  Folded <- MCFolded
  PlainCodes <- MCPlainCodes
PROPERTY NeverReplaysStream
CHECK_DEADLOCK FALSE

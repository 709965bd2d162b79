SPECIFICATION FairSpec
CONSTANTS
  MaxRetries = 2
  Responses <- MCResponses
  ContextEnds = {"canceled", "deadline"}
  WireCodes <- MCWireCodes
  Folded <- MCFolded
  PlainCodes <- MCPlainCodes
INVARIANTS
  RetryableIsSafe
  CancelledOnlyByCaller
  ReleasesOrHandsOver
PROPERTIES
  StartReturns
CHECK_DEADLOCK FALSE

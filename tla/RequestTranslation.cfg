SPECIFICATION Spec
CONSTANTS
  Byte <- MCByte
  CallIDs = {"i1"}
  ToolNames = {"read", "write", "bad"}
  Requests <- MCRequests
  MaxInputItems = 3
INVARIANTS
  ConversationPreserved
  AcceptsExactly
  WellFormedInput
CHECK_DEADLOCK FALSE

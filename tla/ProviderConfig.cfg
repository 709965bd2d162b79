SPECIFICATION Spec
CONSTANTS
  Configs <- MCConfigs
  OptionLists <- MCOptionLists
  Names <- MCNames
  TrimSpace <- MCTrimSpace
INVARIANTS
  AcceptsExactly
  RequestFollowsConfig
  AttemptsAreBounded
CHECK_DEADLOCK FALSE

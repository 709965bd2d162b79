SPECIFICATION Spec
CONSTANTS
  Bodies <- MCBodies
  MaxCalls = 3
INVARIANTS
  EventsAreBlocks
  EndIsTruthful
CHECK_DEADLOCK FALSE

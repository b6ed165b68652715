SPECIFICATION Spec
CONSTANTS
  Configs <- LimitIsMet
  TurnConfigs <- SimpleTurns
  MaxFrames = 7
INVARIANTS
  FinalIsOffline
CHECK_DEADLOCK FALSE

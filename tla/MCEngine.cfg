SPECIFICATION Spec
CONSTANTS
  Configs <- Long
  TurnConfigs <- EveryDetector
  MaxFrames = 11
  RunnerMayStop = FALSE
  DrainMayTimeOut = TRUE
INVARIANTS
  TypeOK
  OneUtterancePerTurn
  SpokenOrder
  OnlyLateChildrenAreLost
  NoTurnLeftBehind
  TimeoutOnlyInSilence
CHECK_DEADLOCK FALSE

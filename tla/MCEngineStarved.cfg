SPECIFICATION FairSpec
CONSTANTS
  Configs <- Long
  MaxFrames = 10
  TurnConfigs <- SimpleOnly
  RunnerMayStop = FALSE
  DrainMayTimeOut = FALSE
PROPERTIES
  DrainCompletes
CHECK_DEADLOCK FALSE

SPECIFICATION Spec
CONSTANTS
  Configs <- OutOfReach
  TurnConfigs <- EveryDetector
  MaxFrames = 7
INVARIANTS
  InterimStreamContinuous
  FinalTextOnce
  FinalIsOffline
CHECK_DEADLOCK FALSE

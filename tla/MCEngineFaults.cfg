SPECIFICATION FairSpec
CONSTANTS
  Configs <- Changing
  TurnConfigs <- EveryDetector
  MaxFrames = 9
  RunnerMayStop = TRUE
  DrainMayTimeOut = FALSE
INVARIANTS
  SegmentsOnce
  OpenTurnHasDraft
PROPERTIES
  ImplementsTurnOutput
  DrainEnds
  OnlyKnownStalls
CHECK_DEADLOCK FALSE

SPECIFICATION HistorySpec
CONSTANTS
  Configs <- SmallConfigs
  MaxFrames = 12
  MaxFlushes = 1
  MaxUpdates = 1
INVARIANTS
  SourceFramesOnce
  AcceptedAudioKept
  ChildIffSpeechContinued
  TurnAudioContinuous
  RecentAudioKept
  SegmentLengthBounded
CHECK_DEADLOCK FALSE

SPECIFICATION FairSpec
CONSTANTS
  c1 = c1
  c2 = c2
  s1 = s1
  s2 = s2
  p1 = p1
  p2 = p2
  Connections <- TwoConnections
  SessionIds <- OneId
  Commands <- OneCommand
  MaxPartials = 0
  MaxStarts = 2
  MaxAudio = 1
  Capacity = 1
  SpawnMayFail = TRUE
INVARIANTS
  DoneMeansComplete
  StopsOwnSession
  NoOrphan
CHECK_DEADLOCK FALSE
PROPERTIES
  BackendReleased
  StopIsAnswered
  StopReturns

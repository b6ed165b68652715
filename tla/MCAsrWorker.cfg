SPECIFICATION FairSpec
CONSTANTS
  a = a
  b = b
  m1 = m1
  m2 = m2
  Sources <- TwoLanes
  Models <- TwoModels
  MaxOutstanding = 2
  MaxRequests = 2
  MaxResets = 1
INVARIANTS
  NoMonopoly
  EachRequestAccounted
  ResetIsInOrder
PROPERTIES
  LaneIsAnswered
CHECK_DEADLOCK FALSE

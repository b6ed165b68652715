SPECIFICATION FairSpec
CONSTANTS
  t1 = t1
  t2 = t2
  m1 = m1
  Main <- Second
  Earlier <- First
  Threads <- TwoThreads
  Mappings <- OneMapping
  Capacity = 2
  MaxTurns = 2
  MaxOutputs = 3
  MaxEarlier = 1
INVARIANTS
  PostedInOrder
PROPERTIES
  AcceptedIsPosted
  FinalGetsThrough
CHECK_DEADLOCK FALSE

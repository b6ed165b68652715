SPECIFICATION FairSpec
CONSTANTS
  mic = mic
  line = line
  N = 3
  Endpoints <- TwoEndpoints
  EndpointOf <- SharedMic
  Budget = 2
  MaxChunks <- FewChunks
INVARIANTS
  SourceIsServed
  StopLosesNothing
CHECK_DEADLOCK FALSE
PROPERTIES
  StopEnds

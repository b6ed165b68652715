SPECIFICATION Spec
CONSTANTS
  Commands = {"models", "translation"}
  Wanted <- Asked
  KindOf <- Kinds
  Rank <- Order
  Temporary <- Paths
  Chunks = 2
  Entries = 2
  Required = {1}
  MaxCommands = 3
  MaxFaults = 3
INVARIANT InstalledIsWhole
PROPERTIES
  CommandOutcome
  ArchiveIsKept
CHECK_DEADLOCK FALSE

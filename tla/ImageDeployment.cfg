SPECIFICATION Spec
CONSTANTS
  Images = {i1, i2}
  PartitionImages = {i2}
  Configdrives = {cd1, cd2}
  MaxCommands = 4
INVARIANTS
  UntouchedUntilVerified
  WrittenAsRequested
  CachedWasWritten
PROPERTIES
  FlushedBeforeShutdown
CHECK_DEADLOCK FALSE

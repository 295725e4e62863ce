SPECIFICATION Spec
CONSTANTS
  Images = {i1, i2}
  PartitionImages = {i2}
  Configdrives = {cd1, cd2}
  MaxCommands = 3
INVARIANTS
  PreparedImageIsOnDisk
CHECK_DEADLOCK FALSE

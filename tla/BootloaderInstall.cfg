SPECIFICATION Spec
CONSTANTS
  PartitionRequests <- MCPartitionRequests
  DriveRequests <- MCDriveRequests
  Environments <- MCEnvironments
  Records <- MCRecords
  MaxCalls = 2
  MaxInstalls = 2
CHECK_DEADLOCK FALSE
INVARIANTS
  OthersAreKept
  DriveIsWritten
  SuccessBoots
  MountsAreReleased

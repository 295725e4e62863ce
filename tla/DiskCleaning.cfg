SPECIFICATION CleaningSpec
CONSTANTS
  DeviceCount = 3
  Disk <- MCDisk
  Methods = {"devices", "metadata"}
  Filesystems = {"plain", "vmfs"}
  WipeOptions = {"absent"}
  Detailed = 2
  Kinds = {"ata", "nvme", "readonly"}
  MaxReboots = 1
  MaxSteps = 2
CHECK_DEADLOCK FALSE
INVARIANTS
  ReportIsRight
  LockIsOpened
  VmfsIsKept

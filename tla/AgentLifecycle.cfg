SPECIFICATION FairLifecycleSpec
CONSTANTS
  Interfaces = {em1, em2}
  MaxRestarts = 2
INVARIANTS
  LockdownIsHonoured
  HeartbeatsWithToken
PROPERTIES
  RescuedKeepsNetwork
  ServiceEnds
CHECK_DEADLOCK FALSE

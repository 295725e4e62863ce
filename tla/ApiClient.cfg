SPECIFICATION FairClientSpec
CONSTANTS
  Urls <- MCUrls
  Threads = {"heartbeat", "command"}
  RealVersion = 68
  Timeout = 1
  MinWait = 1
  MaxWait = 1
  CallTime = 2
INVARIANTS
  LookupOverrun
PROPERTIES
  EveryUrlIsTried
  AcceptedAgain

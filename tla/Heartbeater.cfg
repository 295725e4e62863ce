SPECIFICATION FairSpec
CONSTANTS
  MinInterval = 4
  LoopSleep = 1
  NormalIntervals = {2, 6, 11}
  ErrorIntervals = {4, 6, 8}
  Horizon = 14
  MaxFailures = 3
INVARIANTS
  ForcedIsPrompt
  NoLateHeartbeat
  OneHeartbeatAfterStop
  RetriesKeepUp
PROPERTIES
  CompletionIsAnnounced

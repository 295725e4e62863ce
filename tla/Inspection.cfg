SPECIFICATION Spec
CONSTANTS
  PostInterval = 15000
  DefaultInterval = 10000
  MaxRounds = 4
  Collectors <- MCCollectors
  URLs = 2
  Attempts = 3
CHECK_DEADLOCK FALSE
INVARIANTS
  BackoffFollowsResults
  ErrorsAreReported

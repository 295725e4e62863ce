SPECIFICATION FairSpec
CONSTANTS
  c1 = c1
  c2 = c2
  Clients <- MCClients
  MaxPosts = 2
  MaxCalls = 3
INVARIANTS
  AtMostOneRunning
  ExclusiveBodies
  ReadsAreConsistent
  FlowFailsWithCommand
PROPERTIES
  RequestsAreAnswered
  CompletionForcesHeartbeat

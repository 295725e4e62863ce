SPECIFICATION FairSpec
CONSTANTS
  DiskCount = 3
  MaxParts = 2
  Layouts <- MCLayouts
  Nodes <- MCNodes
  Faults <- MCFaults
  MaxSteps = 2
  MaxReboots = 1
INVARIANTS
  DeletedForGood
  CreatedAsRequested
PROPERTIES
  ListedSurvive
  StepEnds
CHECK_DEADLOCK FALSE

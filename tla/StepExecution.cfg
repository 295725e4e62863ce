SPECIFICATION Spec
CONSTANTS
  Managers = {1, 2, 3}
  Name <- NamesDiffer
  Steps = {"erase", "flash"}
  Nodes = {n1, n2}
  Images <- FourImages
  MaxReboots = 2
INVARIANTS
  RunAsPlanned
  PlanIsBest
  AwaitedUnlessBroken

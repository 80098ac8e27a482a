CONSTANTS
  N = 1
  Offers <- MCCutOffers
  Keyed = {}
  FaultSets <- CutFaultSets
  MaxVersion = 1
  MaxUpdates = 3
  MaxFaults = 2
SPECIFICATION Spec
INVARIANTS OnlyWholeLists
CHECK_DEADLOCK FALSE

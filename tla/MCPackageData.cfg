CONSTANTS
  N = 2
  Offers <- MCOffers
  Keyed = {1}
  FaultSets <- MCFaultSets
  MaxVersion = 2
  MaxUpdates = 3
  MaxFaults = 2
SPECIFICATION Spec
INVARIANTS TypeOK CachedIsCurrent UndisturbedIsFresh
PROPERTIES KeepsPackageData
CHECK_DEADLOCK FALSE

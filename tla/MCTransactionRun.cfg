CONSTANTS
  Pkg <- MCPkg
  Plans <- MCPlans
  Confs <- MCConfs
  Listings <- MCListings
  MaxCleanings = 1
SPECIFICATION Spec
INVARIANTS TypeOK FetchedFirst
PROPERTIES VerifiedStays KeepsPromise RunEnds

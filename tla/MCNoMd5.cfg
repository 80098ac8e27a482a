CONSTANTS
  Pkg <- MCPkg
  Plans <- MCPlans
  Confs <- MCConfs
  Listings <- MCListings
  MaxCleanings = 0
SPECIFICATION Spec
INVARIANT DownloadedFirst

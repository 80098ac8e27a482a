CONSTANTS
  Name <- MCName
  Pkg <- MCPkg
  MaxMembers = 3
SPECIFICATION Spec
INVARIANTS TypeOK NoPkgTwice QueueIsPlan
PROPERTIES FirstDecisionStands RebuildDropsOnlyPkg

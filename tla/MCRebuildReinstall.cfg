CONSTANTS
  Name <- MCName
  Pkg <- MCPkg
  MaxMembers = 3
SPECIFICATION Spec
PROPERTY RebuildKeepsReinstalls

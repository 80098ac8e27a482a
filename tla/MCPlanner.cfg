CONSTANTS
  Worlds <- MCWorlds
  Essentials <- MCEssentials
  BaseSet <- MCBaseSet
  SlaptGet = "slapt-get"
SPECIFICATION Spec
INVARIANTS
  TypeOK DependenciesFirst  
  UpgradesGoForward  RemoveTakesDependents
CHECK_DEADLOCK FALSE

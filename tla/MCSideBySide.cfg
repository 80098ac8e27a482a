CONSTANTS
  Worlds <- MCWorlds
  Essentials <- MCEssentials
  BaseSet <- MCBaseSet
  SlaptGet = "slapt-get"
SPECIFICATION Spec
INVARIANT NotSideBySide
CHECK_DEADLOCK FALSE

CONSTANTS
  Worlds <- MCDistWorlds
  Essentials <- MCEssentials
  BaseSet <- MCBaseSet
  SlaptGet = "slapt-get"
SPECIFICATION Spec
INVARIANTS
  ExcludedNotPlanned UpgradesGoForward RemoveTakesDependents
  EssentialsFirst ReplacementPresent
CHECK_DEADLOCK FALSE

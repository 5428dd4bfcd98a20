SPECIFICATION FairSpec
CONSTANTS
  a = a
  b = b
  c = c
  None = None
  Modules <- ThreeModules
  Order <- InOrder
  Names <- AllNames
  Aliases <- FreshNames
  Graphs <- AllGraphs
  Keys = {k1, k2}
  Codes = {x1, x2}
  MaxCalls = 2
INVARIANTS StillLinks GivenDenote BootstrapFirst
CHECK_DEADLOCK FALSE
PROPERTIES DependenciesKept CallEnds

CONSTANTS
  MaxExpanded = 3
  MinSamples = 1
  MinImprovement = 1
  Graphs <- MCGraphs
  Sources <- MCSources
  Targets <- MCTargets
  Home <- MCHome
  Options <- MCOptions
  Worlds <- MCWorlds
  MaxCacheEntries = 4
  MaxCount = 3
  MaxSteps = 5
SPECIFICATION MCSpec
INVARIANTS
  ProfileIsTruth
  OptimizedAgrees
  CountersDetermineFlow
  CoverIsDouble
  ScheduleHolds
PROPERTIES
  RecentlyUsedKept
CHECK_DEADLOCK FALSE

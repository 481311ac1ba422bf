SPECIFICATION CachesSpec
CONSTANTS
  Run = {r1}
  Scoped = {r1}
  Hub = hub
  Retries = 1
  MaxLaunches = 2
  MaxWarmings = 1
  MaxPrunes = 1
INVARIANTS CachesInv
PROPERTIES CachesKept PrewarmEnds
CHECK_DEADLOCK FALSE

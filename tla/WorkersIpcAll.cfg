SPECIFICATION FairSpec
CONSTANTS
  None = None
  Urls = {u1, u2}
  Sizes = {1, 2}
  MaxWorkers = 3
  MaxRequests = 3
  MaxTroubles = 1
  CACHE_LIMIT = 4
  Hour = 1
  Worlds <- MCWorlds
INVARIANTS TypeOK NoOrphanAnswer CountedOnce CacheBounded
PROPERTIES CallsEnd StatsArrive
CHECK_DEADLOCK FALSE

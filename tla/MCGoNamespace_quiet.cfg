SPECIFICATION FairSpec
CONSTANTS
  k1 = k1
  k2 = k2
  unset = unset
  Getters = {g1, g2}
  Keys = {k1, k2, unset}
  Unset = {unset}
  Queries <- MCQueries
  CacheSizes = {0, 1, 2}
  MaxVersion = 2
INVARIANTS
  TypeOK
  OneVersionWhenQuiet
  CacheIsServed
  Complete
PROPERTIES
  GetReturns
CHECK_DEADLOCK FALSE

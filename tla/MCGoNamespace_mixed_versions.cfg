SPECIFICATION Spec
CONSTANTS
  k1 = k1
  k2 = k2
  unset = unset
  Getters = {g1}
  Keys = {k1, k2, unset}
  Unset = {unset}
  Queries <- MCQueries
  CacheSizes = {0}
  MaxVersion = 1
SYMMETRY Symmetry
INVARIANTS
  OneVersion
CHECK_DEADLOCK FALSE

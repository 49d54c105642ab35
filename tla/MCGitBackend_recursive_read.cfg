SPECIFICATION FairSpec
CONSTANTS
  MaxVersion = 1
  MaxErrors = 0
  MaxFiles = 1
  MayVanish = FALSE
  NoBranch = NoBranch
PROPERTIES
  LoadReturns
CHECK_DEADLOCK FALSE

SPECIFICATION FairSpec
CONSTANTS
  MaxVersion = 1
  MaxErrors = 0
  StartupWrites = TRUE
PROPERTIES
  EveryChangeArrives
CHECK_DEADLOCK FALSE

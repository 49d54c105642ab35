SPECIFICATION FairSpec
CONSTANTS
  MaxVersion = 5
  MaxErrors = 2
  StartupWrites = FALSE
INVARIANTS
  TypeOK
  ChangeIsPending
PROPERTIES
  FollowsHead
  ImplementsBackend
CHECK_DEADLOCK FALSE

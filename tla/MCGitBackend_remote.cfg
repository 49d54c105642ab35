SPECIFICATION FairSpec
CONSTANTS
  MaxVersion = 3
  MaxErrors = 2
  MaxFiles = 2
  MayVanish = TRUE
  NoBranch = NoBranch
INVARIANTS
  TypeOK
  KnownIsFetched
  ChangeIsSeen
  LoadGetsOn
PROPERTIES
  FollowsRemote
  ImplementsBackend
CHECK_DEADLOCK FALSE

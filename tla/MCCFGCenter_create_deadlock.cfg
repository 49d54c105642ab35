SPECIFICATION FairSpec
CONSTANTS
  Creators = {c1}
  Readers = {}
  Watcher = w
  Names = {n1}
  BadNames = {}
  Handles = {h1}
  Levels = {"ByGlobal"}
  Callbacks = {TRUE}
  LoadResults = {"ok"}
  DiffResults = {"empty"}
  MaxVersion = 1
  NoThread = NoThread
  NoHandle = NoHandle
PROPERTIES
  CreateReturns
CHECK_DEADLOCK FALSE

SPECIFICATION FairSpec
CONSTANTS
  Creators = {c1, c2}
  Readers = {r1}
  Watcher = w
  Names = {n1, n2}
  BadNames = {}
  Handles = {h1, h2}
  Levels = {"ByGlobal"}
  Callbacks = {TRUE, FALSE}
  LoadResults = {"ok"}
  DiffResults = {"empty"}
  MaxVersion = 2
  NoThread = NoThread
  NoHandle = NoHandle
PROPERTIES
  Converges
CHECK_DEADLOCK FALSE

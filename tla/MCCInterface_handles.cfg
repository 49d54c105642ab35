SPECIFICATION Spec
CONSTANTS
  Threads = {t1}
  Watcher = watcher
  Names = {n1}
  Namespaces = {o1, o2}
  WhoAmIs = {w1}
  ResultIds = {v1}
  MaxValues = 2
  NulFields = {"link_path", "content_type", "value"}
  Messages = {plain, nul}
  NulMessages = {nul}
  NoNamespace = NoNamespace
  NoCall = NoCall
  NoError = NoError
  Configs <- MCConfigs
SYMMETRY Symmetry
INVARIANTS TypeOK PointersValid HeapAccounted ReleasesAllocated
PROPERTY NullIsExplained
CHECK_DEADLOCK FALSE

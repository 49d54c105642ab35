SPECIFICATION Spec
CONSTANTS
  Creators = {c1}
  Readers = {r1}
  Watcher = w
  Names = {n1, n2, bad}
  BadNames = {bad}
  Handles = {h1, h2}
  Levels = {"NoNotify", "ByGlobal", "InNamespace", "MaybeChangedKeys"}
  Callbacks = {TRUE}
  LoadResults = {"ok", "err", "panic"}
  DiffResults = {"empty", "err", "changed"}
  MaxVersion = 2
  NoThread = NoThread
  NoHandle = NoHandle
INVARIANTS
  TypeOK
  NoMissedUpdate
  WaitsEnd
PROPERTIES
  ChangeAnnounced
  ReplacedIsLeftAlone
  AtomicView
CHECK_DEADLOCK FALSE

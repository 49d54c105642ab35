----------------------------- MODULE CFGCenter ------------------------------
(***************************************************************************)
(* The core of eafcc: CFGCenterInner (cfg_center.rs) with its two mutexes, *)
(* the namespace objects it hands out (namespace.rs), the watcher thread   *)
(* of the storage backend that runs CFGCenterInner::update_callback, the   *)
(* application threads that create namespaces and the application threads  *)
(* that query them.                                                        *)
(*                                                                         *)
(* Configuration content is abstracted to the number of the publication it *)
(* belongs to: a MemStorage is the number of the version it was built      *)
(* from.  One step of the model is what a thread does between two points   *)
(* where another thread can tell the difference: taking a mutex or a read  *)
(* guard, running the user's callback, replacing a MemStorage.             *)
(***************************************************************************)
EXTENDS Naturals

CONSTANTS
  Creators,      \* threads calling create_namespace_scoped_cfg_center
  Readers,       \* threads calling get_namespace_scoped_cfg_center and get_cfg
  Watcher,       \* the backend's watcher thread
  Names,         \* namespace names
  BadNames,      \* those that do not start and end with `/`
  Handles,       \* NamespaceScopedCFGCenter objects, one per create call
  Levels,        \* UpdateNotifyLevel values the application uses
  Callbacks,     \* {TRUE}, {FALSE} or BOOLEAN: is a callback registered?
  LoadResults,   \* outcomes of MemStorage::new
  DiffResults,   \* outcomes of StorageBackend::get_diff_list
  MaxVersion,    \* bound: number of publications after the initial one
  NoThread,      \* owner of a free mutex
  NoHandle       \* no NamespaceScopedCFGCenter

AllLevels == {"NoNotify", "ByGlobal", "InNamespace", "MaybeChangedKeys"}

ASSUME ThreadsAssumption ==
  /\ Watcher \notin Creators \cup Readers
  /\ NoThread \notin Creators \cup Readers \cup {Watcher}
  /\ Creators \cap Readers = {}
ASSUME HandlesAssumption == NoHandle \notin Handles
ASSUME NamesAssumption   == BadNames \subseteq Names
ASSUME LevelsAssumption  == Levels \subseteq AllLevels /\ Callbacks \subseteq BOOLEAN
ASSUME ResultsAssumption ==
  /\ LoadResults \subseteq {"ok", "err", "panic"}
  /\ DiffResults \subseteq {"empty", "err", "changed"}
ASSUME BoundAssumption   == MaxVersion \in Nat

VARIABLES
  published,            \* newest version in the storage (head file, remote branch)
  \* CFGCenterInner
  current_version,      \* Mutex<VersionItem>: the value ...
  version_lock,         \* ... its owner ...
  version_poisoned,     \* ... and whether an owner panicked
  namespaces,           \* Mutex<HashMap<String, Arc<..>>>: the map ...
  namespaces_lock,
  namespaces_poisoned,
  \* NamespaceScopedCFGCenter, one entry per handle
  hstate,               \* "new", "pending", "live" or "failed"
  namespace,            \* the arguments of the create call of this handle,
  notify_level,         \* fixed for good
  callback,
  current_memstore,     \* RwLock<Box<MemStorage>>: version it was built from ...
  memstore_guards,      \* ... and the threads holding a read guard on it
  notified,             \* history: <<old, new>> of the Differ last passed to the callback
  missed,               \* history: handles whose last reload failed
  \* the watcher thread
  wpc, new_version, todo, target,
  \* the creating threads: their handle and the version they have loaded
  cpc, carg, cver,
  \* the querying threads: versions read so far, and read by the last answer
  rpc, rhandle, seen, result

versionMutex    == <<current_version, version_lock, version_poisoned>>
namespacesMutex == <<namespaces, namespaces_lock, namespaces_poisoned>>
argVars         == <<namespace, notify_level, callback>>
storeVars       == <<current_memstore, memstore_guards, notified, missed>>
watcherVars     == <<wpc, new_version, todo, target>>
creatorVars     == <<cpc, carg, cver>>
readerVars      == <<rpc, rhandle, seen, result>>
vars == <<published, versionMutex, namespacesMutex, hstate, argVars, storeVars,
          watcherVars, creatorVars, readerVars>>

\* What no step of the watcher, of a creating and of a querying thread touches.
mutexes     == <<versionMutex, namespacesMutex>>
notWatchers == <<published, hstate, argVars, creatorVars, readerVars>>
notCreators == <<published, argVars, watcherVars, readerVars>>
notReaders  == <<published, mutexes, hstate, argVars, watcherVars, creatorVars>>

Versions == 0 .. MaxVersion
Threads  == Creators \cup Readers \cup {Watcher}

(***************************************************************************)
(* CFGCenter::new has read the current version and registered the update   *)
(* callback; no namespace exists yet.                                      *)
(***************************************************************************)
Init ==
  /\ published = 0
  /\ current_version = 0 /\ version_lock = NoThread /\ version_poisoned = FALSE
  /\ namespaces = [n \in Names |-> NoHandle]
  /\ namespaces_lock = NoThread /\ namespaces_poisoned = FALSE
  /\ hstate = [h \in Handles |-> "new"]
  /\ namespace \in [Handles -> Names]
  /\ notify_level \in [Handles -> Levels]
  /\ callback \in [Handles -> Callbacks]
  /\ current_memstore = [h \in Handles |-> 0]
  /\ memstore_guards = [h \in Handles |-> {}]
  /\ notified = [h \in Handles |-> <<0, 0>>]
  /\ missed = {}
  /\ wpc = "idle" /\ new_version = 0 /\ todo = {} /\ target = NoHandle
  /\ cpc = [c \in Creators |-> "idle"]
  /\ carg = [c \in Creators |-> NoHandle]
  /\ cver = [c \in Creators |-> 0]
  /\ rpc = [r \in Readers |-> "idle"]
  /\ rhandle = [r \in Readers |-> NoHandle]
  /\ seen = [r \in Readers |-> {}]
  /\ result = [r \in Readers |-> {}]

(***************************************************************************)
(* The storage may be any that keeps the promise of StorageBackend, which  *)
(* FsBackend and GitBackend are shown to do.  A load of a version that can *)
(* be read may still fail.                                                 *)
(***************************************************************************)
Backend == INSTANCE StorageBackend WITH loadable <- 0 .. published, delivered <- new_version

\* External: somebody writes a new version into the storage and moves its head there.
Publish ==
  /\ published < MaxVersion
  /\ Backend!Publish
  /\ UNCHANGED <<versionMutex, namespacesMutex, hstate, argVars, storeVars,
                 wpc, todo, target, creatorVars, readerVars>>

-----------------------------------------------------------------------------
(***************************************************************************)
(* The watcher thread.  The backend sees an event, reads the head and      *)
(* calls update_callback with it; the head may have moved on since, and it *)
(* may be the one it delivered before.                                     *)
(***************************************************************************)
Deliver ==
  /\ wpc = "idle"
  /\ Backend!Deliver
  /\ wpc' = "lock_namespaces"
  /\ UNCHANGED <<notWatchers, mutexes, storeVars, todo, target>>

(***************************************************************************)
(* update_callback takes `namespaces` first.  That mutex is poisoned only  *)
(* by a panic of this very thread, so the early return on a poisoned       *)
(* `namespaces` is never taken (PoisonInv of CFGCenterProofs).             *)
(***************************************************************************)
WatchLockNamespaces ==
  /\ wpc = "lock_namespaces"
  /\ namespaces_lock = NoThread
  /\ namespaces_lock' = Watcher
  /\ wpc' = "lock_version"
  /\ UNCHANGED <<notWatchers, versionMutex, namespaces, namespaces_poisoned,
                 storeVars, new_version, todo, target>>

\* It then takes `current_version` and starts iterating over the map.
WatchLockVersion ==
  /\ wpc = "lock_version"
  /\ version_lock = NoThread
  /\ ~version_poisoned
  /\ version_lock' = Watcher
  /\ todo' = {n \in Names : namespaces[n] # NoHandle}
  /\ wpc' = "loop"
  /\ UNCHANGED <<notWatchers, current_version, version_poisoned,
                 namespacesMutex, storeVars, new_version, target>>

\* A creating thread panicked with `current_version` locked: silent return.
WatchGiveUp ==
  /\ wpc = "lock_version"
  /\ version_lock = NoThread
  /\ version_poisoned
  /\ namespaces_lock' = NoThread
  /\ wpc' = "idle"
  /\ UNCHANGED <<notWatchers, versionMutex, namespaces, namespaces_poisoned,
                 storeVars, new_version, todo, target>>

\* NoNotify falls into the `_ => {}` arm.
WatchNoNotify(n) ==
  /\ wpc = "loop" /\ n \in todo
  /\ notify_level[namespaces[n]] = "NoNotify"
  /\ todo' = todo \ {n}
  /\ UNCHANGED <<notWatchers, mutexes, storeVars, wpc, new_version, target>>

\* The levels that ask get_diff_list: on an error or an empty list, `continue`.
UsesDiffListAlways(h) == TRUE      \* faulty variant
UsesDiffList(h) == notify_level[h] \in {"InNamespace", "MaybeChangedKeys"}

WatchNoDiff(n) ==
  /\ wpc = "loop" /\ n \in todo
  /\ UsesDiffList(namespaces[n])
  /\ DiffResults \cap {"empty", "err"} # {}
  /\ todo' = todo \ {n}
  /\ UNCHANGED <<notWatchers, mutexes, storeVars, wpc, new_version, target>>

\* When the reload of namespace n is attempted at all.
Reloads(n) ==
  /\ wpc = "loop" /\ n \in todo
  /\ \/ notify_level[namespaces[n]] = "ByGlobal"
     \/ UsesDiffList(namespaces[n]) /\ "changed" \in DiffResults

\* MemStorage::new fails: reported, and this namespace keeps its old store.
WatchLoadErr(n) ==
  /\ Reloads(n)
  /\ "err" \in LoadResults
  /\ todo' = todo \ {n}
  /\ missed' = missed \cup {namespaces[n]}
  /\ UNCHANGED <<notWatchers, mutexes, current_memstore, memstore_guards,
                 notified, wpc, new_version, target>>

\* MemStorage::new panics: the thread unwinds through both guards and is gone.
WatchLoadPanic(n) ==
  /\ Reloads(n)
  /\ "panic" \in LoadResults
  /\ version_lock' = NoThread /\ version_poisoned' = TRUE
  /\ namespaces_lock' = NoThread /\ namespaces_poisoned' = TRUE
  /\ wpc' = "dead"
  /\ todo' = {}
  /\ UNCHANGED <<notWatchers, current_version, namespaces, storeVars,
                 new_version, target>>

\* NotifyWithMaybeChangedKeys: the arm ends there and the new store is dropped.
WatchLoadDrop(n) ==
  /\ Reloads(n)
  /\ "ok" \in LoadResults
  /\ notify_level[namespaces[n]] = "MaybeChangedKeys"
  /\ todo' = todo \ {n}
  /\ UNCHANGED <<notWatchers, mutexes, storeVars, wpc, new_version, target>>

\* The object that is updated: the one the map holds under the name.
TargetKept(n) == target            \* faulty variant: the one of the last round
\* Faulty variant: any object that was created under the name.
OfThatName(n) == CHOOSE h \in Handles : hstate[h] = "live" /\ namespace[h] = n
Target(n) == namespaces[n]

\* Otherwise it goes to NamespaceScopedCFGCenter::update_callback.
WatchLoad(n) ==
  /\ Reloads(n)
  /\ "ok" \in LoadResults
  /\ notify_level[namespaces[n]] # "MaybeChangedKeys"
  /\ target' = Target(n)
  /\ wpc' = "notify"
  /\ UNCHANGED <<notWatchers, mutexes, storeVars, new_version, todo>>

(***************************************************************************)
(* NamespaceScopedCFGCenter::update_callback, on the target.  At level     *)
(* ByGlobal a registered callback runs under a read guard and gets a       *)
(* Differ over the store still being served and the new one.               *)
(***************************************************************************)
Announces(h) == notify_level[h] = "ByGlobal" /\ callback[h]

\* The stores that get_from_old and get_from_new of the Differ query.
DifferCommitted(h) == <<current_version, new_version>>   \* faulty variant
Differ(h) == <<current_memstore[h], new_version>>

WatchNotify ==
  /\ wpc = "notify"
  /\ Announces(target)
  /\ memstore_guards' = [memstore_guards EXCEPT ![target] = @ \cup {Watcher}]
  /\ notified' = [notified EXCEPT ![target] = Differ(target)]
  /\ wpc' = "callback"
  /\ UNCHANGED <<notWatchers, mutexes, current_memstore, missed, new_version,
                 todo, target>>

WatchNoCallback ==
  /\ wpc = "notify"
  /\ ~Announces(target)
  /\ wpc' = "swap"
  /\ UNCHANGED <<notWatchers, mutexes, storeVars, new_version, todo, target>>

\* The read guard goes out of scope with the arm that runs the callback.
GuardsKept(h) == memstore_guards[h]    \* faulty variant: it lives as long as the call
GuardsLeft(h) == memstore_guards[h] \ {Watcher}

\* The callback returns.
WatchCallbackReturn ==
  /\ wpc = "callback"
  /\ memstore_guards' = [memstore_guards EXCEPT ![target] = GuardsLeft(target)]
  /\ wpc' = "swap"
  /\ UNCHANGED <<notWatchers, mutexes, current_memstore, notified, missed,
                 new_version, todo, target>>

\* The write lock is granted once no read guard is left.
GrantedAtOnce(h) == TRUE           \* faulty variant
WriteGranted(h) == memstore_guards[h] = {}

WatchSwap ==
  /\ wpc = "swap"
  /\ WriteGranted(target)
  /\ current_memstore' = [current_memstore EXCEPT ![target] = new_version]
  /\ missed' = missed \ {target}
  /\ todo' = todo \ {namespace[target]}
  /\ target' = NoHandle
  /\ wpc' = "loop"
  /\ UNCHANGED <<notWatchers, mutexes, memstore_guards, notified, new_version>>

\* End of the loop: record the version, drop both guards.
WatchCommit ==
  /\ wpc = "loop" /\ todo = {}
  /\ current_version' = new_version
  /\ version_lock' = NoThread
  /\ namespaces_lock' = NoThread
  /\ wpc' = "idle"
  /\ UNCHANGED <<notWatchers, version_poisoned, namespaces,
                 namespaces_poisoned, storeVars, new_version, todo, target>>

WatcherStep ==
  \/ WatchLockNamespaces \/ WatchLockVersion \/ WatchGiveUp
  \/ \E n \in Names :
       \/ WatchNoNotify(n) \/ WatchNoDiff(n)
       \/ WatchLoadErr(n) \/ WatchLoadPanic(n) \/ WatchLoadDrop(n) \/ WatchLoad(n)
  \/ WatchNotify \/ WatchNoCallback \/ WatchCallbackReturn
  \/ WatchSwap \/ WatchCommit

-----------------------------------------------------------------------------
(***************************************************************************)
(* create_namespace_scoped_cfg_center, called by thread c to make handle h.*)
(***************************************************************************)
CreateCall(c, h) ==
  /\ cpc[c] = "idle" /\ hstate[h] = "new"
  /\ namespace[h] \notin BadNames
  /\ hstate' = [hstate EXCEPT ![h] = "pending"]
  /\ carg' = [carg EXCEPT ![c] = h]
  /\ cpc' = [cpc EXCEPT ![c] = "lock_version"]
  /\ UNCHANGED <<notCreators, mutexes, storeVars, cver>>

\* The name lacks a leading or a trailing `/`: NamespaceError at once.
CreateRejected(c, h) ==
  /\ cpc[c] = "idle" /\ hstate[h] = "new"
  /\ namespace[h] \in BadNames
  /\ hstate' = [hstate EXCEPT ![h] = "failed"]
  /\ UNCHANGED <<notCreators, mutexes, storeVars, creatorVars>>

CreateLockVersion(c) ==
  /\ cpc[c] = "lock_version"
  /\ version_lock = NoThread
  /\ ~version_poisoned
  /\ version_lock' = c
  /\ cpc' = [cpc EXCEPT ![c] = "load"]
  /\ UNCHANGED <<notCreators, current_version, version_poisoned,
                 namespacesMutex, hstate, storeVars, carg, cver>>

\* How a create call of thread c ends without a handle, whatever the reason.
CreateReturnsErr(c) ==
  /\ hstate' = [hstate EXCEPT ![carg[c]] = "failed"]
  /\ cpc' = [cpc EXCEPT ![c] = "idle"]
  /\ UNCHANGED <<carg, cver>>

CreateVersionPoisoned(c) ==
  /\ cpc[c] = "lock_version"
  /\ version_lock = NoThread
  /\ version_poisoned
  /\ CreateReturnsErr(c)
  /\ UNCHANGED <<notCreators, mutexes, storeVars>>

\* The guard on current_version stays in scope until create returns.
DroppedAfterLoad(c) == NoThread    \* faulty variant
HeldAfterLoad(c) == c

\* MemStorage::new at the locked current version.
CreateLoad(c) ==
  /\ cpc[c] = "load"
  /\ "ok" \in LoadResults
  /\ cver' = [cver EXCEPT ![c] = current_version]
  /\ version_lock' = HeldAfterLoad(c)
  /\ cpc' = [cpc EXCEPT ![c] = "insert"]
  /\ UNCHANGED <<notCreators, current_version, version_poisoned,
                 namespacesMutex, hstate, storeVars, carg>>

\* MemStorage::new fails (`?`) or panics; only the panic poisons the mutex.
CreateLoadFails(c) ==
  /\ cpc[c] = "load"
  /\ \E r \in LoadResults \ {"ok"} :
        version_poisoned' = (version_poisoned \/ r = "panic")
  /\ version_lock' = NoThread
  /\ CreateReturnsErr(c)
  /\ UNCHANGED <<notCreators, current_version, namespacesMutex, storeVars>>

(***************************************************************************)
(* With current_version still locked, lock `namespaces`, insert, return    *)
(* the Arc.  The error return for a poisoned `namespaces` is never taken:  *)
(* the watcher's panic poisons both mutexes, and a create that comes later *)
(* ends at the first one.                                                  *)
(***************************************************************************)
CreateInsert(c) ==
  /\ cpc[c] = "insert"
  /\ namespaces_lock = NoThread
  /\ ~namespaces_poisoned
  /\ namespaces' = [namespaces EXCEPT ![namespace[carg[c]]] = carg[c]]
  /\ current_memstore' = [current_memstore EXCEPT ![carg[c]] = cver[c]]
  /\ hstate' = [hstate EXCEPT ![carg[c]] = "live"]
  /\ version_lock' = NoThread
  /\ cpc' = [cpc EXCEPT ![c] = "idle"]
  /\ UNCHANGED <<notCreators, current_version, version_poisoned,
                 namespaces_lock, namespaces_poisoned, memstore_guards,
                 notified, missed, carg, cver>>

CreatorStep(c) ==
  \/ CreateLockVersion(c) \/ CreateVersionPoisoned(c)
  \/ CreateLoad(c) \/ CreateLoadFails(c)
  \/ CreateInsert(c)

-----------------------------------------------------------------------------
(***************************************************************************)
(* Querying threads.  A reader works on the handle it looked up by name or *)
(* on a clone of the Arc that create returned.  A failed lookup (poisoned  *)
(* mutex, unknown name) leaves everything as it was.                       *)
(***************************************************************************)
GetNamespace(r, n) ==
  /\ rpc[r] = "idle"
  /\ namespaces_lock = NoThread
  /\ ~namespaces_poisoned
  /\ namespaces[n] # NoHandle
  /\ rhandle' = [rhandle EXCEPT ![r] = namespaces[n]]
  /\ UNCHANGED <<notReaders, storeVars, rpc, seen, result>>

ShareHandle(r, h) ==
  /\ rpc[r] = "idle"
  /\ hstate[h] = "live"
  /\ rhandle' = [rhandle EXCEPT ![r] = h]
  /\ UNCHANGED <<notReaders, storeVars, rpc, seen, result>>

\* get_cfg takes the read guard and collects the active links from the index.
QueryBegin(r) ==
  /\ rpc[r] = "idle" /\ rhandle[r] # NoHandle
  /\ memstore_guards' = [memstore_guards EXCEPT ![rhandle[r]] = @ \cup {r}]
  /\ seen' = [seen EXCEPT ![r] = {current_memstore[rhandle[r]]}]
  /\ rpc' = [rpc EXCEPT ![r] = "query"]
  /\ UNCHANGED <<notReaders, current_memstore, notified, missed, rhandle,
                 result>>

\* One more key is looked up in the index.
QueryKey(r) ==
  /\ rpc[r] = "query"
  /\ seen' = [seen EXCEPT ![r] = @ \cup {current_memstore[rhandle[r]]}]
  /\ UNCHANGED <<notReaders, storeVars, rpc, rhandle, result>>

\* All keys are done, or no link was active; the guard is dropped.
QueryEnd(r) ==
  /\ rpc[r] = "query"
  /\ memstore_guards' = [memstore_guards EXCEPT ![rhandle[r]] = @ \ {r}]
  /\ result' = [result EXCEPT ![r] = seen[r]]
  /\ rpc' = [rpc EXCEPT ![r] = "idle"]
  /\ UNCHANGED <<notReaders, current_memstore, notified, missed, rhandle,
                 seen>>

-----------------------------------------------------------------------------
Next ==
  \/ Publish
  \/ Deliver
  \/ WatcherStep
  \/ \E c \in Creators :
       \/ CreatorStep(c)
       \/ \E h \in Handles : CreateCall(c, h) \/ CreateRejected(c, h)
  \/ \E r \in Readers :
       \/ \E n \in Names : GetNamespace(r, n)
       \/ \E h \in Handles : ShareHandle(r, h)
       \/ QueryBegin(r) \/ QueryKey(r) \/ QueryEnd(r)

Spec == Init /\ [][Next]_vars

(***************************************************************************)
(* Running threads keep running and free mutexes are eventually granted;   *)
(* calls that have been made go on.  Both backends poll every two seconds  *)
(* and read the head anew each time, so they do not deliver older versions *)
(* for ever (FollowsHead of FsBackend, FollowsRemote of GitBackend).       *)
(* Nobody is obliged to publish, to make a call, or to look up more keys.  *)
(***************************************************************************)
Fairness ==
  /\ SF_vars(published # new_version /\ Deliver /\ new_version' = published)
  /\ WF_vars(WatcherStep)
  /\ \A c \in Creators : WF_vars(CreatorStep(c))
  /\ \A r \in Readers : WF_vars(QueryEnd(r))

FairSpec == Spec /\ Fairness

-----------------------------------------------------------------------------
Registered(h) == hstate[h] = "live" /\ namespaces[namespace[h]] = h

\* The variables have the types of the fields, locals and guards they stand for.
TypeOK ==
  /\ published \in Versions
  /\ current_version \in Versions
  /\ version_lock \in Threads \cup {NoThread}
  /\ version_poisoned \in BOOLEAN
  /\ namespaces \in [Names -> Handles \cup {NoHandle}]
  /\ namespaces_lock \in {NoThread, Watcher}
  /\ namespaces_poisoned \in BOOLEAN
  /\ hstate \in [Handles -> {"new", "pending", "live", "failed"}]
  /\ namespace \in [Handles -> Names]
  /\ notify_level \in [Handles -> AllLevels]
  /\ callback \in [Handles -> BOOLEAN]
  /\ current_memstore \in [Handles -> Versions]
  /\ memstore_guards \in [Handles -> SUBSET Threads]
  /\ notified \in [Handles -> Versions \X Versions]
  /\ missed \subseteq Handles
  /\ wpc \in {"idle", "lock_namespaces", "lock_version", "loop", "notify",
              "callback", "swap", "dead"}
  /\ new_version \in Versions
  /\ todo \subseteq Names
  /\ target \in Handles \cup {NoHandle}
  /\ wpc \in {"notify", "callback", "swap"} => target \in Handles
  /\ cpc \in [Creators -> {"idle", "lock_version", "load", "insert"}]
  /\ carg \in [Creators -> Handles \cup {NoHandle}]
  /\ cver \in [Creators -> Versions]
  /\ rpc \in [Readers -> {"idle", "query"}]
  /\ rhandle \in [Readers -> Handles \cup {NoHandle}]
  /\ seen \in [Readers -> SUBSET Versions]
  /\ result \in [Readers -> SUBSET Versions]

(***************************************************************************)
(* No update slips past a namespace.  Whenever update_callback is not      *)
(* running, every ByGlobal namespace in the map serves current_version,    *)
(* except those whose own last reload failed.  This is what holding        *)
(* current_version across load and insert in create is for: an update      *)
(* that falls between the two would be seen by nobody.  And                *)
(* current_version is the version last delivered, unless a creating thread *)
(* has panicked: from then on update_callback drops every update.          *)
(***************************************************************************)
NoMissedUpdate ==
  /\ namespaces_lock = NoThread /\ ~namespaces_poisoned =>
       \A h \in Handles :
         Registered(h) /\ notify_level[h] = "ByGlobal" /\ h \notin missed
           => current_memstore[h] = current_version
  /\ wpc = "idle" /\ ~version_poisoned => current_version = new_version

(***************************************************************************)
(* A ByGlobal subscriber hears of every change of the served store before  *)
(* it happens, and of exactly that change: the old side of the Differ is   *)
(* what queries saw until then, the new side what they see from then on,   *)
(* even when earlier reloads failed and versions were skipped.             *)
(***************************************************************************)
ChangeAnnounced ==
  [][\A h \in Handles :
       hstate[h] = "live" /\ Announces(h)
         /\ current_memstore'[h] # current_memstore[h]
       => notified[h] = <<current_memstore[h], current_memstore'[h]>>]_vars

(***************************************************************************)
(* A second create of a name replaces the map entry while callers still    *)
(* hold the first object.  From then on that object is left alone: even an *)
(* update that was under way neither changes what it serves nor runs its   *)
(* callback, whose owner may have gone.                                    *)
(***************************************************************************)
ReplacedIsLeftAlone ==
  [][\A h \in Handles :
       hstate[h] = "live" /\ ~Registered(h)
       => current_memstore'[h] = current_memstore[h] /\ notified'[h] = notified[h]]_vars

(***************************************************************************)
(* To querying threads the locks, the watcher and the step-by-step lookup  *)
(* are invisible: handles serve one version at a time, never an older one  *)
(* than before, and a query of many keys is one atomic read.               *)
(***************************************************************************)
View == INSTANCE ConfigView WITH
          open   <- {h \in Handles : hstate[h] = "live"},
          served <- current_memstore

AtomicView == View!Spec

\* The threads that thread t waits for: owners of the mutex it is asking for, or
\* readers of the store it wants to replace.  A query waits for nobody.
WaitsFor(t) ==
  {u \in Threads :
     \/ t = Watcher /\ wpc = "lock_namespaces" /\ namespaces_lock = u
     \/ t = Watcher /\ wpc = "lock_version" /\ version_lock = u
     \/ t = Watcher /\ wpc = "swap" /\ u \in memstore_guards[target]
     \/ t \in Creators /\ cpc[t] = "lock_version" /\ version_lock = u
     \/ t \in Creators /\ cpc[t] = "insert" /\ namespaces_lock = u}

\* The deadlock that CreateReturns is about.
LockOrderCycle ==
  wpc = "lock_version" /\ \E c \in Creators : version_lock = c /\ cpc[c] = "insert"

\* A thread is in the middle of update_callback, of a create or of a query.
InOperation(t) ==
  \/ t = Watcher /\ wpc \notin {"idle", "dead"}
  \/ t \in Creators /\ cpc[t] # "idle"
  \/ t \in Readers /\ rpc[t] # "idle"

\* It owns a mutex or a read guard.
Holds(t) ==
  version_lock = t \/ namespaces_lock = t \/ \E h \in Handles : t \in memstore_guards[h]

(***************************************************************************)
(* No mutex or read guard stays with a thread whose call has returned,     *)
(* failed or panicked.  And that deadlock is the only one: in every other  *)
(* state whoever waits does so for a thread that can go on, or that waits  *)
(* itself for one that can; the watcher does not wait for the read guard   *)
(* of its own callback.                                                    *)
(***************************************************************************)
WaitsEnd ==
  /\ \A t \in Threads : Holds(t) => InOperation(t)
  /\ ~LockOrderCycle =>
       \A t \in Threads : \A u \in WaitsFor(t) : \A v \in WaitsFor(u) : WaitsFor(v) = {}

\* Every create and every query that was called has returned, for good.
CallsReturn ==
  /\ \A c \in Creators : <>[](cpc[c] = "idle")
  /\ \A r \in Readers : <>[](rpc[r] = "idle")

(***************************************************************************)
(* Once the publisher and the callers are quiet, every ByGlobal namespace  *)
(* in the map ends up serving the last published version: no interleaving  *)
(* of events, creates and queries makes update_callback lose it.           *)
(***************************************************************************)
Converges ==
  CallsReturn =>
    \A h \in Handles :
      <>[](Registered(h) /\ notify_level[h] = "ByGlobal"
             => current_memstore[h] = published)

(***************************************************************************)
(* What the repository says and the code does not do.                      *)
(***************************************************************************)

\* The tests call create and go on with its result: a create call returns.
CreateReturns ==
  \A c \in Creators : cpc[c] # "idle" ~> cpc[c] = "idle"
=============================================================================

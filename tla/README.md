# eafcc-core: models, checks and proofs

eafcc is a configuration centre as a library. A publisher puts versions of a
configuration into a storage (a directory tree or a git branch). `CFGCenter`
watches the storage, keeps for every *namespace* an in-memory index of the
current version, and answers queries: which values do the given keys have for a
caller who carries these tags? This directory holds TLA+ models of that library,
the TLC runs that check them and the theorems TLAPS has proved about them.
`PROJECT.json` is the index: runs, mutants, the source lines of every
definition, findings, hazards and theorems.

## 1. Inventory

| component | state | operations | correct if |
|---|---|---|---|
| `CFGCenterInner` (`cfg_center.rs`, `mem_store.rs`) | `Mutex<current_version>`, `Mutex<namespaces>` | `new`, `create_namespace_scoped_cfg_center`, `get_namespace_scoped_cfg_center`, `update_callback` | no update slips past a namespace, calls return, a level does what its comment says |
| `NamespaceScopedCFGCenter`, `Differ` (`namespace.rs`, `differ.rs`) | `RwLock<Box<MemStorage>>`, level, callback | `get_cfg`, `update_callback` | one query sees one version, never an older one than before; a change is announced with its true old and new side |
| `IndexBuilder`, `RuleIndex`, `LinkIndex`, `ResIndex` (`cfgindex.rs`) | three hash maps | `load` (three walks), `add_*` | the indices say what the files say, whatever the order of the walks |
| `Querier` (`querier.rs`) | locals of one query | `get` in two views | the answer is what the files determine |
| Rule engine and parser (`rule_engine`, `parser/rule.rs`, `model/rule.rs`) | none | `eval`, `do_parse`, `load_from_slice` | a rule holds exactly if its text does |
| `FilesystemBackend` | `head` file, PollWatcher, channel, thread | `get_current_version`, `set_update_cb`, `eafcc_watcher` | the last version in `head` gets to `CFGCenter` |
| `GitBackend` | `RwLock<GitBackendInner>`, local clone, thread | `git_sync_local_branch`, `git_watcher`, `walk_dir`, `get_obj_by_hash` | only commits in the clone become known, the branch is followed, loads end |
| Go binding (`bindings/go/eafcc.go`) | `Namespace` with an LRU cache, instance storage | `CreateNamespace`, `GetCfg`, `update_cb_go` | one answer is of one version and has all its keys |
| C interface (`ffi.rs`) | raw pointers to `Box`es and `Arc`s, blocks behind results, thread-local last error | `new_*`, `create_namespace`, `get_config`, `differ_get_from_*`, `free_*`, `get_last_error` | a pointer is good until it is freed, freeing releases everything once, a null pointer comes with its own error |

How they interact. The backend owns a watcher thread and calls
`CFGCenterInner::update_callback` on it. That takes `namespaces`, then
`current_version`, and for each namespace builds a new `MemStorage` (which calls
back into the backend's `walk_dir` and `get_obj_by_hash`), calls the user's
callback with a `Differ` of old and new, and replaces the store. Application
threads meanwhile create namespaces (`current_version`, then a load, then
`namespaces`) and query them under the read guard of the store. In Go a query
goes through a cache that the update callback empties.

What is hard here: the two mutexes and the two `RwLock`s between watcher,
creators and readers; the callback that runs before the replacement; reloads
that fail or panic half way through the loop; the window between reading the
version and watching for changes; two exchanges with a git remote that moves in
between; a `head` file read while it is written; hash maps and unstable sorts
whose order must not show; a cache filled outside its lock; reference counts and
manual `Drop`s across the C boundary. `hazards` in `PROJECT.json` lists them at their lines.

## 2. Modules

| module | models | composed with |
|---|---|---|
| `ConfigView` | abstract: what a querying thread may rely on | implemented by `CFGCenter` |
| `CFGCenter` | `CFGCenterInner`, namespaces, watcher, creators, readers | `INSTANCE ConfigView`, `INSTANCE StorageBackend` |
| `CFGCenterProofs` | its theorems | |
| `CFGIndex` | `IndexBuilder::load`, the three indices, both `walk_dir`s | |
| `Querier` | `Querier::get` on top of a load | `EXTENDS CFGIndex` |
| `QuerierProofs` | its theorems | |
| `RuleEngine`, `RuleParser` | `Condition::eval`; the grammar and `Rule::load_from_slice` | parser `EXTENDS` engine |
| `StorageBackend` | abstract: what `CFGCenter` may rely on in a backend | used by `CFGCenter`, implemented by both backends |
| `FsBackend`, `FsBackendProofs` | startup and watcher thread of the filesystem backend; its theorems | `INSTANCE StorageBackend` |
| `GitBackend`, `GitBackendProofs` | watcher thread, synchronisation, locks of loads; its theorems | `INSTANCE StorageBackend` |
| `GoNamespace`, `GoNamespaceProofs` | the cache of the Go binding against updates from Rust; its theorems | uses `AtomicView` as an assumption |
| `CInterface`, `CInterfaceProofs` | the exported C functions; its theorems | uses the atomicity of `CFGCenter` as an assumption |
| `MC...` | small instances for TLC | |

### CFGCenter and ConfigView
A version is the number of its publication and a `MemStorage` the number of the
version it was built from: which version is served where is all the properties
of this part tell apart. Loads at a version read content that does not change
(versioned directories, commits), so a load is one step with an outcome `ok`,
`err` or `panic` (`remove_path_type_prefix` slices the first six bytes off a
path in a link file). The steps of `update_callback` are the taking of each
mutex, the load of one namespace, the call of its callback, its return, the
replacement of the store, and the commit of the version. Each arm of
`UpdateNotifyLevel` is an action of its own. Poisoning of the mutexes is
modelled: a panic in a load ends the watcher thread and poisons both, or ends a
creator's call and poisons `current_version`. A create call is the lock of
`current_version`, the load under it, and the insert into the map. A query takes
the read guard, looks its keys up one by one, and drops the guard. `missed` and
`notified` are history variables. A panic in a user callback, and callbacks that
call back into the library, are not modelled. `get_diff_list` of both backends
is a stub that returns an empty list, on which `update_callback` skips the
namespace: at the levels NotifyWithoutChangedKeysInNamespace and
NotifyWithMaybeChangedKeys a namespace keeps its first version for good, although
the comments at these levels promise news of changes. `DiffResults` also has the
outcomes another backend could give.

`ConfigView` has only `open` and `served`: handles open at the served version,
advance to newer ones, and a query is one atomic read.

### CFGIndex and Querier
A file is decoded or `Undecodable`; a rule is its truth value for the caller. The
three walks visit the files in any order. A bad file fails the load in the
`walk_dir` of the trait, which the filesystem backend uses, and is left out by
that of the git backend (`SkipsErrors`); any load can fail at a directory that
cannot be listed. Rules are visited in any order (hash map), and
`sort_unstable_by` yields any permutation that respects the comparator where it
is strict (the comparator is no order on two negative links of equal priority;
recent Rust may panic on such a comparator for slices of more than twenty, which
is not modelled). Priorities are finite floats in the code and natural numbers
here; only their order matters. An answer records the link item and the position
in its resource that each value comes from.

### RuleEngine and RuleParser
The text of a rule is a sequence of tokens; `tag == "literal"` is one token and
`?` stands for all that `leaf_expr` refuses. A parser is an operator from text
and position to a condition and the next position, one per function of the
source; nom's `alt` and `many0` appear as the choice of the first alternative and
as a loop that stops without an error. The reference is stated without a parser:
well-formedness by balance and neighbouring tokens, meaning by splitting at the
weakest operator outside parentheses.

### StorageBackend
What the backends promise to `CFGCenter`: a version handed on was published, never
precedes one handed on before, and its files can be read by then and from then on
(`loadable`: the versions whose commit is in the clone, or all directories that were
published). It may be skipped or handed on twice. `Publish`
and `Deliver` of `CFGCenter` are steps of this module, so that what is shown of
`CFGCenter` holds on every storage that keeps the promise; `FsBackend` and
`GitBackend` are shown to keep it.

### FsBackend
The publisher writes `head` in one step or in two; in between a reader finds an
incomplete name. Such a name is handed on as a version, `list_dir` finds no
directory for it, and the namespace keeps its index (`Loaded`). The PollWatcher
(external) compares modification times and sends one event per new one; a round
that cannot get at `head` sends an Error, which the arm `_ => continue` of
`eafcc_watcher` skips (`RecvOther`). The arm for a failed `recv` cannot be reached:
the sender is in the backend, which the callback in the thread's own hands keeps
alive. Taking an
event and reading `head` are separate steps, so events pile up and are read late.
`served` is the version one ByGlobal namespace has been loaded from.
Two things are assumed of the storage. Every write of `head` gives it a new
modification time; the PollWatcher of notify 4 compares whole seconds, so a second
write within the same second as one already polled goes unnoticed. And no
name of a version is the beginning of another one's: with `v1` and `v10` a reader of a
half-written `head` would find the older version instead of none.

### GitBackend
Versions are numbered as the branch moves, and every version has a commit: a push
brings a new one, a rollback an old one. `reachable` is what a fetch brings, and a
forced push takes commits out of it. The watcher's round is: list the remote,
compare, ask for the write guard, fetch, find the commit and move the branch,
call back, ask for the write guard again, and take it for `cur_version`; a load may begin
between any two of these. However the synchronisation ends, it drops its guard
(`Released`). The loader takes a
read guard per walk and another per file, and a parking_lot `read()` waits behind
a waiting writer. There is one loader because create holds `current_version`
while it loads; the loads of the watcher's own callback run in the callback step,
when the watcher holds no guard.

### GoNamespace
One step is one hold of `ns.RWMutex` or one call into Rust, which is atomic for
its caller (`AtomicView`). Queries are for one caller, view mode and explain
flag, so a cache key is a key. The LRU list of groupcache (external) is given by
what it comes to and not by its single moves: after a list of `Get`s or `Add`s the
entries stand in the order of their last use (`UsedAfter`, `Recent`), and the limit
leaves the first ones (`Kept`). `update_cb_go`
holds the lock until `updateCB` returns, and the store is replaced after that.
The history variable `overlapped` says whether an update and a `GetCfg` have run
at the same time: until then the cache is right, afterwards answers can mix
versions or lose keys (section 3). `lru.Cache.Get` under the read lock is a data
race and is outside the model. The error return of `GetCfgRawNoCache` is never
taken in the code.

### CInterface
The application's threads and its callback on the watcher thread call the
exported functions. A namespace object is its strong count, the pointer the
application holds and its entry in the map; a second create of a name takes the
first object out of the map. A query (`get_config`, or `differ_get_from_*` from
inside the callback) begins in one step and ends in others, so that other threads
free, create and update in between. A result is a number of blocks: the box, the
buffer of the array, and each string and reason box of each value. The conversion
allocates them one by one in the order of the code, and can meet a NUL byte in any
string of `NulFields`; then the values made before are released, as they are when a
result is freed: field by field, through the three nested `Drop`s (`DropValue`,
`DropReason`, `Releases`). While one conversion or `Drop` is in work the other threads
wait: nobody else can get at its blocks, so its steps commute with any call of
theirs and the orders left out lead to the same states. The error text shown by
`get_last_error` is empty if the message has a NUL byte (`CStringOrDefault`). The
application is assumed to use a pointer only until it frees it, not to free what
another of its threads is using, and not to call `create_namespace` from the
callback (which would wait for its own thread). `why` and `failed` are history.

## 3. Runs

Passing runs:

| run | properties | shows |
|---|---|---|
| `center_safety` | `TypeOK`, `NoMissedUpdate`, `ChangeAnnounced`, `ReplacedIsLeftAlone`, `WaitsEnd`, `AtomicView` | with failing and panicking loads, all levels and all answers of `get_diff_list`, no update slips past a ByGlobal namespace, each change is announced before it happens, a replaced namespace is left alone, no thread keeps a mutex after its operation has ended, failed or panicked, the lock-order deadlock is the only one, and `CFGCenter` implements `ConfigView` |
| `center_liveness` | `Converges` | once publisher and callers are quiet, ByGlobal namespaces in the map serve the last version |
| `querier_views` | `TypeOK`, `OverlaidCorrect`, `WholeIndex`, `AllLinkedCorrect` | answers do not depend on walk, hash or sort order and are what the decodable files say; on the filesystem backend no index lacks a file or a resource of a link |
| `rule_meaning` | `AcceptsWellFormed`, `RuleMeansText` | the parser drops nothing silently and evaluation follows the precedence of the text |
| `fs_follows` | `TypeOK`, `ChangeIsPending`, `FollowsHead`, `ImplementsBackend` | with the watcher in place the last version comes to be served unless its read fails, also when `head` is read half written; until then a poll, an event or a read is still to come; nothing unpublished or older is ever served |
| `git_remote` | `TypeOK`, `KnownIsFetched`, `ChangeIsSeen`, `LoadGetsOn`, `FollowsRemote`, `ImplementsBackend` | only fetched commits become known; failed exchanges, forced pushes and rollbacks are made up for, in order; what is handed on is in the clone and stays there; a load waits only while the watcher has the write guard or is next to get it |
| `go_quiet` | `TypeOK`, `OneVersionWhenQuiet`, `CacheIsServed`, `Complete`, `GetReturns` | the Go cache is right as long as updates and queries do not overlap; every `GetCfg` returns even if they do |
| `c_handles` | `TypeOK`, `PointersValid`, `HeapAccounted`, `ReleasesAllocated`, `NullIsExplained` | counts, pointers and the map agree through any order of creates, frees, queries and updates; the blocks of results, and of the values a failed conversion gives up, are released completely and each once; errors belong to the thread and call that failed |

Runs that end in a violation, each a place where the code disagrees with its own
comments or tests (quoted in `findings`):

| run | what happens |
|---|---|
| `create_deadlock` | create holds `current_version` and waits for `namespaces`; the watcher does the opposite |
| `fs_startup_window` | a change of `head` before the watcher is in place is never noticed |
| `git_recursive_read` | a second read guard behind a waiting writer blocks loader and watcher |
| `go_mixed_versions` | an answer mixes a stale cache entry with newer values |

The passing properties are stated so as to hold of the code. What they exempt is
worth knowing; each of these is reachable in the models:

* `Registered` in `NoMissedUpdate` and `Converges`: a second create of a name
  takes the first handle out of the map, and it is never updated again
  (`ReplacedIsLeftAlone`).
* `missed`: a namespace whose reload failed stays behind until the next change.
* `version_poisoned` in `NoMissedUpdate`: after a panic in the load of a create call
  `update_callback` finds `current_version` poisoned and drops every update from then
  on (`WatchGiveUp`); all namespaces stay at the version they have. After a panic in a
  load of `update_callback` itself the watcher thread is gone and `namespaces` is
  poisoned, which `NoMissedUpdate` exempts too.
* `Announces` in `ChangeAnnounced`: with a backend whose `get_diff_list` works, a
  namespace at NotifyWithoutChangedKeysInNamespace changes without its callback
  being called, and one at NotifyWithMaybeChangedKeys has its new store built and
  dropped.
* `backend = "filesystem"` in `WholeIndex`: on the git backend a bad file is left
  out without a trace, and the answer is the one without it (`OverlaidCorrect`).
* `LockOrderCycle` in `WaitsEnd`: the deadlock of `create_deadlock`, a creator that
  has `current_version` and is at its insert while the watcher has `namespaces`.
* `failed` in `FollowsHead` and `ChangeIsPending`: a failed read of `head` uses its
  event up. `StartupWrites` in the latter: the changes of `fs_startup_window`.
* `[](remote # NoBranch)` in `FollowsRemote`: a listing without the branch ends the
  watcher thread, and a branch that comes back is not followed (`listed = NoBranch` in
  `ChangeIsSeen`). Exchanges with the remote are taken to return; the code sets no
  timeout (its TODO says so), and one that hangs holds the write guard.
* `LoadGetsOn` says for whom a load waits, not that this thread gets on: in the middle
  of a walk the watcher that is next to get the guard waits in turn for the load
  (`git_recursive_read`).
* `overlapped` and `Roomy` for `Complete`: an update between the fill and the second
  read, or a cache with too little room, makes keys vanish from an answer of
  `GetCfg`. Too little is less than all keys that have a value, since another
  goroutine may fill the cache with other keys in between.
* `updateCB` returns, in `GetReturns`: one that calls `GetCfg` on its own namespace
  waits for a lock its goroutine holds. A key list that names an uncached key
  twice caches two copies of its values, which the model does not tell from one.
* `failed` in `HeapAccounted`: a conversion that fails in the middle of a value leaves
  the strings (and the reason) of that value behind, and nobody can free them.
* `why[t] # NoError` in `NullIsExplained`: a call that succeeds does not clear the
  error, so `get_last_error` after it shows an older one. An error text with a NUL
  byte is shown as an empty one. The Go binding reads the
  result of `get_config` without looking for a null pointer.
* `EmptyLiteral` in `RuleMeansText`: `a == ""` is loaded as a comparison with two quote
  characters, because the first alternative of `string` returns what it has matched.
  So it does not hold where `a` is empty, and does where `a` is two quotes; for other
  callers nothing is exempt.
* `?` in `AcceptsWellFormed`: the list of precedences at `parser/rule.rs:17-22` names
  `>=`, `!=` and others. `leaf_expr` accepts only `==`, so a rule with one of them is
  refused and does not count as well formed here.

Every property of a passing run has a mutant in `PROJECT.json`: a faulty variant of
one operation, defined next to it, under which the same run fails.

Deadlock checking is off in all configurations: publishers, callers and pushes
may stop at any time, and a state in which nobody wants anything is no error.
Real deadlocks are caught by the liveness properties and by `WaitsEnd` and
`LoadGetsOn`, which say of every state who waits for whom.

### Bounds
* `CFGCenter`: one creator (two for liveness), a reader, two names and two
  handles, two publications. Two handles give two names or one name created
  twice; two publications let an update follow a failed one and overlap a create;
  the creator makes both create calls. The proofs cover all sizes.
* `Querier`: two rules, three links, two resources, two keys, one bad file; enough
  for ties of priority with and without negation above and below other links,
  dangling paths, a link with two resources, a resource that repeats a key.
* `RuleParser`: all sequences of up to seven tokens over two tags, those of up to five
  with the empty literal too, which has `( a || b ) && a` and `! ( a || b )`.
* `FsBackend`: five publications in up to ten writes, and two errors, so that
  events pile up and incomplete names are read.
* `GitBackend`: three changes of the branch, two failures, two files per walk.
* `GoNamespace`: two goroutines, two keys and one without a value, two updates, a
  cache of one entry, with just enough room, or without limit.
* `CInterface`: one application thread besides the watcher's, two objects under one
  name, one caller object, one result at a time of at most two values, NUL bytes in
  a string of the reason and in the first and the last one after it: a conversion can
  fail with and without a complete value before it, with nothing, half a reason, a
  whole reason or all but one string in the making. Results of any number and length
  are left to the proof.

Symmetry is used for rules, link files, and the objects and threads of
`CInterface`, in runs without liveness.

### Fairness
Weak fairness of the threads' own steps: mutexes and guards that stay free are
granted, threads keep running, polling goes on every two seconds. Nobody has to
publish, push, call, fail, or look up one more key. In `CFGCenter` the
storage may deliver any version between the last one delivered and the newest, as
often as it likes, but does not deliver only old ones for ever: strong fairness of
delivering the newest version while it is not the last one delivered. It is strong
because the watcher thread is busy between deliveries. `FsBackend` and `GitBackend`
(`FollowsHead`, `FollowsRemote`) show under which conditions that holds of the two
backends and when it does not.
`std::sync::RwLock` may let a writer wait while readers come and go; `Converges`
is stated for callers that become quiet.

## 4. Theorems

All are proved by `tlapm` without open obligations, for every value of the
constants that meets the assumptions named in the modules.

* `CFGCenterProofs`: `TypeCorrect`, `NoUpdateMissed`, `ChangesAreAnnounced`,
  `ReplacedStaysAlone`, `ViewIsAtomic` and `AllOtherWaitsEnd`, all from one inductive invariant `IInv`,
  which adds to `TypeOK`: who holds which mutex (`LockInv`), that `namespaces` is
  poisoned only by a watcher that is gone (`PoisonInv`), that map and handles agree
  (`HandleInv`), that versions move forward and a creator's loaded version is
  still `current_version` while it holds the lock (`VersionInv`), that in the loop
  what is done serves the new version and the rest the old one (`FreshInv`), that
  the namespace in work is the one in the map and what its callback has been told
  (`TargetInv`), and that a running query holds its guard and has read only what
  is still served (`ReaderInv`). `NoMissedUpdate` by itself is not inductive: it
  says nothing while the loop runs, nor of a create between its load and its
  insert. The refinement maps a replacement to `Advance`, an insert to `Open`, the
  end of a query to `Query` and everything else to a stutter. `AllOtherWaitsEnd` needs
  `GuardInv` besides: a read guard belongs to a reader, or to the watcher during its
  callback on that handle; from it and `LockInv` follows that who holds a mutex or a
  guard is in the middle of its operation. So the watcher at the write lock waits only for queries
  that have their guard and wait for nobody; a creator waits for the watcher or another
  creator; and the watcher at `current_version` waits for a creator who waits in turn
  only in `LockOrderCycle`.
* `FsBackendProofs`: `TypeCorrect`, `FsIsStorageBackend` and `NoChangeForgotten`. The
  invariant adds that there are no more events than modification times seen
  (`EventsInv`) and at most two writes per version (`WritesInv`), which bounds the
  modification time. `NoChangeForgotten` adds what is there before the thread runs
  (`QuietStart`).
* `GitBackendProofs`: `TypeCorrect`, `OnlyFetchedIsKnown`, `GitIsStorageBackend`,
  `NoChangeOverlooked` and `OtherLoadsGetOn`.
  The invariant adds that the listed commit is in the clone from the check on
  until it has become `cur_version`, and that known, listed and remote version
  are in order (`InOrder`). The last two theorems add `RoundInv`: between rounds
  `cur_version` and the version `CFGCenter` knows are the same commit, and the guard
  is asked for or held exactly at the places of the round where it should be; and
  `BranchInv`: the watcher ends only at a listing without the branch. In the
  refinement a fetch is an `Obtain`; the lemma `MoveRemoteImplements` says that moving
  the branch takes no version out of `loadable`.
* `QuerierProofs`: `OverlaidIsCorrect`, `AllLinkedIsCorrect`, `IndexIsWhole` and
  `TypeCorrect`, for any files, links and key lists. The invariant follows the load
  (`FileInv`, `IndexInv`: the indices hold what has been walked so far; `WholeInv`: on
  the filesystem backend the bad files of a tree are still to come), the collection
  of links (`QueryInv`) and the lookup (`LookupInv`: the links are sorted and all those
  passed for the current key give it nothing). The first link that gives the key a
  value is then of the highest priority, and negative if any such link is. For the
  view of all linked resources sets are not enough, since no value may come twice:
  `ListInv` says that no list of the index and of the query repeats an item (a rule
  is visited once, a link file walked once), and `AllLinkedInv` that the answer so far
  has exactly the values of the links seen, without repetition.
* `CInterfaceProofs`: `PointersStayValid`, from the exact count of `Arc`s
  (`CountInv`), that the map holds an object under one name (`MapInv`) and that what
  is in use is held or in the map (`UseInv`); `MemoryIsAccounted` and `ReleasesAreAllocated`, for results of
  any length, from `MInv`: at every step of a conversion or a `Drop` the heap is the
  blocks of the results, what failed conversions have left, and the blocks of the one
  in work that are already made or not yet released (`Live`), and the addresses of
  these do not meet. Neither property is inductive by itself, as one says nothing
  during a `Drop` and the other nothing outside of it. That the order of `DropValue`
  visits every field that `Fields` allocates exactly once is what the steps rest on;
  `TypeCorrect`, which adds that a running call keeps its `WhoAmI`
  (`OwnInv`); and `NullsAreExplained`, an action property, from the invariant that the
  error of a thread is the one its last call ended with (`ErrorInv`) and from the
  lemma `StepErrors`, that no step writes the error of a thread that is not its own.
* `GoNamespaceProofs`: `TypeCorrect`, `QuietAnswersHaveOneVersion`,
  `CacheServesCurrent` and `AnswersAreComplete`, for any goroutines, keys, key lists,
  cache sizes and updates, from one invariant: the cache has one entry per key
  (`CacheInv`); what a call knows at each of its places, and that nobody calls before
  the instance is put (`CallInv`); as long as no update meets a call, the cache is empty
  during an update and all that is cached, fetched or answered is what Rust serves
  (`QuietInv`); and with room for all keys that have a value a key stays cached from the time it is found or
  filled until the second read (`KeysInv`), which `Complete` needs because another
  goroutine may fill in between. The lemmas on the LRU list (`RecentProperties`,
  `KeptProperties` and those around them) say that reordering loses and invents no entry
  and that the limit leaves a part of them, all of them if there is room (`FewEntries`:
  a cache without repeated keys has no more entries than there are keys).

Only model-checked:

* liveness (`Converges`, `FollowsHead`, `FollowsRemote`, `GetReturns`), which is out of
  the prover's reach. What it rests on is proved: `ChangeIsPending` and `ChangeIsSeen`
  say that as long as the last version is not served something is left to bring it
  on, `WaitsEnd` and `LoadGetsOn` that nobody waits in vain on the way; that fair
  threads then get there is what TLC checks;
* `AcceptsWellFormed` and `RuleMeansText`: the parser and its reference are recursive
  over the text, and a proof would be an induction over it, which the prover cannot
  do;
* that the declarative LRU list of `GoNamespace` is what the single moves of groupcache
  come to was compared with a step-by-step definition for all caches and lists of up
  to three keys; that step-by-step definition is not kept here.

## 5. Not modelled
JSON decoding of stored objects (a file decodes or it does not), error texts, ssh
and certificate settings, the p2p demo and the benchmark. Of `Differ`, the stub
methods that do nothing. Of the parser, white space, identifiers and escapes
inside literals. Of the Go binding, `WhoAmI` objects (two goroutines can both
create the C object of one; `Free` twice frees it twice), the hashing of cache keys
and the race inside `lru.Cache.Get`. Of the C interface, the contents of strings and
applications that misuse pointers. User callbacks that call back into
`create_namespace` or, in Go, into `GetCfg`: they block their own thread by the
text of the code.

## 6. Plan
Done: `ConfigView`, `CFGCenter`, `CFGIndex`, `Querier`, `StorageBackend`, `FsBackend`,
`GitBackend`, `GoNamespace`, `RuleEngine`, `RuleParser`, `CInterface`, their runs,
and the theorems of section 4. Left:

1. `CFGCenter` composed with the locks of `GitBackend`: loads by creators and by
   the watcher's callback against one clone.
2. `WhoAmI` objects of the Go binding on top of `CInterface`.

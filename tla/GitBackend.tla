----------------------------- MODULE GitBackend -----------------------------
(***************************************************************************)
(* GitBackend (storage_backends/git/mod.rs): a bare local clone that a     *)
(* watcher thread synchronises with a branch of the remote repository, and *)
(* the thread that loads a namespace from the clone.  There is at most one *)
(* of these: the create call holding CFGCenterInner.current_version.       *)
(*                                                                         *)
(* Every change of the branch on the remote has a number, and every such   *)
(* version a commit: a push brings a new one, a rollback an old one.       *)
(* GitBackendInner sits behind a parking_lot RwLock, whose read() waits as *)
(* soon as a writer is waiting, even in a thread that holds a read guard.  *)
(* The mutex on the Repository is only taken under one of its guards.      *)
(* The commits reachable from the branch matter because a fetch brings     *)
(* those, and a forced push can leave a listed commit out of them.         *)
(* The code compares commits; that the numbers never decrease is what it   *)
(* makes of them (StorageBackend).                                         *)
(***************************************************************************)
EXTENDS Integers

CONSTANTS
  MaxVersion,   \* bound: number of pushes after the initial commit
  MaxErrors,    \* bound: number of failed calls of libgit2
  MaxFiles,     \* bound: files one walk_dir visits
  MayVanish,    \* may the branch be deleted on the remote?
  NoBranch      \* the branch is not there

ASSUME BoundsAssumption == MaxVersion \in Nat /\ MaxErrors \in Nat /\ MaxFiles \in Nat
ASSUME VanishAssumption == MayVanish \in BOOLEAN
ASSUME BranchAssumption == NoBranch \notin Nat

VARIABLES
  \* the remote repository
  pushed,         \* number of the newest version
  commit,         \* version -> commit
  remote,         \* the version the branch is at, or NoBranch
  reachable,      \* the commits that can be reached from it
  \* GitBackendInner and the local clone
  cur_version,    \* the field of that name
  local_branch,   \* where the local branch points
  fetched,        \* the commits in the local clone
  \* RwLock<GitBackendInner>; the read guard of walk_dir is held while lpc = "walk"
  write_waiting,  \* the watcher waits for the write guard ...
  write_held,     \* ... or has it
  \* the watcher thread
  wpc,
  listed,         \* newest_remote_commit_id
  known,          \* the last version handed to CFGCenter
  errors,         \* failed calls of libgit2 so far
  \* the loading thread
  lpc,
  walks,          \* trees still to be walked: rules, links, reses
  files           \* files still to be visited in this one

remoteVars == <<pushed, commit, remote, reachable>>
cloneVars  == <<cur_version, local_branch, fetched>>
lockVars   == <<write_waiting, write_held>>
watchVars  == <<wpc, listed, known, errors>>
loaderVars == <<lpc, walks, files>>
vars == <<remoteVars, cloneVars, lockVars, watchVars, loaderVars>>

\* GitBackend::new has synchronised once and CFGCenter::new has asked for the version.
Init ==
  /\ pushed = 0 /\ commit = [v \in 0 .. 0 |-> 0] /\ remote = 0 /\ reachable = {0}
  /\ cur_version = 0 /\ local_branch = 0 /\ fetched = {0}
  /\ write_waiting = FALSE /\ write_held = FALSE
  /\ wpc = "sleep" /\ listed = 0 /\ known = 0 /\ errors = 0
  /\ lpc = "idle" /\ walks = 0 /\ files = 0

-----------------------------------------------------------------------------
\* The branch is at version pushed + 1, which is commit c, and reaches the commits R.
MoveRemote(c, R) ==
  /\ pushed < MaxVersion
  /\ pushed' = pushed + 1 /\ remote' = pushed + 1
  /\ commit' = [v \in 0 .. pushed + 1 |-> IF v = pushed + 1 THEN c ELSE commit[v]]
  /\ reachable' = R
  /\ UNCHANGED <<cloneVars, lockVars, watchVars, loaderVars>>

\* External: a push adds a commit; a forced one drops the newest ones first.
Push ==
  \E keep \in 0 .. pushed :
    MoveRemote(pushed + 1, {c \in reachable : c <= keep} \cup {pushed + 1})

\* External: a forced push takes the branch back to an earlier commit.
Rollback ==
  /\ remote # NoBranch
  /\ \E c \in reachable \ {commit[remote]} : MoveRemote(c, {d \in reachable : d <= c})

\* External: the branch is deleted on the remote; a later push brings it back.
DeleteBranch ==
  /\ MayVanish /\ remote # NoBranch
  /\ remote' = NoBranch /\ reachable' = {}
  /\ UNCHANGED <<pushed, commit, cloneVars, lockVars, watchVars, loaderVars>>

-----------------------------------------------------------------------------
(***************************************************************************)
(* git_watcher: sleep, git_sync_local_branch, callback, cur_version.       *)
(***************************************************************************)
WatcherAt(from, to) == wpc = from /\ wpc' = to /\ UNCHANGED <<remoteVars, loaderVars>>

\* Faulty variant: an error ends the loop.
OnErrorStop == "dead"

\* The arm `_ => {}`: the next round tries again.
OnError == "sleep"

\* Faulty variant: an early return keeps the guard.
StillHeld == write_held

\* However git_sync_local_branch is left, the write guard goes out of scope.
Released == FALSE

\* Listing, fetching or moving the branch can fail: reported, and so to sleep.
SyncFails ==
  /\ \E from \in {"sleep", "fetch", "find"} : WatcherAt(from, OnError)
  /\ wpc = "find" => listed # NoBranch
  /\ errors < MaxErrors /\ errors' = errors + 1
  /\ write_held' = Released
  /\ UNCHANGED <<cloneVars, write_waiting, listed, known>>

\* The remote is asked for its branches.
ListRemote ==
  /\ WatcherAt("sleep", "compare")
  /\ listed' = remote
  /\ UNCHANGED <<cloneVars, lockVars, known, errors>>

\* The listed commit is that of cur_version.
UpToDate == listed # NoBranch /\ commit[listed] = commit[cur_version]

\* Then there is nothing to do: Ok(None), back to sleep.
NothingNew ==
  /\ WatcherAt("compare", "sleep") /\ UpToDate
  /\ UNCHANGED <<cloneVars, lockVars, listed, known, errors>>

\* Otherwise, also without a branch, the write guard is asked for.
AskForLock ==
  /\ WatcherAt("compare", "lock") /\ ~UpToDate
  /\ write_waiting' = TRUE
  /\ UNCHANGED <<cloneVars, write_held, listed, known, errors>>

\* The write guard is granted when the read guard is gone.
Granted == lpc # "walk" /\ write_waiting' = FALSE

LockForFetch ==
  /\ WatcherAt("lock", "fetch")
  /\ Granted /\ write_held' = TRUE
  /\ UNCHANGED <<cloneVars, listed, known, errors>>

\* The fetch brings what the branch holds by now.
Fetch ==
  /\ WatcherAt("fetch", "find")
  /\ fetched' = fetched \cup reachable
  /\ UNCHANGED <<cur_version, local_branch, lockVars, listed, known, errors>>

\* newest_remote_commit_id.unwrap() without a branch: the thread panics and is gone.
UnwrapPanics ==
  /\ WatcherAt("find", "dead") /\ listed = NoBranch
  /\ write_held' = Released
  /\ UNCHANGED <<cloneVars, write_waiting, listed, known, errors>>

\* Faulty variant: the branch is moved without looking the commit up.
CommitNotLookedUp == TRUE

\* find_commit in the local clone.
CommitFound == commit[listed] \in fetched

CommitMissing ==
  /\ WatcherAt("find", OnError) /\ listed # NoBranch /\ ~CommitFound
  /\ write_held' = Released
  /\ UNCHANGED <<cloneVars, write_waiting, listed, known, errors>>

\* The local branch is moved to it, both guards are dropped.
MoveBranch ==
  /\ WatcherAt("find", "callback") /\ listed # NoBranch /\ CommitFound
  /\ local_branch' = listed
  /\ write_held' = Released
  /\ UNCHANGED <<cur_version, fetched, write_waiting, listed, known, errors>>

\* Faulty variant: what is handed on is read from the configured branch again.
VersionOfRemote == IF remote = NoBranch THEN listed ELSE remote

\* The VersionItem that git_sync_local_branch returns.
NewVersion == listed

(***************************************************************************)
(* CFGCenterInner::update_callback runs; it has to wait for a load that is *)
(* going on, which holds current_version.                                  *)
(***************************************************************************)
Callback ==
  /\ WatcherAt("callback", "ask") /\ lpc = "idle"
  /\ known' = NewVersion
  /\ UNCHANGED <<cloneVars, lockVars, listed, errors>>

\* The callback has returned, a new load may have begun, and the write guard is
\* asked for again.
AskForCommit ==
  /\ WatcherAt("ask", "commit")
  /\ write_waiting' = TRUE
  /\ UNCHANGED <<cloneVars, write_held, listed, known, errors>>

Commit ==
  /\ WatcherAt("commit", "sleep")
  /\ Granted
  /\ cur_version' = listed
  /\ UNCHANGED <<local_branch, fetched, write_held, listed, known, errors>>

WatcherStep ==
  \/ ListRemote \/ NothingNew \/ AskForLock \/ LockForFetch \/ Fetch
  \/ UnwrapPanics \/ CommitMissing \/ MoveBranch \/ Callback \/ AskForCommit \/ Commit

-----------------------------------------------------------------------------
(***************************************************************************)
(* A create call loads a namespace.  Each of the three walks holds a read  *)
(* guard all along, and each file it visits calls get_obj_by_hash, which   *)
(* takes a read guard of its own.                                          *)
(***************************************************************************)
LoaderAt(from, to) ==
  lpc = from /\ lpc' = to /\ UNCHANGED <<remoteVars, cloneVars, lockVars, watchVars>>

CanRead == ~write_waiting /\ ~write_held

LoadBegin == LoaderAt("idle", "load") /\ walks' = 3 /\ UNCHANGED files

\* Faulty variant: the load does not stop after the third tree.
WalksAlways == TRUE

WalksLeft == walks > 0

WalkBegin ==
  LoaderAt("load", "walk") /\ WalksLeft /\ CanRead /\ files' \in 0 .. MaxFiles /\ UNCHANGED walks

GetObjByHash ==
  LoaderAt("walk", "walk") /\ files > 0 /\ CanRead /\ files' = files - 1 /\ UNCHANGED walks

WalkEnd == LoaderAt("walk", "load") /\ files = 0 /\ walks' = walks - 1 /\ UNCHANGED files

LoadEnd == LoaderAt("load", "idle") /\ walks = 0 /\ UNCHANGED <<walks, files>>

LoaderStep == WalkBegin \/ GetObjByHash \/ WalkEnd \/ LoadEnd

-----------------------------------------------------------------------------
Next ==
  \/ Push \/ Rollback \/ DeleteBranch
  \/ SyncFails \/ WatcherStep
  \/ LoadBegin \/ LoaderStep

Spec == Init /\ [][Next]_vars

\* The threads keep running; nobody has to push, to start a load or to fail.
FairSpec ==
  /\ Spec
  /\ WF_vars(WatcherStep)
  /\ WF_vars(LoaderStep)

-----------------------------------------------------------------------------
\* The backend's state has the types of the fields and guards it stands for.
TypeOK ==
  /\ pushed \in 0 .. MaxVersion /\ errors \in 0 .. MaxErrors
  /\ commit \in [0 .. pushed -> 0 .. pushed]
  /\ remote \in 0 .. pushed \cup {NoBranch} /\ reachable \subseteq 0 .. pushed
  /\ cur_version \in 0 .. pushed /\ local_branch \in 0 .. pushed
  /\ fetched \subseteq 0 .. pushed /\ listed \in 0 .. pushed \cup {NoBranch}
  /\ known \in 0 .. pushed
  /\ write_waiting \in BOOLEAN /\ write_held \in BOOLEAN
  /\ wpc \in {"sleep", "compare", "lock", "fetch", "find", "callback", "ask", "commit",
             "dead"}
  /\ lpc \in {"idle", "load", "walk"} /\ walks \in 0 .. 3 /\ files \in 0 .. MaxFiles

(***************************************************************************)
(* What CFGCenter is told to load is in the clone: the listing of the      *)
(* remote and the fetch are two exchanges, and a forced push between them  *)
(* can take the listed commit away.                                        *)
(***************************************************************************)
KnownIsFetched == {commit[known], commit[local_branch], commit[cur_version]} \subseteq fetched

(***************************************************************************)
(* CFGCenter can rely on StorageBackend: what is handed on was pushed, is  *)
(* not older than what was handed on before, and is in the clone when the  *)
(* callback runs, although the branch may have moved since the listing,    *)
(* the fetch or the lookup of the commit; and a later fetch takes nothing  *)
(* away that a load may still be reading.                                  *)
(***************************************************************************)
Storage == INSTANCE StorageBackend WITH
             published <- pushed,
             loadable  <- {v \in 0 .. pushed : commit[v] \in fetched},
             delivered <- known

ImplementsBackend == Storage!Spec

(***************************************************************************)
(* Once nobody pushes and no load is in the way, CFGCenter comes to know   *)
(* the commit the remote branch points to, through failed exchanges,       *)
(* forced pushes and rollbacks.  A branch that is missing from a listing   *)
(* ends the watcher thread for good (the unwrap of                         *)
(* newest_remote_commit_id), so the branch has to be there all the time.   *)
(***************************************************************************)
KnowsRemote == remote # NoBranch /\ commit[known] = commit[remote]

FollowsRemote == [](remote # NoBranch) /\ <>[](lpc = "idle") => <>[]KnowsRemote

(***************************************************************************)
(* No state of the branch is overlooked, a commit that was served before   *)
(* included: while CFGCenter does not know the commit of the branch, a     *)
(* round is going on, or the next one will find the branch different from  *)
(* cur_version.  Only a listing without the branch ends the watcher, and   *)
(* then nothing is seen any more.                                          *)
(***************************************************************************)
ChangeIsSeen ==
  remote # NoBranch /\ commit[known] # commit[remote] =>
    /\ wpc = "sleep" => commit[cur_version] # commit[remote]
    /\ wpc = "dead" => listed = NoBranch

\* A read guard is asked for and not to be had.
LoadWaits ==
  ~CanRead /\ ((lpc = "load" /\ WalksLeft) \/ (lpc = "walk" /\ files > 0))

(***************************************************************************)
(* A load waits for a watcher that has the write guard or is next to get   *)
(* it: no return of git_sync_local_branch, early, by an error or by a      *)
(* panic, and no callback leaves the guard or a claim to it behind.  (In   *)
(* the middle of a walk the watcher in turn waits for the load:            *)
(* LoadReturns.)                                                           *)
(***************************************************************************)
LoadGetsOn == LoadWaits => wpc \in {"lock", "fetch", "find", "commit"}

\* The tests load a namespace and go on with it: a load comes to an end.
LoadReturns == lpc # "idle" ~> lpc = "idle"
=============================================================================

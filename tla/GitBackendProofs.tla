-------------------------- MODULE GitBackendProofs --------------------------
(***************************************************************************)
(* Proofs about GitBackend for every number of pushes, errors and files.   *)
(***************************************************************************)
EXTENDS GitBackend, TLAPS

\* A listing is never older than what CFGCenter knows, the branch never than a listing.
InOrder ==
  /\ listed # NoBranch => known <= listed
  /\ remote # NoBranch => known <= remote
  /\ (listed # NoBranch /\ remote # NoBranch) => listed <= remote

(***************************************************************************)
(* KnownIsFetched is not inductive: what is handed over is `listed`, and   *)
(* between the check that it is in the clone and its use the watcher lets  *)
(* go of the lock.                                                         *)
(***************************************************************************)
GitInv ==
  /\ TypeOK
  /\ KnownIsFetched
  /\ wpc \in {"callback", "ask", "commit"} => listed # NoBranch /\ CommitFound
  /\ InOrder
  /\ lpc = "walk" => walks > 0

\* The invariant holds after GitBackend::new.
LEMMA InitGitInv == Init => GitInv
<1> SUFFICES ASSUME Init PROVE GitInv OBVIOUS
<1> USE BoundsAssumption, BranchAssumption DEF Init
<1>1. commit \in [0 .. 0 -> 0 .. 0] /\ commit[0] = 0 OBVIOUS
<1>2. TypeOK
  <2>1. 0 \in 0 .. MaxVersion /\ 0 \in 0 .. MaxErrors /\ 0 \in 0 .. MaxFiles /\ 0 \in 0 .. 3
    OBVIOUS
  <2>2. {0} \subseteq 0 .. 0 OBVIOUS
  <2>3. QED BY <1>1, <2>1, <2>2 DEF TypeOK
<1>3. KnownIsFetched BY <1>1 DEF KnownIsFetched
<1>4. InOrder BY DEF InOrder
<1>5. QED BY <1>2, <1>3, <1>4 DEF GitInv

\* A change of the remote branch adds a number and leaves the commits of the others.
LEMMA MoveRemoteGitInv ==
  ASSUME GitInv, NEW c \in 0 .. pushed + 1, NEW R \in SUBSET (0 .. pushed + 1),
         MoveRemote(c, R)
  PROVE  GitInv'
<1> USE BoundsAssumption, BranchAssumption
    DEF MoveRemote, cloneVars, lockVars, watchVars, loaderVars
<1>1. /\ pushed \in Nat /\ pushed' = pushed + 1 /\ pushed' \in 0 .. MaxVersion
      /\ 0 .. pushed \subseteq 0 .. pushed'
      /\ \A v \in 0 .. pushed : commit'[v] = commit[v]
  BY DEF GitInv, TypeOK
<1>2. TypeOK' BY <1>1 DEF GitInv, TypeOK
<1>3. KnownIsFetched' BY <1>1 DEF GitInv, TypeOK, KnownIsFetched
<1>4. (wpc \in {"callback", "ask", "commit"} => listed # NoBranch /\ CommitFound)'
  BY <1>1 DEF GitInv, TypeOK, CommitFound
<1>5. InOrder' BY <1>1 DEF GitInv, TypeOK, InOrder
<1>6. QED BY <1>2, <1>3, <1>4, <1>5 DEF GitInv

\* Every step of the watcher keeps what is known, and what is about to be, in the clone.
LEMMA WatcherGitInv == GitInv /\ (SyncFails \/ WatcherStep) => GitInv'
<1> SUFFICES ASSUME GitInv, SyncFails \/ WatcherStep PROVE GitInv' OBVIOUS
<1> USE BoundsAssumption, BranchAssumption
    DEF GitInv, TypeOK, KnownIsFetched, InOrder, CommitFound, WatcherAt, OnError,
        Released, remoteVars, loaderVars, cloneVars, lockVars
<1>1. CASE SyncFails
  <2>1. PICK from \in {"sleep", "fetch", "find"} : WatcherAt(from, OnError)
    BY <1>1 DEF SyncFails
  <2>2. errors' \in 0 .. MaxErrors BY <1>1 DEF SyncFails
  <2>3. wpc' = "sleep" /\ UNCHANGED <<remoteVars, loaderVars>> BY <2>1
  <2>4. QED BY <1>1, <2>2, <2>3 DEF SyncFails
<1>2. CASE ListRemote
  <2>1. TypeOK' BY <1>2 DEF ListRemote
  <2>2. InOrder' BY <1>2 DEF ListRemote
  <2>3. QED BY <1>2, <2>1, <2>2 DEF ListRemote
<1>3. CASE NothingNew BY <1>3 DEF NothingNew
<1>4. CASE AskForLock BY <1>4 DEF AskForLock
<1>5. CASE LockForFetch BY <1>5 DEF LockForFetch, Granted
<1>6. CASE Fetch BY <1>6 DEF Fetch
<1>7. CASE UnwrapPanics BY <1>7 DEF UnwrapPanics
<1>8. CASE CommitMissing BY <1>8 DEF CommitMissing
<1>9. CASE MoveBranch BY <1>9 DEF MoveBranch
<1>10. CASE Callback
  <2>1. /\ known' = listed /\ listed # NoBranch /\ listed \in 0 .. pushed
        /\ UNCHANGED <<remoteVars, loaderVars, cloneVars, lockVars, listed, errors>>
        /\ wpc' = "ask"
    BY <1>10 DEF Callback, NewVersion
  <2>2. TypeOK' BY <2>1
  <2>3. KnownIsFetched' BY <1>10, <2>1 DEF Callback
  <2>4. InOrder' BY <2>1
  <2>5. QED BY <1>10, <2>1, <2>2, <2>3, <2>4 DEF Callback
<1>11. CASE Commit
  <2>1. cur_version' = listed /\ listed \in 0 .. pushed /\ pushed' = pushed
    BY <1>11 DEF Commit
  <2>2. KnownIsFetched' BY <1>11 DEF Commit, Granted
  <2>3. QED BY <1>11, <2>1, <2>2 DEF Commit, Granted
<1>12. CASE AskForCommit BY <1>12 DEF AskForCommit
<1>13. QED
  BY <1>1, <1>2, <1>3, <1>4, <1>5, <1>6, <1>7, <1>8, <1>9, <1>10, <1>11, <1>12
  DEF WatcherStep

\* A load touches neither the clone nor what is known of the remote.
LEMMA LoaderGitInv == GitInv /\ (LoadBegin \/ LoaderStep) => GitInv'
<1> SUFFICES ASSUME GitInv, LoadBegin \/ LoaderStep PROVE GitInv' OBVIOUS
<1>1. UNCHANGED <<remoteVars, cloneVars, lockVars, watchVars>>
  BY DEF LoadBegin, LoaderStep, WalkBegin, GetObjByHash, WalkEnd, LoadEnd, LoaderAt
<1>2. /\ lpc' \in {"idle", "load", "walk"} /\ walks' \in 0 .. 3 /\ files' \in 0 .. MaxFiles
      /\ lpc' = "walk" => walks' > 0
  <2>1. /\ MaxFiles \in Nat /\ walks \in 0 .. 3 /\ files \in 0 .. MaxFiles
        /\ lpc = "walk" => walks > 0
    BY BoundsAssumption DEF GitInv, TypeOK
  <2>2. CASE LoadBegin BY <2>1, <2>2 DEF LoadBegin, LoaderAt
  <2>3. CASE WalkBegin BY <2>1, <2>3 DEF WalkBegin, LoaderAt, WalksLeft
  <2>4. CASE GetObjByHash BY <2>1, <2>4 DEF GetObjByHash, LoaderAt
  <2>5. CASE WalkEnd BY <2>1, <2>5 DEF WalkEnd, LoaderAt
  <2>6. CASE LoadEnd BY <2>1, <2>6 DEF LoadEnd, LoaderAt
  <2>7. QED BY <2>2, <2>3, <2>4, <2>5, <2>6 DEF LoaderStep
<1>3. QED
  BY <1>1, <1>2 DEF GitInv, TypeOK, KnownIsFetched, InOrder, CommitFound, remoteVars,
                    cloneVars, lockVars, watchVars

\* The invariant is kept by every step of the system.
LEMMA NextGitInv == GitInv /\ [Next]_vars => GitInv'
<1> SUFFICES ASSUME GitInv, [Next]_vars PROVE GitInv' OBVIOUS
<1>1. CASE Push
  <2>1. PICK keep \in 0 .. pushed :
          MoveRemote(pushed + 1, {c \in reachable : c <= keep} \cup {pushed + 1})
    BY <1>1 DEF Push
  <2> pushed \in Nat /\ reachable \subseteq 0 .. pushed
    BY BoundsAssumption DEF GitInv, TypeOK
  <2>2. /\ pushed + 1 \in 0 .. pushed + 1
        /\ {c \in reachable : c <= keep} \cup {pushed + 1} \in SUBSET (0 .. pushed + 1)
    <3>1. 0 .. pushed \subseteq 0 .. pushed + 1 /\ pushed + 1 \in 0 .. pushed + 1 OBVIOUS
    <3>2. {c \in reachable : c <= keep} \subseteq 0 .. pushed OBVIOUS
    <3>3. QED BY <3>1, <3>2
  <2>3. QED BY <2>1, <2>2, MoveRemoteGitInv
<1>2. CASE Rollback
  <2>1. PICK c \in reachable \ {commit[remote]} : MoveRemote(c, {d \in reachable : d <= c})
    BY <1>2 DEF Rollback
  <2> pushed \in Nat /\ reachable \subseteq 0 .. pushed
    BY BoundsAssumption DEF GitInv, TypeOK
  <2>2. /\ c \in 0 .. pushed + 1
        /\ {d \in reachable : d <= c} \in SUBSET (0 .. pushed + 1)
    <3>1. 0 .. pushed \subseteq 0 .. pushed + 1 OBVIOUS
    <3>2. QED BY <3>1
  <2>3. QED BY <2>1, <2>2, MoveRemoteGitInv
<1>3. CASE DeleteBranch
  BY <1>3 DEF DeleteBranch, GitInv, TypeOK, KnownIsFetched, InOrder, CommitFound, cloneVars,
              lockVars, watchVars, loaderVars
<1>4. CASE SyncFails \/ WatcherStep BY <1>4, WatcherGitInv
<1>5. CASE LoadBegin \/ LoaderStep BY <1>5, LoaderGitInv
<1>6. CASE UNCHANGED vars
  BY <1>6 DEF vars, GitInv, TypeOK, KnownIsFetched, InOrder, CommitFound, remoteVars,
              cloneVars, lockVars, watchVars, loaderVars
<1>7. QED BY <1>1, <1>2, <1>3, <1>4, <1>5, <1>6 DEF Next

\* Nothing outside the types of the fields is ever stored, whatever the remote does.
THEOREM TypeCorrect == Spec => []TypeOK
<1>1. GitInv => TypeOK BY DEF GitInv
<1>2. QED BY InitGitInv, NextGitInv, <1>1, PTL DEF Spec

(***************************************************************************)
(* Whatever is pushed, forced, deleted or lost on the way, the version     *)
(* that CFGCenter is told to load, the local branch and cur_version are    *)
(* commits of the local clone.                                             *)
(***************************************************************************)
THEOREM OnlyFetchedIsKnown == Spec => []KnownIsFetched
<1>1. GitInv => KnownIsFetched BY DEF GitInv
<1>2. QED BY InitGitInv, NextGitInv, <1>1, PTL DEF Spec

-----------------------------------------------------------------------------
(***************************************************************************)
(* Where a round of git_watcher stands: what cur_version says, and which   *)
(* guard is held or asked for.                                             *)
(***************************************************************************)
RoundInv ==
  /\ known = IF wpc \in {"ask", "commit"} THEN listed ELSE cur_version
  /\ write_waiting <=> wpc \in {"lock", "commit"}
  /\ write_held <=> wpc \in {"fetch", "find"}

\* The watcher ends only at a listing without the branch.
BranchInv == wpc = "dead" => listed = NoBranch

\* Every step of the watcher leaves the round where its guards and cur_version say.
LEMMA WatcherRound ==
  ASSUME GitInv, RoundInv, BranchInv, SyncFails \/ WatcherStep
  PROVE  RoundInv' /\ BranchInv'
<1> USE DEF RoundInv, BranchInv, WatcherAt, Released, remoteVars, cloneVars, lockVars
<1>1. CASE SyncFails
  <2>1. PICK from \in {"sleep", "fetch", "find"} : WatcherAt(from, OnError)
    BY <1>1 DEF SyncFails
  <2>2. QED BY <1>1, <2>1 DEF SyncFails, OnError
<1>2. CASE ListRemote BY <1>2 DEF ListRemote
<1>3. CASE NothingNew BY <1>3 DEF NothingNew
<1>4. CASE AskForLock BY <1>4 DEF AskForLock
<1>5. CASE LockForFetch BY <1>5 DEF LockForFetch, Granted
<1>6. CASE Fetch BY <1>6 DEF Fetch
<1>7. CASE UnwrapPanics BY <1>7 DEF UnwrapPanics
<1>8. CASE CommitMissing BY <1>8 DEF CommitMissing, OnError
<1>9. CASE MoveBranch BY <1>9 DEF MoveBranch
<1>10. CASE Callback BY <1>10 DEF Callback, NewVersion
<1>11. CASE AskForCommit BY <1>11 DEF AskForCommit
<1>12. CASE Commit BY <1>12 DEF Commit, Granted
<1>13. QED
  BY <1>1, <1>2, <1>3, <1>4, <1>5, <1>6, <1>7, <1>8, <1>9, <1>10, <1>11, <1>12
  DEF WatcherStep

\* Nobody else touches them.
LEMMA NextRound == GitInv /\ RoundInv /\ BranchInv /\ [Next]_vars => RoundInv' /\ BranchInv'
<1> SUFFICES ASSUME GitInv, RoundInv, BranchInv, [Next]_vars PROVE RoundInv' /\ BranchInv'
  OBVIOUS
<1>1. CASE SyncFails \/ WatcherStep BY <1>1, WatcherRound
<1>2. CASE LoadBegin \/ LoaderStep \/ UNCHANGED vars
  <2>1. UNCHANGED <<remoteVars, cloneVars, lockVars, watchVars>>
    BY <1>2 DEF LoadBegin, LoaderStep, WalkBegin, GetObjByHash, WalkEnd, LoadEnd, LoaderAt,
                vars
  <2>2. QED BY <2>1 DEF RoundInv, BranchInv, remoteVars, cloneVars, lockVars, watchVars
<1>3. CASE Push \/ Rollback
  <2>1. UNCHANGED <<cloneVars, lockVars, watchVars>>
    BY <1>3 DEF Push, Rollback, MoveRemote
  <2>2. QED BY <2>1 DEF RoundInv, BranchInv, cloneVars, lockVars, watchVars
<1>4. CASE DeleteBranch
  BY <1>4 DEF DeleteBranch, RoundInv, BranchInv, cloneVars, lockVars, watchVars
<1>5. QED BY <1>1, <1>2, <1>3, <1>4 DEF Next

\* All of it holds in every reachable state.
LEMMA AlwaysRound == Spec => [](GitInv /\ RoundInv /\ BranchInv)
<1>1. Init => RoundInv /\ BranchInv
  BY DEF Init, RoundInv, BranchInv
<1>2. QED BY <1>1, InitGitInv, NextGitInv, NextRound, PTL DEF Spec

(***************************************************************************)
(* What FollowsRemote rests on: whatever fails in a round of git_watcher,  *)
(* and whatever the branch goes back to, cur_version lags behind only      *)
(* while a round is going on, so the next comparison is with what          *)
(* CFGCenter has.                                                          *)
(***************************************************************************)
THEOREM NoChangeOverlooked == Spec => []ChangeIsSeen
<1>1. GitInv /\ RoundInv /\ BranchInv => ChangeIsSeen
  BY DEF GitInv, RoundInv, BranchInv, ChangeIsSeen
<1>2. QED BY AlwaysRound, <1>1, PTL

(***************************************************************************)
(* A load of IndexBuilder is held up only while the watcher thread is on   *)
(* its way to drop the write guard: no error, panic or early return of     *)
(* git_sync_local_branch leaves it behind.                                 *)
(***************************************************************************)
THEOREM OtherLoadsGetOn == Spec => []LoadGetsOn
<1>1. GitInv /\ RoundInv => LoadGetsOn
  BY DEF GitInv, TypeOK, RoundInv, LoadGetsOn, LoadWaits, CanRead
<1>2. QED BY AlwaysRound, <1>1, PTL

-----------------------------------------------------------------------------
\* The versions whose commit is in the clone: loadable of StorageBackend.
Loadable == {v \in 0 .. pushed : commit[v] \in fetched}

\* A version that joins the others takes no commit away from them.
LEMMA MoveRemoteImplements ==
  ASSUME GitInv, NEW c, NEW R, MoveRemote(c, R)
  PROVE  Storage!Publish
<1> USE DEF MoveRemote, cloneVars, watchVars
<1>1. pushed \in Nat /\ pushed' = pushed + 1 /\ known' = known /\ fetched' = fetched
  BY BoundsAssumption DEF GitInv, TypeOK
<1>2. \A v \in 0 .. pushed : v \in 0 .. pushed' /\ commit'[v] = commit[v] BY <1>1
<1>3. Loadable \subseteq Loadable' /\ Loadable' \subseteq 0 .. pushed'
  BY <1>1, <1>2 DEF Loadable
<1>4. QED BY <1>1, <1>3 DEF Storage!Publish, Storage!MoreLoadable, Loadable

\* Every step of the backend is one that StorageBackend allows, or changes nothing there.
LEMMA NextImplements == GitInv /\ [Next]_vars => [Storage!Next]_(Storage!vars)
<1> SUFFICES ASSUME GitInv, [Next]_vars PROVE [Storage!Next]_(Storage!vars) OBVIOUS
<1>1. CASE Push \/ Rollback
  BY <1>1, MoveRemoteImplements DEF Push, Rollback, Storage!Next
<1>2. CASE Callback
  <2>1. /\ UNCHANGED <<pushed, commit, fetched>> /\ known' = listed
        /\ listed # NoBranch /\ listed \in 0 .. pushed /\ known \in 0 .. pushed
        /\ known <= listed /\ commit[listed] \in fetched
    BY <1>2 DEF Callback, WatcherAt, NewVersion, remoteVars, cloneVars, GitInv, TypeOK,
                InOrder, CommitFound
  <2>2. pushed \in Nat BY BoundsAssumption DEF GitInv, TypeOK
  <2>3. listed \in known .. pushed BY <2>1, <2>2
  <2>4. listed \in Loadable /\ Loadable' = Loadable BY <2>1 DEF Loadable
  <2>5. QED BY <2>1, <2>3, <2>4 DEF Loadable, Storage!Next, Storage!Deliver
<1>3. CASE Fetch
  <2>1. UNCHANGED <<pushed, commit, known>> /\ fetched \subseteq fetched'
    BY <1>3 DEF Fetch, WatcherAt, remoteVars
  <2>2. Loadable \subseteq Loadable' /\ Loadable' \subseteq 0 .. pushed'
    BY <2>1 DEF Loadable
  <2>3. QED BY <2>1, <2>2 DEF Loadable, Storage!Next, Storage!Obtain, Storage!MoreLoadable
<1>4. CASE ~(Push \/ Rollback \/ Callback \/ Fetch)
  <2>1. UNCHANGED <<pushed, commit, fetched, known>>
    <3>1. CASE DeleteBranch \/ SyncFails
      BY <3>1 DEF DeleteBranch, SyncFails, WatcherAt, watchVars, remoteVars, cloneVars
    <3>2. CASE WatcherStep
      BY <1>4, <3>2 DEF WatcherStep, ListRemote, NothingNew, AskForLock, LockForFetch,
                        UnwrapPanics, CommitMissing, MoveBranch, AskForCommit, Commit,
                        WatcherAt, remoteVars, cloneVars
    <3>3. CASE LoadBegin \/ LoaderStep
      BY <3>3 DEF LoadBegin, LoaderStep, WalkBegin, GetObjByHash, WalkEnd, LoadEnd,
                  LoaderAt, remoteVars, cloneVars, watchVars
    <3>4. CASE UNCHANGED vars BY <3>4 DEF vars, remoteVars, cloneVars, watchVars
    <3>5. QED BY <1>4, <3>1, <3>2, <3>3, <3>4 DEF Next
  <2>2. QED BY <2>1 DEF Storage!vars
<1>5. QED BY <1>1, <1>2, <1>3, <1>4

(***************************************************************************)
(* The git backend is a StorageBackend: CFGCenter is handed only versions  *)
(* that were pushed, none older than one it already has, and each with its *)
(* commit in the clone, although the branch may be forced back, deleted    *)
(* and brought back between a listing, the fetch that follows it and the   *)
(* callback.                                                               *)
(***************************************************************************)
THEOREM GitIsStorageBackend == Spec => ImplementsBackend
<1>1. Init => Storage!Init
  <2> SUFFICES ASSUME Init PROVE Storage!Init OBVIOUS
  <2>1. pushed = 0 /\ known = 0 /\ commit[0] = 0 /\ 0 \in fetched /\ 0 \in 0 .. 0
    BY DEF Init
  <2>2. 0 \in Loadable /\ Loadable \subseteq 0 .. pushed BY <2>1 DEF Loadable
  <2>3. QED BY <2>1, <2>2 DEF Storage!Init, Loadable
<1>2. QED BY <1>1, InitGitInv, NextGitInv, NextImplements, PTL
          DEF Spec, ImplementsBackend, Storage!Spec
=============================================================================

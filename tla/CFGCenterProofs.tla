--------------------------- MODULE CFGCenterProofs --------------------------
(***************************************************************************)
(* Proofs about CFGCenter for every set of threads, names, handles, levels *)
(* and outcomes and every number of publications.                          *)
(***************************************************************************)
EXTENDS CFGCenter, TLAPS

InLoop  == wpc \in {"loop", "notify", "callback", "swap"}
OnOne   == wpc \in {"notify", "callback", "swap"}

\* Who owns a mutex is exactly who is between its lock and its unlock.
LockInv ==
  /\ version_lock = Watcher <=> InLoop
  /\ namespaces_lock = Watcher <=> InLoop \/ wpc = "lock_version"
  /\ \A c \in Creators : version_lock = c <=> cpc[c] \in {"load", "insert"}
  /\ version_lock \in Creators \cup {Watcher, NoThread}

\* `namespaces` is poisoned only by the watcher itself, which is then gone.  Unless
\* `current_version` is, what was delivered is what was recorded.
PoisonInv ==
  /\ namespaces_poisoned <=> wpc = "dead"
  /\ wpc = "idle" => version_poisoned \/ current_version = new_version

\* The map holds live handles under their names; a create call owns its handle.
HandleInv ==
  /\ \A n \in Names : namespaces[n] # NoHandle =>
       hstate[namespaces[n]] = "live" /\ namespace[namespaces[n]] = n
  /\ \A c \in Creators : cpc[c] # "idle" =>
       carg[c] \in Handles /\ hstate[carg[c]] = "pending"
  /\ \A c, d \in Creators :
       cpc[c] # "idle" /\ cpc[d] # "idle" /\ carg[c] = carg[d] => c = d

\* Versions only move forward on their way from the storage to the stores.
VersionInv ==
  /\ current_version <= new_version
  /\ new_version <= published
  /\ \A h \in Handles : hstate[h] = "live" => current_memstore[h] <= new_version
  /\ \A c \in Creators : cpc[c] = "insert" => cver[c] = current_version

\* Progress of the loop: what is done serves the new version, the rest the old.
FreshInv ==
  wpc # "dead" =>
    /\ todo \subseteq {n \in Names : namespaces[n] # NoHandle}
    /\ ~InLoop => todo = {}
    /\ \A h \in Handles :
         Registered(h) /\ notify_level[h] = "ByGlobal" /\ h \notin missed
         => current_memstore[h] =
              IF InLoop /\ namespace[h] \notin todo THEN new_version ELSE current_version

\* The namespace being updated, and what its callback has been told.
TargetInv ==
  OnOne =>
    /\ Registered(target) /\ namespace[target] \in todo
    /\ wpc \in {"callback", "swap"} /\ Announces(target) =>
         notified[target] = <<current_memstore[target], new_version>>

\* A running query holds its guard, and all it has read is what is still served.
ReaderInv ==
  /\ \A r \in Readers : rhandle[r] # NoHandle => hstate[rhandle[r]] = "live"
  /\ \A r \in Readers : rpc[r] = "query" =>
       /\ rhandle[r] \in Handles
       /\ r \in memstore_guards[rhandle[r]]
       /\ seen[r] = {current_memstore[rhandle[r]]}

IInv ==
  /\ TypeOK /\ LockInv /\ PoisonInv /\ HandleInv
  /\ VersionInv /\ FreshInv /\ TargetInv /\ ReaderInv

-----------------------------------------------------------------------------
USE DEF versionMutex, namespacesMutex, argVars, storeVars, watcherVars,
        creatorVars, readerVars, mutexes, notWatchers, notCreators, notReaders,
        Target, WriteGranted, HeldAfterLoad, GuardsLeft

\* The program starts in a state of the invariant.
LEMMA InitIInv == Init => IInv
<1> SUFFICES ASSUME Init PROVE IInv OBVIOUS
<1> USE DEF Init
<1>1. TypeOK
  <2>1. notify_level \in [Handles -> AllLevels] BY LevelsAssumption
  <2>2. callback \in [Handles -> BOOLEAN] BY LevelsAssumption
  <2>3. 0 \in Versions BY BoundAssumption DEF Versions
  <2>4. QED BY <2>1, <2>2, <2>3 DEF TypeOK, Threads
<1>2. LockInv BY ThreadsAssumption DEF LockInv, InLoop
<1>3. PoisonInv /\ HandleInv BY DEF PoisonInv, HandleInv
<1>4. VersionInv BY DEF VersionInv
<1>5. FreshInv BY HandlesAssumption DEF FreshInv, InLoop, Registered
<1>6. TargetInv /\ ReaderInv BY DEF TargetInv, OnOne, ReaderInv
<1>7. QED BY <1>1, <1>2, <1>3, <1>4, <1>5, <1>6 DEF IInv

\* A new publication disturbs nothing but the order of versions.
LEMMA PublishIInv == IInv /\ Publish => IInv'
<1> SUFFICES ASSUME IInv, Publish PROVE IInv' OBVIOUS
<1> USE DEF TypeOK, IInv, Versions, Threads, InLoop, OnOne, Registered, Announces
<1>1. TypeOK' BY BoundAssumption DEF Publish, Backend!Publish
<1>2. VersionInv' BY DEF Publish, Backend!Publish, VersionInv
<1>3. LockInv' /\ PoisonInv' /\ HandleInv' /\ FreshInv' /\ TargetInv' /\ ReaderInv'
  BY DEF Publish, Backend!Publish, LockInv, PoisonInv, HandleInv, FreshInv, TargetInv,
     ReaderInv
<1>4. QED BY <1>1, <1>2, <1>3

\* Every step of the watcher thread keeps the invariant.
LEMMA WatcherIInv == IInv /\ (Deliver \/ WatcherStep) => IInv'
<1> SUFFICES ASSUME IInv, Deliver \/ WatcherStep PROVE IInv' OBVIOUS
<1> USE DEF TypeOK, IInv, Versions, Threads, InLoop, OnOne, Registered, Announces
<1>1. CASE Deliver
  <2>0. new_version' \in Versions
    <3>1. new_version' \in new_version .. published BY <1>1 DEF Deliver, Backend!Deliver
    <3>2. new_version \in 0 .. MaxVersion /\ published \in 0 .. MaxVersion OBVIOUS
    <3>3. QED BY <3>1, <3>2, BoundAssumption
  <2>1. TypeOK' BY <1>1, <2>0 DEF Deliver, Backend!Deliver
  <2>2. LockInv' BY <1>1 DEF Deliver, Backend!Deliver, LockInv
  <2>3. PoisonInv' BY <1>1 DEF Deliver, Backend!Deliver, PoisonInv
  <2>4. VersionInv' BY <1>1 DEF Deliver, Backend!Deliver, VersionInv
  <2>5. FreshInv' BY <1>1 DEF Deliver, Backend!Deliver, FreshInv
  <2>6. TargetInv' BY <1>1 DEF Deliver, Backend!Deliver, TargetInv
  <2>7. HandleInv' /\ ReaderInv' BY <1>1 DEF Deliver, Backend!Deliver, HandleInv, ReaderInv
  <2>8. QED BY <2>1, <2>2, <2>3, <2>4, <2>5, <2>6, <2>7
<1>2. CASE WatchLockNamespaces
  <2>1. TypeOK' BY <1>2 DEF WatchLockNamespaces
  <2>2. LockInv' BY <1>2 DEF WatchLockNamespaces, LockInv
  <2>3. PoisonInv' BY <1>2 DEF WatchLockNamespaces, PoisonInv
  <2>4. FreshInv' BY <1>2 DEF WatchLockNamespaces, FreshInv
  <2>5. TargetInv' BY <1>2 DEF WatchLockNamespaces, TargetInv
  <2>6. HandleInv' /\ VersionInv' /\ ReaderInv'
    BY <1>2 DEF WatchLockNamespaces, HandleInv, VersionInv, ReaderInv
  <2>7. QED BY <2>1, <2>2, <2>3, <2>4, <2>5, <2>6
<1>3. CASE WatchLockVersion
  <2>1. TypeOK' BY <1>3 DEF WatchLockVersion
  <2>2. LockInv' BY <1>3, ThreadsAssumption DEF WatchLockVersion, LockInv
  <2>3. PoisonInv' BY <1>3 DEF WatchLockVersion, PoisonInv
  <2>4. FreshInv' BY <1>3, HandlesAssumption DEF WatchLockVersion, FreshInv
  <2>5. TargetInv' BY <1>3 DEF WatchLockVersion, TargetInv
  <2>6. HandleInv' /\ VersionInv' /\ ReaderInv'
    BY <1>3 DEF WatchLockVersion, HandleInv, VersionInv, ReaderInv
  <2>7. QED BY <2>1, <2>2, <2>3, <2>4, <2>5, <2>6
<1>4. CASE WatchGiveUp
  <2>1. TypeOK' BY <1>4 DEF WatchGiveUp
  <2>2. LockInv' BY <1>4 DEF WatchGiveUp, LockInv
  <2>3. PoisonInv' BY <1>4 DEF WatchGiveUp, PoisonInv
  <2>4. FreshInv' BY <1>4 DEF WatchGiveUp, FreshInv
  <2>5. TargetInv' BY <1>4 DEF WatchGiveUp, TargetInv
  <2>6. HandleInv' /\ VersionInv' /\ ReaderInv'
    BY <1>4 DEF WatchGiveUp, HandleInv, VersionInv, ReaderInv
  <2>7. QED BY <2>1, <2>2, <2>3, <2>4, <2>5, <2>6
<1>5. ASSUME NEW n \in Names, WatchNoNotify(n) PROVE IInv'
  <2>1. TypeOK' BY <1>5 DEF WatchNoNotify
  <2>2. FreshInv' BY <1>5 DEF WatchNoNotify, FreshInv
  <2>3. TargetInv' BY <1>5 DEF WatchNoNotify, TargetInv
  <2>4. LockInv' /\ PoisonInv' /\ HandleInv' /\ VersionInv' /\ ReaderInv'
    BY <1>5 DEF WatchNoNotify, LockInv, PoisonInv, HandleInv, VersionInv,
       ReaderInv
  <2>5. QED BY <2>1, <2>2, <2>3, <2>4
<1>6. ASSUME NEW n \in Names, WatchNoDiff(n) PROVE IInv'
  <2>1. TypeOK' BY <1>6 DEF WatchNoDiff
  <2>2. FreshInv' BY <1>6 DEF WatchNoDiff, UsesDiffList, FreshInv
  <2>3. TargetInv' BY <1>6 DEF WatchNoDiff, TargetInv
  <2>4. LockInv' /\ PoisonInv' /\ HandleInv' /\ VersionInv' /\ ReaderInv'
    BY <1>6 DEF WatchNoDiff, LockInv, PoisonInv, HandleInv, VersionInv, ReaderInv
  <2>5. QED BY <2>1, <2>2, <2>3, <2>4
<1>7. ASSUME NEW n \in Names, WatchLoadErr(n) PROVE IInv'
  <2>1. TypeOK' BY <1>7 DEF WatchLoadErr, Reloads, FreshInv
  <2>2. FreshInv' BY <1>7 DEF WatchLoadErr, Reloads, UsesDiffList, FreshInv
  <2>3. TargetInv' BY <1>7 DEF WatchLoadErr, Reloads, TargetInv
  <2>4. LockInv' /\ PoisonInv' /\ HandleInv' /\ VersionInv' /\ ReaderInv'
    BY <1>7 DEF WatchLoadErr, LockInv, PoisonInv, HandleInv, VersionInv, ReaderInv
  <2>5. QED BY <2>1, <2>2, <2>3, <2>4
<1>8. ASSUME NEW n \in Names, WatchLoadPanic(n) PROVE IInv'
  <2>1. TypeOK' BY <1>8 DEF WatchLoadPanic, Reloads
  <2>2. LockInv' BY <1>8, ThreadsAssumption DEF WatchLoadPanic, Reloads, LockInv
  <2>3. PoisonInv' BY <1>8 DEF WatchLoadPanic, Reloads, PoisonInv
  <2>4. FreshInv' BY <1>8 DEF WatchLoadPanic, Reloads, UsesDiffList, FreshInv
  <2>5. TargetInv' BY <1>8 DEF WatchLoadPanic, Reloads, TargetInv
  <2>6. HandleInv' /\ VersionInv' /\ ReaderInv'
    BY <1>8 DEF WatchLoadPanic, Reloads, HandleInv, VersionInv, ReaderInv
  <2>7. QED BY <2>1, <2>2, <2>3, <2>4, <2>5, <2>6
<1>9. ASSUME NEW n \in Names, WatchLoadDrop(n) PROVE IInv'
  <2>1. TypeOK' BY <1>9 DEF WatchLoadDrop, Reloads
  <2>2. FreshInv' BY <1>9 DEF WatchLoadDrop, Reloads, UsesDiffList, FreshInv
  <2>3. TargetInv' BY <1>9 DEF WatchLoadDrop, Reloads, TargetInv
  <2>4. LockInv' /\ PoisonInv' /\ HandleInv' /\ VersionInv' /\ ReaderInv'
    BY <1>9 DEF WatchLoadDrop, LockInv, PoisonInv, HandleInv, VersionInv,
       ReaderInv
  <2>5. QED BY <2>1, <2>2, <2>3, <2>4
<1>10. ASSUME NEW n \in Names, WatchLoad(n) PROVE IInv'
  <2>1. TypeOK' BY <1>10 DEF WatchLoad, Reloads, FreshInv
  <2>2. LockInv' BY <1>10 DEF WatchLoad, Reloads, LockInv
  <2>3. PoisonInv' BY <1>10 DEF WatchLoad, Reloads, PoisonInv
  <2>4. FreshInv' BY <1>10 DEF WatchLoad, Reloads, UsesDiffList, FreshInv
  <2>5. TargetInv' BY <1>10 DEF WatchLoad, Reloads, TargetInv, HandleInv, FreshInv
  <2>6. HandleInv' /\ VersionInv' /\ ReaderInv'
    BY <1>10 DEF WatchLoad, Reloads, HandleInv, VersionInv, ReaderInv
  <2>7. QED BY <2>1, <2>2, <2>3, <2>4, <2>5, <2>6
<1>11. CASE WatchNotify
  <2>1. TypeOK' BY <1>11 DEF WatchNotify, Differ
  <2>2. LockInv' BY <1>11 DEF WatchNotify, LockInv
  <2>3. PoisonInv' BY <1>11 DEF WatchNotify, PoisonInv
  <2>4. FreshInv' BY <1>11 DEF WatchNotify, FreshInv
  <2>5. TargetInv' BY <1>11 DEF WatchNotify, Differ, TargetInv
  <2>6. ReaderInv' BY <1>11 DEF WatchNotify, ReaderInv
  <2>7. HandleInv' /\ VersionInv' BY <1>11 DEF WatchNotify, HandleInv, VersionInv
  <2>8. QED BY <2>1, <2>2, <2>3, <2>4, <2>5, <2>6, <2>7
<1>12. CASE WatchNoCallback
  <2>1. TypeOK' BY <1>12 DEF WatchNoCallback
  <2>2. LockInv' BY <1>12 DEF WatchNoCallback, LockInv
  <2>3. PoisonInv' BY <1>12 DEF WatchNoCallback, PoisonInv
  <2>4. FreshInv' BY <1>12 DEF WatchNoCallback, FreshInv
  <2>5. TargetInv' BY <1>12 DEF WatchNoCallback, TargetInv
  <2>6. HandleInv' /\ VersionInv' /\ ReaderInv'
    BY <1>12 DEF WatchNoCallback, HandleInv, VersionInv, ReaderInv
  <2>7. QED BY <2>1, <2>2, <2>3, <2>4, <2>5, <2>6
<1>13. CASE WatchCallbackReturn
  <2>1. TypeOK' BY <1>13 DEF WatchCallbackReturn
  <2>2. LockInv' BY <1>13 DEF WatchCallbackReturn, LockInv
  <2>3. PoisonInv' BY <1>13 DEF WatchCallbackReturn, PoisonInv
  <2>4. FreshInv' BY <1>13 DEF WatchCallbackReturn, FreshInv
  <2>5. TargetInv' BY <1>13 DEF WatchCallbackReturn, TargetInv
  <2>6. ReaderInv' BY <1>13, ThreadsAssumption DEF WatchCallbackReturn, ReaderInv
  <2>7. HandleInv' /\ VersionInv'
    BY <1>13 DEF WatchCallbackReturn, HandleInv, VersionInv
  <2>8. QED BY <2>1, <2>2, <2>3, <2>4, <2>5, <2>6, <2>7
<1>14. CASE WatchSwap
  <2>1. TypeOK' BY <1>14 DEF WatchSwap
  <2>2. LockInv' BY <1>14 DEF WatchSwap, LockInv
  <2>3. PoisonInv' BY <1>14 DEF WatchSwap, PoisonInv
  <2>4. VersionInv' BY <1>14 DEF WatchSwap, VersionInv
  <2>5. FreshInv' BY <1>14 DEF WatchSwap, FreshInv, TargetInv
  <2>6. TargetInv' BY <1>14 DEF WatchSwap, TargetInv
  <2>7. ReaderInv' BY <1>14 DEF WatchSwap, ReaderInv
  <2>8. HandleInv' BY <1>14 DEF WatchSwap, HandleInv
  <2>9. QED BY <2>1, <2>2, <2>3, <2>4, <2>5, <2>6, <2>7, <2>8
<1>15. CASE WatchCommit
  <2>1. TypeOK' BY <1>15 DEF WatchCommit
  <2>2. LockInv' BY <1>15, ThreadsAssumption DEF WatchCommit, LockInv
  <2>3. PoisonInv' BY <1>15 DEF WatchCommit, PoisonInv
  <2>4. VersionInv' BY <1>15, ThreadsAssumption DEF WatchCommit, VersionInv, LockInv
  <2>5. FreshInv' BY <1>15 DEF WatchCommit, FreshInv
  <2>6. TargetInv' BY <1>15 DEF WatchCommit, TargetInv
  <2>7. HandleInv' /\ ReaderInv' BY <1>15 DEF WatchCommit, HandleInv, ReaderInv
  <2>8. QED BY <2>1, <2>2, <2>3, <2>4, <2>5, <2>6, <2>7
<1>16. QED
  BY <1>1, <1>2, <1>3, <1>4, <1>5, <1>6, <1>7, <1>8, <1>9, <1>10, <1>11,
       <1>12, <1>13, <1>14, <1>15 DEF WatcherStep

\* Every step of a thread that creates a namespace keeps the invariant.
LEMMA CreatorIInv ==
  ASSUME IInv, NEW c \in Creators,
         CreatorStep(c) \/ \E h \in Handles : CreateCall(c, h) \/ CreateRejected(c, h)
  PROVE  IInv'
<1> USE DEF TypeOK, IInv, Versions, Threads, InLoop, OnOne, Registered, Announces
<1>1. ASSUME NEW h \in Handles, CreateCall(c, h) PROVE IInv'
  <2>1. TypeOK' BY <1>1 DEF CreateCall
  <2>2. LockInv' BY <1>1 DEF CreateCall, LockInv
  <2>3. HandleInv' BY <1>1 DEF CreateCall, HandleInv
  <2>4. VersionInv' BY <1>1 DEF CreateCall, VersionInv
  <2>5. FreshInv' BY <1>1 DEF CreateCall, FreshInv
  <2>6. TargetInv' BY <1>1 DEF CreateCall, TargetInv
  <2>7. ReaderInv' BY <1>1 DEF CreateCall, ReaderInv
  <2>8. PoisonInv' BY <1>1 DEF CreateCall, PoisonInv
  <2>9. QED BY <2>1, <2>2, <2>3, <2>4, <2>5, <2>6, <2>7, <2>8
<1>2. ASSUME NEW h \in Handles, CreateRejected(c, h) PROVE IInv'
  <2>1. TypeOK' BY <1>2 DEF CreateRejected
  <2>2. HandleInv' BY <1>2 DEF CreateRejected, HandleInv
  <2>3. VersionInv' BY <1>2 DEF CreateRejected, VersionInv
  <2>4. FreshInv' BY <1>2 DEF CreateRejected, FreshInv
  <2>5. TargetInv' BY <1>2 DEF CreateRejected, TargetInv
  <2>6. ReaderInv' BY <1>2 DEF CreateRejected, ReaderInv
  <2>7. LockInv' /\ PoisonInv' BY <1>2 DEF CreateRejected, LockInv, PoisonInv
  <2>8. QED BY <2>1, <2>2, <2>3, <2>4, <2>5, <2>6, <2>7
<1>3. CASE CreateLockVersion(c)
  <2>1. TypeOK' BY <1>3 DEF CreateLockVersion
  <2>2. LockInv' BY <1>3, ThreadsAssumption DEF CreateLockVersion, LockInv
  <2>3. HandleInv' BY <1>3 DEF CreateLockVersion, HandleInv
  <2>4. VersionInv' BY <1>3 DEF CreateLockVersion, VersionInv
  <2>5. PoisonInv' /\ FreshInv' /\ TargetInv' /\ ReaderInv'
    BY <1>3 DEF CreateLockVersion, PoisonInv, FreshInv, TargetInv, ReaderInv
  <2>6. QED BY <2>1, <2>2, <2>3, <2>4, <2>5
<1>4. CASE CreateVersionPoisoned(c)
  <2>1. TypeOK' BY <1>4 DEF CreateVersionPoisoned, CreateReturnsErr
  <2>2. LockInv' BY <1>4 DEF CreateVersionPoisoned, CreateReturnsErr, LockInv
  <2>3. HandleInv' BY <1>4 DEF CreateVersionPoisoned, CreateReturnsErr, HandleInv
  <2>4. VersionInv' BY <1>4 DEF CreateVersionPoisoned, CreateReturnsErr, VersionInv
  <2>5. FreshInv' BY <1>4 DEF CreateVersionPoisoned, CreateReturnsErr, FreshInv
  <2>6. TargetInv'
    BY <1>4, ThreadsAssumption DEF CreateVersionPoisoned, CreateReturnsErr,
       TargetInv, LockInv
  <2>7. ReaderInv'
    BY <1>4 DEF CreateVersionPoisoned, CreateReturnsErr, ReaderInv, HandleInv
  <2>8. PoisonInv' BY <1>4 DEF CreateVersionPoisoned, CreateReturnsErr, PoisonInv
  <2>9. QED BY <2>1, <2>2, <2>3, <2>4, <2>5, <2>6, <2>7, <2>8
<1>5. CASE CreateLoad(c)
  <2>1. TypeOK' BY <1>5 DEF CreateLoad
  <2>2. LockInv' BY <1>5 DEF CreateLoad, LockInv
  <2>3. HandleInv' BY <1>5 DEF CreateLoad, HandleInv
  <2>4. VersionInv' BY <1>5 DEF CreateLoad, VersionInv
  <2>5. PoisonInv' /\ FreshInv' /\ TargetInv' /\ ReaderInv'
    BY <1>5 DEF CreateLoad, PoisonInv, FreshInv, TargetInv, ReaderInv
  <2>6. QED BY <2>1, <2>2, <2>3, <2>4, <2>5
<1>6. CASE CreateLoadFails(c)
  <2>1. TypeOK' BY <1>6 DEF CreateLoadFails, CreateReturnsErr
  <2>2. LockInv'
    BY <1>6, ThreadsAssumption DEF CreateLoadFails, CreateReturnsErr, LockInv
  <2>3. HandleInv' BY <1>6 DEF CreateLoadFails, CreateReturnsErr, HandleInv
  <2>4. VersionInv' BY <1>6 DEF CreateLoadFails, CreateReturnsErr, VersionInv
  <2>5. FreshInv' BY <1>6 DEF CreateLoadFails, CreateReturnsErr, FreshInv
  <2>6. TargetInv'
    BY <1>6, ThreadsAssumption DEF CreateLoadFails, CreateReturnsErr, TargetInv,
       LockInv
  <2>7. ReaderInv'
    BY <1>6 DEF CreateLoadFails, CreateReturnsErr, ReaderInv, HandleInv
  <2>8. PoisonInv' BY <1>6 DEF CreateLoadFails, CreateReturnsErr, PoisonInv
  <2>9. QED BY <2>1, <2>2, <2>3, <2>4, <2>5, <2>6, <2>7, <2>8
<1>7. CASE CreateInsert(c)
  <2>1. TypeOK' BY <1>7 DEF CreateInsert
  <2>2. LockInv' BY <1>7, ThreadsAssumption DEF CreateInsert, LockInv
  <2>3. HandleInv' BY <1>7 DEF CreateInsert, HandleInv
  <2>4. VersionInv' BY <1>7 DEF CreateInsert, VersionInv
  <2>5. FreshInv'
    BY <1>7, ThreadsAssumption DEF CreateInsert, FreshInv, LockInv, VersionInv
  <2>6. TargetInv' BY <1>7, ThreadsAssumption DEF CreateInsert, TargetInv, LockInv
  <2>7. ReaderInv' BY <1>7, HandlesAssumption DEF CreateInsert, ReaderInv, HandleInv
  <2>8. PoisonInv' BY <1>7 DEF CreateInsert, PoisonInv
  <2>9. QED BY <2>1, <2>2, <2>3, <2>4, <2>5, <2>6, <2>7, <2>8
<1>8. QED
  BY <1>1, <1>2, <1>3, <1>4, <1>5, <1>6, <1>7 DEF CreatorStep

\* Every step of a querying thread keeps the invariant.
LEMMA ReaderIInv ==
  ASSUME IInv, NEW r \in Readers,
         \/ \E n \in Names : GetNamespace(r, n)
         \/ \E h \in Handles : ShareHandle(r, h)
         \/ QueryBegin(r) \/ QueryKey(r) \/ QueryEnd(r)
  PROVE  IInv'
<1> USE DEF TypeOK, IInv, Versions, Threads, InLoop, OnOne, Registered, Announces
<1>1. ASSUME NEW n \in Names, GetNamespace(r, n) PROVE IInv'
  <2>1. TypeOK' BY <1>1 DEF GetNamespace
  <2>2. ReaderInv' BY <1>1 DEF GetNamespace, ReaderInv, HandleInv
  <2>3. LockInv' /\ PoisonInv' /\ HandleInv' /\ VersionInv' /\ FreshInv' /\ TargetInv'
    BY <1>1 DEF GetNamespace, LockInv, PoisonInv, HandleInv, VersionInv, FreshInv,
       TargetInv
  <2>4. QED BY <2>1, <2>2, <2>3
<1>2. ASSUME NEW h \in Handles, ShareHandle(r, h) PROVE IInv'
  <2>1. TypeOK' BY <1>2 DEF ShareHandle
  <2>2. ReaderInv' BY <1>2 DEF ShareHandle, ReaderInv
  <2>3. LockInv' /\ PoisonInv' /\ HandleInv' /\ VersionInv' /\ FreshInv' /\ TargetInv'
    BY <1>2 DEF ShareHandle, LockInv, PoisonInv, HandleInv, VersionInv, FreshInv,
       TargetInv
  <2>4. QED BY <2>1, <2>2, <2>3
<1>3. CASE QueryBegin(r)
  <2>1. TypeOK' BY <1>3 DEF QueryBegin
  <2>2. ReaderInv' BY <1>3 DEF QueryBegin, ReaderInv
  <2>3. LockInv' /\ PoisonInv' /\ HandleInv' /\ VersionInv' /\ FreshInv' /\ TargetInv'
    BY <1>3 DEF QueryBegin, LockInv, PoisonInv, HandleInv, VersionInv, FreshInv,
       TargetInv
  <2>4. QED BY <2>1, <2>2, <2>3
<1>4. CASE QueryKey(r)
  <2>1. TypeOK' BY <1>4 DEF QueryKey, ReaderInv
  <2>2. ReaderInv' BY <1>4 DEF QueryKey, ReaderInv
  <2>3. LockInv' /\ PoisonInv' /\ HandleInv' /\ VersionInv' /\ FreshInv' /\ TargetInv'
    BY <1>4 DEF QueryKey, LockInv, PoisonInv, HandleInv, VersionInv, FreshInv,
       TargetInv
  <2>4. QED BY <2>1, <2>2, <2>3
<1>5. CASE QueryEnd(r)
  <2>1. memstore_guards' \in [Handles -> SUBSET Threads]
    <3>1. memstore_guards \in [Handles -> SUBSET Threads] OBVIOUS
    <3>2. QED BY <1>5, <3>1 DEF QueryEnd
  <2>2. TypeOK' BY <1>5, <2>1 DEF QueryEnd
  <2>3. ReaderInv' BY <1>5 DEF QueryEnd, ReaderInv
  <2>4. LockInv' /\ PoisonInv' /\ HandleInv' /\ VersionInv' /\ FreshInv' /\ TargetInv'
    BY <1>5 DEF QueryEnd, LockInv, PoisonInv, HandleInv, VersionInv, FreshInv,
       TargetInv
  <2>5. QED BY <2>2, <2>3, <2>4
<1>6. QED
  BY <1>1, <1>2, <1>3, <1>4, <1>5

\* A step that changes no variable keeps the invariant.
LEMMA StutterIInv == IInv /\ UNCHANGED vars => IInv'
  BY DEF IInv, vars, TypeOK, Versions, Threads, LockInv, PoisonInv, HandleInv,
         VersionInv, FreshInv, TargetInv, ReaderInv, InLoop, OnOne, Registered,
         Announces

\* IInv is inductive.
LEMMA NextIInv == IInv /\ [Next]_vars => IInv'
  BY PublishIInv, WatcherIInv, CreatorIInv, ReaderIInv, StutterIInv DEF Next

\* The inductive invariant holds in every reachable state, of every instance.
THEOREM Invariance == Spec => []IInv
  BY InitIInv, NextIInv, PTL DEF Spec

(***************************************************************************)
(* Type correctness: no step leaves the types of the fields of             *)
(* CFGCenterInner, of the namespaces and of the threads' locals.           *)
(***************************************************************************)
THEOREM TypeCorrect == Spec => []TypeOK
<1>1. IInv => TypeOK BY DEF IInv
<1>2. QED BY Invariance, <1>1, PTL

(***************************************************************************)
(* No update slips past a namespace: whenever update_callback is not       *)
(* running, what is registered ByGlobal serves current_version, unless its *)
(* own last reload failed, and current_version is what was last delivered, *)
(* unless a create panicked.                                               *)
(***************************************************************************)
THEOREM NoUpdateMissed == Spec => []NoMissedUpdate
<1>1. ASSUME IInv, namespaces_lock = NoThread, ~namespaces_poisoned
      PROVE  ~InLoop /\ wpc # "dead"
  BY <1>1, ThreadsAssumption DEF IInv, LockInv, PoisonInv
<1>2. IInv => NoMissedUpdate
  <2>1. IInv => (wpc = "idle" /\ ~version_poisoned => current_version = new_version)
    BY DEF IInv, PoisonInv
  <2>2. QED BY <1>1, <2>1 DEF IInv, FreshInv, NoMissedUpdate
<1>3. QED BY Invariance, <1>2, PTL

(***************************************************************************)
(* Read guards belong to running queries, and to the watcher while it runs *)
(* the callback of its target.                                             *)
(***************************************************************************)
GuardInv ==
  \A h \in Handles :
    /\ memstore_guards[h] \subseteq Readers \cup {Watcher}
    /\ Watcher \in memstore_guards[h] => wpc = "callback" /\ target = h
    /\ \A r \in Readers \cap memstore_guards[h] : rpc[r] = "query" /\ rhandle[r] = h

\* The watcher takes one read guard at a time and drops it before it goes on.
LEMMA NextGuardInv == IInv /\ GuardInv /\ [Next]_vars => GuardInv'
<1> SUFFICES ASSUME IInv, GuardInv, [Next]_vars PROVE GuardInv' OBVIOUS
<1>0. memstore_guards \in [Handles -> SUBSET Threads] BY DEF IInv, TypeOK
<1>1. CASE UNCHANGED <<memstore_guards, wpc, target, rpc, rhandle>> BY <1>1 DEF GuardInv
<1>2. CASE UNCHANGED <<memstore_guards, rpc, rhandle>> /\ wpc # "callback"
  BY <1>2 DEF GuardInv
<1>3. CASE Publish \/ Deliver
  BY <1>1, <1>2, <1>3 DEF Publish, Backend!Publish, Deliver
<1>4. CASE WatchNotify
  <2>1. target \in Handles BY <1>4 DEF WatchNotify, IInv, TypeOK
  <2>2. QED BY <1>0, <1>4, <2>1, ThreadsAssumption DEF WatchNotify, GuardInv
<1>5. CASE WatchCallbackReturn
  <2>1. target \in Handles BY <1>5 DEF WatchCallbackReturn, IInv, TypeOK
  <2>2. QED BY <1>0, <1>5, <2>1 DEF WatchCallbackReturn, GuardInv
<1>6. CASE WatcherStep /\ ~WatchNotify /\ ~WatchCallbackReturn
  BY <1>2, <1>6 DEF WatcherStep, WatchLockNamespaces, WatchLockVersion, WatchGiveUp,
     WatchNoNotify, WatchNoDiff, Reloads, WatchLoadErr, WatchLoadPanic, WatchLoadDrop,
     WatchLoad, WatchNoCallback, WatchSwap, WatchCommit
<1>7. ASSUME NEW c \in Creators,
             CreatorStep(c) \/ \E h \in Handles : CreateCall(c, h) \/ CreateRejected(c, h)
      PROVE  GuardInv'
  BY <1>1, <1>7 DEF CreatorStep, CreateCall, CreateRejected, CreateLockVersion,
     CreateVersionPoisoned, CreateLoad, CreateLoadFails, CreateInsert
<1>8. ASSUME NEW r \in Readers, QueryKey(r) PROVE GuardInv'
  BY <1>1, <1>8 DEF QueryKey
<1>9. ASSUME NEW r \in Readers,
             \/ \E n \in Names : GetNamespace(r, n)
             \/ \E h \in Handles : ShareHandle(r, h)
      PROVE  GuardInv'
  <2>1. /\ UNCHANGED <<memstore_guards, wpc, target, rpc>> /\ rpc[r] = "idle"
        /\ \A q \in Readers : q # r => rhandle'[q] = rhandle[q]
    BY <1>9 DEF GetNamespace, ShareHandle, IInv, TypeOK
  <2>2. QED BY <2>1 DEF GuardInv
<1>10. ASSUME NEW r \in Readers, QueryBegin(r) \/ QueryEnd(r) PROVE GuardInv'
  <2>1. r # Watcher BY ThreadsAssumption
  <2>2. UNCHANGED <<wpc, target, rhandle>> BY <1>10 DEF QueryBegin, QueryEnd
  <2>3. CASE QueryBegin(r)
    <3>1. rpc' = [rpc EXCEPT ![r] = "query"] /\ rpc \in [Readers -> {"idle", "query"}]
      BY <2>3 DEF QueryBegin, IInv, TypeOK
    <3>2. \A h \in Handles : memstore_guards'[h] =
            IF h = rhandle[r] THEN memstore_guards[h] \cup {r} ELSE memstore_guards[h]
      BY <1>0, <2>3 DEF QueryBegin
    <3>3. \A h \in Handles : /\ memstore_guards'[h] \subseteq Readers \cup {Watcher}
                             /\ Watcher \in memstore_guards'[h] => wpc' = "callback" /\ target' = h
      <4> SUFFICES ASSUME NEW h \in Handles
                   PROVE  /\ memstore_guards'[h] \subseteq Readers \cup {Watcher}
                          /\ Watcher \in memstore_guards'[h] => wpc' = "callback" /\ target' = h
        OBVIOUS
      <4>1. /\ memstore_guards[h] \subseteq Readers \cup {Watcher}
            /\ Watcher \in memstore_guards[h] => wpc = "callback" /\ target = h
        BY DEF GuardInv
      <4>2. QED BY <2>1, <2>2, <3>2, <4>1
    <3>4. ASSUME NEW h \in Handles, NEW q \in Readers, q \in memstore_guards'[h]
          PROVE  rpc'[q] = "query" /\ rhandle'[q] = h
      <4>1. CASE q = r BY <2>2, <2>3, <3>1, <3>2, <3>4, <4>1 DEF GuardInv, QueryBegin
      <4>2. CASE q # r
        <5>1. q \in memstore_guards[h] BY <3>2, <3>4, <4>2
        <5>2. QED BY <2>2, <3>1, <4>2, <5>1 DEF GuardInv
      <4>3. QED BY <4>1, <4>2
    <3>5. QED BY <3>3, <3>4 DEF GuardInv
  <2>4. CASE QueryEnd(r)
    <3>1. rpc' = [rpc EXCEPT ![r] = "idle"] /\ rpc \in [Readers -> {"idle", "query"}]
      BY <2>4 DEF QueryEnd, IInv, TypeOK
    <3>2. \A h \in Handles : memstore_guards'[h] =
            IF h = rhandle[r] THEN memstore_guards[h] \ {r} ELSE memstore_guards[h]
      BY <1>0, <2>4 DEF QueryEnd
    <3>3. \A h \in Handles : /\ memstore_guards'[h] \subseteq Readers \cup {Watcher}
                             /\ Watcher \in memstore_guards'[h] => wpc' = "callback" /\ target' = h
      BY <2>1, <2>2, <3>2 DEF GuardInv
    <3>4. ASSUME NEW h \in Handles, NEW q \in Readers, q \in memstore_guards'[h]
          PROVE  rpc'[q] = "query" /\ rhandle'[q] = h
      <4>1. CASE q = r BY <2>2, <2>4, <3>1, <3>2, <3>4, <4>1 DEF GuardInv, QueryEnd
      <4>2. CASE q # r
        <5>1. q \in memstore_guards[h] BY <3>2, <3>4, <4>2
        <5>2. QED BY <2>2, <3>1, <4>2, <5>1 DEF GuardInv
      <4>3. QED BY <4>1, <4>2
    <3>5. QED BY <3>3, <3>4 DEF GuardInv
  <2>5. QED BY <1>10, <2>3, <2>4
<1>11. CASE UNCHANGED vars BY <1>1, <1>11 DEF vars
<1>12. QED BY <1>3, <1>4, <1>5, <1>6, <1>7, <1>8, <1>9, <1>10, <1>11 DEF Next

(***************************************************************************)
(* The opposite orders in which create_namespace_scoped_cfg_center and     *)
(* update_callback lock the two mutexes are the only way to a deadlock, in *)
(* any number of creating and querying threads, with loads that fail or    *)
(* panic: otherwise every wait is for a thread that can go on, or waits    *)
(* for one that can, and none of these has ended with what it holds.       *)
(***************************************************************************)
THEOREM AllOtherWaitsEnd == Spec => []WaitsEnd
<1>0. ASSUME IInv, GuardInv, NEW t \in Threads, Holds(t) PROVE InOperation(t)
  <2> USE ThreadsAssumption DEF InOperation
  <2>1. CASE version_lock = t BY <1>0, <2>1 DEF IInv, LockInv, InLoop, Threads
  <2>2. CASE namespaces_lock = t BY <1>0, <2>2 DEF IInv, TypeOK, LockInv, InLoop, Threads
  <2>3. ASSUME NEW h \in Handles, t \in memstore_guards[h] PROVE InOperation(t)
    BY <1>0, <2>3 DEF GuardInv
  <2>4. QED BY <1>0, <2>1, <2>2, <2>3 DEF Holds
<1>1. ASSUME IInv, GuardInv, ~LockOrderCycle,
             NEW t \in Threads, NEW u \in WaitsFor(t), NEW v \in WaitsFor(u)
      PROVE  WaitsFor(v) = {}
  <2> USE ThreadsAssumption, <1>1
  <2>1. \A r \in Readers : WaitsFor(r) = {} BY DEF WaitsFor
  <2>2. \A c \in Creators : cpc[c] = "load" => WaitsFor(c) = {} BY DEF WaitsFor
  <2>3. \A c \in Creators : cpc[c] = "insert" => WaitsFor(c) = {}
    <3> SUFFICES ASSUME NEW c \in Creators, cpc[c] = "insert", namespaces_lock = Watcher
                 PROVE  FALSE
      BY DEF WaitsFor, IInv, TypeOK, Threads
    <3>1. version_lock = c BY DEF IInv, LockInv
    <3>2. ~InLoop BY <3>1 DEF IInv, LockInv
    <3>3. wpc = "lock_version" BY <3>2 DEF IInv, LockInv
    <3>4. QED BY <3>1, <3>3 DEF LockOrderCycle
  <2>4. CASE t = Watcher
    <3>1. CASE wpc = "swap"
      <4>1. target \in Handles BY <3>1 DEF IInv, TypeOK
      <4>2. u \in Readers BY <2>4, <3>1, <4>1 DEF WaitsFor, GuardInv
      <4>3. QED BY <2>1, <4>2
    <3>2. CASE wpc = "lock_version"
      <4>1. u = version_lock /\ u \in Threads /\ u # Watcher
        BY <2>4, <3>2 DEF WaitsFor, IInv, LockInv, InLoop
      <4>2. u \in Creators /\ cpc[u] \in {"load", "insert"}
        BY <4>1 DEF Threads, IInv, LockInv
      <4>3. QED BY <2>2, <2>3, <4>2
    <3>3. CASE wpc = "lock_namespaces"
      BY <2>4, <3>3 DEF WaitsFor, IInv, TypeOK, LockInv, InLoop, Threads
    <3>4. QED BY <2>4, <3>1, <3>2, <3>3 DEF WaitsFor
  <2>5. CASE t \in Creators
    <3>1. cpc[t] = "lock_version" /\ u = version_lock /\ u \in Threads
      BY <2>3, <2>5 DEF WaitsFor
    <3>2. CASE u = Watcher
      <4>1. InLoop BY <3>1, <3>2 DEF IInv, LockInv
      <4>2. wpc = "swap" /\ v \in memstore_guards[target]
        BY <3>2, <4>1 DEF WaitsFor, InLoop
      <4>3. target \in Handles BY <4>2 DEF IInv, TypeOK
      <4>4. v \in Readers BY <4>2, <4>3 DEF GuardInv
      <4>5. QED BY <2>1, <4>4
    <3>3. CASE u # Watcher
      <4>1. u \in Creators /\ cpc[u] \in {"load", "insert"}
        BY <3>1, <3>3 DEF Threads, IInv, LockInv
      <4>2. QED BY <2>2, <2>3, <4>1
    <3>4. QED BY <3>2, <3>3
  <2>6. QED BY <2>1, <2>4, <2>5 DEF Threads
<1>2. Init => GuardInv BY DEF Init, GuardInv
<1>3. IInv /\ GuardInv => WaitsEnd BY <1>0, <1>1 DEF WaitsEnd
<1>4. QED BY Invariance, NextGuardInv, <1>2, <1>3, PTL DEF Spec

(***************************************************************************)
(* Only two actions write a store: the swap, on a namespace whose callback *)
(* has been told of it, and the insertion of a handle that was not live.   *)
(***************************************************************************)
LEMMA StoreWriters ==
  ASSUME Next, ~WatchSwap, \A c \in Creators : ~CreateInsert(c)
  PROVE  UNCHANGED current_memstore
<1>1. CASE Publish \/ Deliver BY <1>1 DEF Publish, Backend!Publish, Deliver, Backend!Deliver
<1>2. CASE WatcherStep
  BY <1>2 DEF WatcherStep, WatchLockNamespaces, WatchLockVersion, WatchGiveUp,
     WatchNoNotify, WatchNoDiff, WatchLoadErr, WatchLoadPanic, WatchLoadDrop,
     WatchLoad, WatchNotify, WatchNoCallback, WatchCallbackReturn, WatchCommit
<1>3. ASSUME NEW c \in Creators,
             CreatorStep(c) \/ \E h \in Handles : CreateCall(c, h) \/ CreateRejected(c, h)
      PROVE  UNCHANGED current_memstore
  BY <1>3 DEF CreatorStep, CreateCall, CreateRejected, CreateLockVersion,
     CreateVersionPoisoned, CreateLoad, CreateLoadFails
<1>4. ASSUME NEW r \in Readers,
             \/ \E n \in Names : GetNamespace(r, n)
             \/ \E h \in Handles : ShareHandle(r, h)
             \/ QueryBegin(r) \/ QueryKey(r) \/ QueryEnd(r)
      PROVE  UNCHANGED current_memstore
  BY <1>4 DEF GetNamespace, ShareHandle, QueryBegin, QueryKey, QueryEnd
<1>5. QED BY <1>1, <1>2, <1>3, <1>4 DEF Next

(***************************************************************************)
(* A ByGlobal subscriber is told of every change of what its namespace     *)
(* serves, of exactly that change, and before queries can see it.          *)
(***************************************************************************)
THEOREM ChangesAreAnnounced == Spec => ChangeAnnounced
<1> DEFINE Told(h) == hstate[h] = "live" /\ Announces(h)
                        /\ current_memstore'[h] # current_memstore[h]
                      => notified[h] = <<current_memstore[h], current_memstore'[h]>>
<1>1. ASSUME IInv, Next, NEW h \in Handles PROVE Told(h)
  <2>1. CASE WatchSwap
    BY <1>1, <2>1 DEF WatchSwap, IInv, TypeOK, TargetInv, OnOne
  <2>2. ASSUME NEW c \in Creators, CreateInsert(c) PROVE Told(h)
    BY <1>1, <2>2 DEF CreateInsert, IInv, TypeOK, HandleInv
  <2>3. CASE ~WatchSwap /\ \A c \in Creators : ~CreateInsert(c)
    BY <1>1, <2>3, StoreWriters
  <2>4. QED BY <2>1, <2>2, <2>3
<1>2. IInv /\ [Next]_vars => [\A h \in Handles : Told(h)]_vars BY <1>1
<1>3. QED BY Invariance, <1>2, PTL DEF Spec, ChangeAnnounced

\* Only the callback of the namespace being updated is told anything.
LEMMA CallbackRunners ==
  ASSUME Next, ~WatchNotify
  PROVE  UNCHANGED notified
<1>1. CASE Publish \/ Deliver BY <1>1 DEF Publish, Backend!Publish, Deliver, Backend!Deliver
<1>2. CASE WatcherStep
  BY <1>2 DEF WatcherStep, WatchLockNamespaces, WatchLockVersion, WatchGiveUp,
     WatchNoNotify, WatchNoDiff, WatchLoadErr, WatchLoadPanic, WatchLoadDrop,
     WatchLoad, WatchNoCallback, WatchCallbackReturn, WatchSwap, WatchCommit
<1>3. ASSUME NEW c \in Creators,
             CreatorStep(c) \/ \E h \in Handles : CreateCall(c, h) \/ CreateRejected(c, h)
      PROVE  UNCHANGED notified
  BY <1>3 DEF CreatorStep, CreateCall, CreateRejected, CreateLockVersion,
     CreateVersionPoisoned, CreateLoad, CreateLoadFails, CreateInsert
<1>4. ASSUME NEW r \in Readers,
             \/ \E n \in Names : GetNamespace(r, n)
             \/ \E h \in Handles : ShareHandle(r, h)
             \/ QueryBegin(r) \/ QueryKey(r) \/ QueryEnd(r)
      PROVE  UNCHANGED notified
  BY <1>4 DEF GetNamespace, ShareHandle, QueryBegin, QueryKey, QueryEnd
<1>5. QED BY <1>1, <1>2, <1>3, <1>4 DEF Next

(***************************************************************************)
(* An object that a second create has replaced in the map is never updated *)
(* and its callback never runs again: the update under way is always for   *)
(* what the map holds (TargetInv), because both mutexes stay locked.       *)
(***************************************************************************)
THEOREM ReplacedStaysAlone == Spec => ReplacedIsLeftAlone
<1> DEFINE Alone(h) ==
      hstate[h] = "live" /\ ~Registered(h)
      => current_memstore'[h] = current_memstore[h] /\ notified'[h] = notified[h]
<1>1. ASSUME IInv, Next, NEW h \in Handles PROVE Alone(h)
  <2>1. CASE WatchSwap
    BY <1>1, <2>1 DEF WatchSwap, IInv, TypeOK, TargetInv, OnOne
  <2>2. CASE WatchNotify
    BY <1>1, <2>2 DEF WatchNotify, IInv, TypeOK, TargetInv, OnOne
  <2>3. ASSUME NEW c \in Creators, CreateInsert(c) PROVE Alone(h)
    BY <1>1, <2>3 DEF CreateInsert, IInv, TypeOK, HandleInv
  <2>4. CASE ~WatchSwap /\ ~WatchNotify /\ \A c \in Creators : ~CreateInsert(c)
    BY <1>1, <2>4, StoreWriters, CallbackRunners
  <2>5. QED BY <2>1, <2>2, <2>3, <2>4
<1>2. IInv /\ [Next]_vars => [\A h \in Handles : Alone(h)]_vars BY <1>1
<1>3. QED BY Invariance, <1>2, PTL DEF Spec, ReplacedIsLeftAlone

-----------------------------------------------------------------------------
(***************************************************************************)
(* CFGCenter implements ConfigView.                                        *)
(***************************************************************************)
OpenHandles == {h \in Handles : hstate[h] = "live"}

\* Initial states map to initial states.
LEMMA InitRefines == Init => View!Init
  BY DEF Init, View!Init

\* Publishing is publishing; the other steps of the watcher but one are invisible.
LEMMA WatcherRefines ==
  ASSUME IInv, Publish \/ Deliver \/ WatcherStep
  PROVE  [View!Next]_(View!viewVars)
<1> USE DEF View!viewVars
<1>1. CASE Publish
  BY <1>1 DEF Publish, Backend!Publish, View!Next, View!Publish
<1>2. CASE WatchSwap
  <2>1. target \in OpenHandles /\ target \in Handles
    BY <1>2 DEF WatchSwap, IInv, TypeOK, TargetInv, OnOne, Registered, OpenHandles
  <2>2. new_version \in current_memstore[target] .. published
    BY <1>2, <2>1 DEF IInv, TypeOK, VersionInv, Versions, OpenHandles
  <2>3. View!Advance(target)
    BY <1>2, <2>1, <2>2 DEF WatchSwap, View!Advance, OpenHandles
  <2>4. QED BY <2>1, <2>3 DEF View!Next
<1>3. CASE (Deliver \/ WatcherStep) /\ ~WatchSwap
  BY <1>3 DEF Deliver, Backend!Deliver, WatcherStep, WatchLockNamespaces, WatchLockVersion,
     WatchGiveUp, WatchNoNotify, WatchNoDiff, WatchLoadErr, WatchLoadPanic,
     WatchLoadDrop, WatchLoad, WatchNotify, WatchNoCallback,
     WatchCallbackReturn, WatchCommit
<1>4. QED BY <1>1, <1>2, <1>3

\* Inserting a handle in the map opens it; before that nobody can see it.
LEMMA CreatorRefines ==
  ASSUME IInv, NEW c \in Creators,
         CreatorStep(c) \/ \E h \in Handles : CreateCall(c, h) \/ CreateRejected(c, h)
  PROVE  [View!Next]_(View!viewVars)
<1> USE DEF View!viewVars
<1>1. CASE CreateInsert(c)
  <2>1. PICK h \in Handles : h = carg[c] /\ hstate[h] = "pending"
    BY <1>1 DEF CreateInsert, IInv, HandleInv
  <2>2. cver[c] \in 0 .. published
    BY <1>1 DEF CreateInsert, IInv, TypeOK, VersionInv, Versions
  <2>3. OpenHandles' = OpenHandles \cup {h}
    BY <1>1, <2>1 DEF CreateInsert, IInv, TypeOK, OpenHandles
  <2>4. View!Open(h)
    BY <1>1, <2>1, <2>2, <2>3 DEF CreateInsert, View!Open, OpenHandles
  <2>5. QED BY <2>4 DEF View!Next
<1>2. ASSUME NEW h \in Handles, CreateCall(c, h) \/ CreateRejected(c, h)
      PROVE  UNCHANGED View!viewVars
  <2>1. OpenHandles' = OpenHandles
    BY <1>2 DEF CreateCall, CreateRejected, IInv, TypeOK, OpenHandles
  <2>2. QED BY <1>2, <2>1 DEF CreateCall, CreateRejected, OpenHandles
<1>3. CASE CreateLockVersion(c) \/ CreateLoad(c)
  BY <1>3 DEF CreateLockVersion, CreateLoad
<1>4. CASE CreateVersionPoisoned(c) \/ CreateLoadFails(c)
  <2> USE <1>4 DEF CreateVersionPoisoned, CreateLoadFails
  <2>1. CreateReturnsErr(c) /\ hstate[carg[c]] = "pending" BY DEF IInv, HandleInv
  <2>2. OpenHandles' = OpenHandles
    BY <2>1 DEF CreateReturnsErr, IInv, TypeOK, OpenHandles
  <2>3. QED BY <2>2 DEF OpenHandles
<1>5. QED BY <1>1, <1>2, <1>3, <1>4 DEF CreatorStep

\* The end of a query is the one atomic read; all before it is invisible.
LEMMA ReaderRefines ==
  ASSUME IInv, NEW r \in Readers,
         \/ \E n \in Names : GetNamespace(r, n)
         \/ \E h \in Handles : ShareHandle(r, h)
         \/ QueryBegin(r) \/ QueryKey(r) \/ QueryEnd(r)
  PROVE  [View!Next]_(View!viewVars)
<1> USE DEF View!viewVars
<1>1. CASE QueryEnd(r)
  <2>1. rhandle[r] \in Handles /\ rhandle[r] \in OpenHandles
    BY <1>1, HandlesAssumption DEF QueryEnd, IInv, ReaderInv, OpenHandles
  <2>2. seen[r] = {current_memstore[rhandle[r]]}
    BY <1>1 DEF QueryEnd, IInv, ReaderInv
  <2>3. View!Query(r, rhandle[r])
    BY <1>1, <2>1, <2>2 DEF QueryEnd, View!Query, OpenHandles
  <2>4. QED BY <2>1, <2>3 DEF View!Next
<1>2. CASE ~QueryEnd(r)
  BY <1>2 DEF GetNamespace, ShareHandle, QueryBegin, QueryKey
<1>3. QED BY <1>1, <1>2

(***************************************************************************)
(* The refinement: whatever locks, watcher and lookups do, a querying      *)
(* thread sees handles that serve one published version at a time, only    *)
(* move forward, and answer a query of many keys in one atomic read.       *)
(***************************************************************************)
THEOREM ViewIsAtomic == Spec => AtomicView
<1>1. IInv /\ [Next]_vars => [View!Next]_(View!viewVars)
  <2>1. ASSUME IInv, UNCHANGED vars PROVE [View!Next]_(View!viewVars)
    BY <2>1 DEF vars, View!viewVars
  <2>2. QED BY <2>1, WatcherRefines, CreatorRefines, ReaderRefines DEF Next
<1>2. QED BY InitRefines, Invariance, <1>1, PTL DEF Spec, AtomicView, View!Spec
=============================================================================

-------------------------- MODULE FsBackendProofs ---------------------------
(***************************************************************************)
(* Proofs about FsBackend for any number of publications and failed reads, *)
(* with and without changes of `head` during startup.                      *)
(***************************************************************************)
EXTENDS FsBackend, TLAPS

\* An event is put into the channel only for a modification time not seen before.
EventsInv == events <= seen

\* A version takes at most two writes of `head`, and a torn write is never the last.
WritesInv ==
  /\ mtime <= 2 * published + 1
  /\ mtime = 2 * published + 1 => torn
  /\ torn => published < MaxVersion

IInv == TypeOK /\ EventsInv /\ WritesInv

USE DEF headVars, channel

\* The program starts in a state of the invariant.
LEMMA InitIInv == Init => IInv
<1> SUFFICES ASSUME Init PROVE IInv OBVIOUS
<1>1. torn \in BOOLEAN /\ failed \in BOOLEAN /\ ~torn BY DEF Init
<1>2. TypeOK BY <1>1, BoundsAssumption DEF Init, TypeOK
<1>3. EventsInv /\ WritesInv BY <1>1 DEF Init, EventsInv, WritesInv
<1>4. QED BY <1>2, <1>3 DEF IInv

\* What a reload leaves behind was published and is not older than before.
LEMMA LoadedForward ==
  ASSUME TypeOK
  PROVE  Loaded(Head) \in served .. published
  BY BoundsAssumption DEF TypeOK, Loaded, Head, Torn

\* The bound on modification times.
LEMMA TwoWrites ==
  ASSUME NEW m \in Nat, NEW p \in Nat, NEW M \in Nat,
         m <= 2 * p + 1, m = 2 * p + 1 => p < M, p <= M
  PROVE  m <= 2 * M
  OBVIOUS

\* The publisher and the PollWatcher keep the invariant.
LEMMA OutsideIInv == IInv /\ (WriteHead \/ Poll \/ PollFails) => IInv'
<1> SUFFICES ASSUME IInv, WriteHead \/ Poll \/ PollFails PROVE IInv' OBVIOUS
<1> USE BoundsAssumption DEF IInv, TypeOK
<1>1. CASE WriteHead
  <2>1. WritesInv'
    <3>1. CASE torn' = FALSE /\ published' = published + 1
      BY <1>1, <3>1 DEF WriteHead, WritesInv
    <3>2. CASE ~torn /\ torn' = TRUE /\ UNCHANGED published
      BY <1>1, <3>2 DEF WriteHead, WritesInv
    <3>3. QED BY <1>1, <3>1, <3>2 DEF WriteHead
  <2>2. published' \in 0 .. MaxVersion /\ published <= published'
    BY <1>1 DEF WriteHead
  <2>3. torn' \in BOOLEAN BY <1>1, Zenon DEF WriteHead
  <2>4. mtime' \in Nat BY <1>1 DEF WriteHead
  <2>5. mtime' <= 2 * MaxVersion
    <3>1. published' \in Nat /\ published' <= MaxVersion BY <2>2
    <3>2. mtime' <= 2 * published' + 1 /\ (mtime' = 2 * published' + 1 => published' < MaxVersion)
      BY <2>1 DEF WritesInv
    <3>3. QED BY <2>4, <3>1, <3>2, TwoWrites
  <2>6. seen' \in 0 .. mtime' /\ events' \in 0 .. mtime' /\ served' \in 0 .. published'
    BY <1>1, <2>2, <2>4 DEF WriteHead
  <2>7. TypeOK' BY <1>1, <2>2, <2>3, <2>4, <2>5, <2>6 DEF WriteHead
  <2>8. EventsInv' BY <1>1 DEF WriteHead, EventsInv
  <2>9. QED BY <2>1, <2>7, <2>8
<1>2. CASE Poll
  BY <1>2 DEF Poll, EventsInv, WritesInv
<1>3. CASE PollFails
  BY <1>3 DEF PollFails, EventsInv, WritesInv
<1>4. QED BY <1>1, <1>2, <1>3

\* Every step of the backend keeps the invariant.
LEMMA BackendIInv == IInv /\ Backend => IInv'
<1> SUFFICES ASSUME IInv, Backend PROVE IInv' OBVIOUS
<1>a. Loaded(Head) \in 0 .. published BY LoadedForward DEF IInv, TypeOK
<1> USE BoundsAssumption DEF IInv, TypeOK, EventsInv, WritesInv
<1>1. CASE GetCurrentVersion BY <1>1, <1>a DEF GetCurrentVersion
<1>2. CASE SetUpdateCb BY <1>2 DEF SetUpdateCb
<1>3. CASE Recv BY <1>3 DEF Recv, EventThere
<1>4. CASE ReadHead BY <1>4, <1>a DEF ReadHead
<1>5. CASE ReadHeadFails BY <1>5 DEF ReadHeadFails
<1>6. CASE RecvOther BY <1>6 DEF RecvOther
<1>7. QED BY <1>1, <1>2, <1>3, <1>4, <1>5, <1>6 DEF Backend

\* IInv is inductive.
LEMMA NextIInv == IInv /\ [Next]_vars => IInv'
<1>1. ASSUME IInv, UNCHANGED vars PROVE IInv'
  BY <1>1 DEF IInv, TypeOK, EventsInv, WritesInv, vars
<1>2. QED BY <1>1, OutsideIInv, BackendIInv DEF Next

\* The inductive invariant holds in every reachable state, of every instance.
THEOREM Invariance == Spec => []IInv
  BY InitIInv, NextIInv, PTL DEF Spec

(***************************************************************************)
(* Type correctness: the channel never holds more events than `head` had   *)
(* changes, and what is served was published.                              *)
(***************************************************************************)
THEOREM TypeCorrect == Spec => []TypeOK
<1>1. IInv => TypeOK BY DEF IInv
<1>2. QED BY Invariance, <1>1, PTL

\* Until the watcher is in place nothing changes, if the publisher keeps quiet.
QuietStart ==
  ~StartupWrites /\ pc \in {"new", "watch"} =>
    served = published /\ ~torn

\* A change, once made, moves from `head` to the channel to the thread.
LEMMA NextPending ==
  IInv /\ QuietStart /\ ChangeIsPending /\ [Next]_vars => (QuietStart /\ ChangeIsPending)'
<1> SUFFICES ASSUME IInv, QuietStart, ChangeIsPending, [Next]_vars
             PROVE  (QuietStart /\ ChangeIsPending)'
  OBVIOUS
<1> USE BoundsAssumption, StartupAssumption DEF QuietStart, ChangeIsPending, IInv, TypeOK
<1>1. CASE WriteHead
  <2>1. mtime' # seen' BY <1>1 DEF WriteHead
  <2>2. QuietStart' BY <1>1 DEF WriteHead
  <2>3. QED BY <2>1, <2>2
<1>2. CASE Poll BY <1>2 DEF Poll
<1>3. CASE GetCurrentVersion
  BY <1>3 DEF GetCurrentVersion, Loaded, Head, Torn
<1>4. CASE SetUpdateCb BY <1>4 DEF SetUpdateCb
<1>5. CASE Recv BY <1>5 DEF Recv
<1>6. CASE ReadHead BY <1>6 DEF ReadHead, Loaded, Head, Torn
<1>7. CASE ReadHeadFails BY <1>7 DEF ReadHeadFails
<1>8. CASE UNCHANGED vars BY <1>8 DEF vars
<1>9. CASE PollFails \/ RecvOther BY <1>9 DEF PollFails, RecvOther
<1>10. QED BY <1>1, <1>2, <1>3, <1>4, <1>5, <1>6, <1>7, <1>8, <1>9 DEF Next, Backend

(***************************************************************************)
(* What FollowsHead rests on: eafcc_watcher and the PollWatcher forget no  *)
(* change of `head`, for any number of publications, half-written names    *)
(* and events that pile up.                                                *)
(***************************************************************************)
THEOREM NoChangeForgotten == Spec => []ChangeIsPending
<1>1. Init => QuietStart /\ ChangeIsPending
  BY DEF Init, QuietStart, ChangeIsPending
<1>2. QED BY <1>1, Invariance, NextPending, PTL DEF Spec

(***************************************************************************)
(* CFGCenter can rely on StorageBackend: late events and incomplete names  *)
(* in `head` never make a namespace serve what was not published or go     *)
(* back to an older version.                                               *)
(***************************************************************************)
THEOREM FsIsStorageBackend == Spec => ImplementsBackend
<1>1. Init => Storage!Init
  <2>1. ASSUME Init PROVE 0 \in 0 .. published /\ 0 \in Nat BY <2>1 DEF Init
  <2>2. QED BY <2>1 DEF Init, Storage!Init
<1>2. ASSUME IInv, [Next]_vars PROVE [Storage!Next]_(Storage!vars)
  <2> USE <1>2, BoundsAssumption DEF IInv, TypeOK, Storage!Next, Storage!vars
  <2>1. CASE WriteHead
    <3>1. 0 .. published \subseteq 0 .. published' BY <2>1 DEF WriteHead
    <3>2. QED BY <2>1, <3>1 DEF WriteHead, Storage!Publish, Storage!MoreLoadable
  <2>2. CASE GetCurrentVersion \/ ReadHead
    <3>1. served' \in served .. published
      BY <2>2, LoadedForward DEF GetCurrentVersion, ReadHead
    <3>2. served' \in 0 .. published BY <3>1
    <3>3. QED BY <2>2, <3>1, <3>2 DEF GetCurrentVersion, ReadHead, Storage!Deliver
  <2>3. CASE Poll \/ PollFails \/ SetUpdateCb \/ Recv \/ RecvOther \/ ReadHeadFails
    BY <2>3 DEF Poll, PollFails, SetUpdateCb, Recv, RecvOther, ReadHeadFails
  <2>4. CASE UNCHANGED vars BY <2>4 DEF vars
  <2>5. QED BY <2>1, <2>2, <2>3, <2>4 DEF Next, Backend
<1>3. QED BY <1>1, <1>2, Invariance, PTL DEF Spec, ImplementsBackend, Storage!Spec
=============================================================================

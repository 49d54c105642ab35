----------------------------- MODULE FsBackend ------------------------------
(***************************************************************************)
(* FilesystemBackend (storage_backends/filesystem/mod.rs) as CFGCenter::new*)
(* starts it: read the `head` file, then put a PollWatcher on it whose     *)
(* events a thread of its own turns into calls of the update callback; and *)
(* one namespace that these calls reload.                                  *)
(*                                                                         *)
(* The publisher may write `head` in two steps, so that a reader finds an  *)
(* empty or partial name in between.  Such a name is handed on like any    *)
(* other, and the loads that follow fail because there is no directory of  *)
(* that name (no version's name is the beginning of another's).            *)
(* The PollWatcher (crate notify, external) compares modification times    *)
(* every two seconds; every write is taken to change the modification time.*)
(* The arm of eafcc_watcher for a failed recv is left out: it needs the    *)
(* sender to be dropped, which is in the FilesystemBackend that the        *)
(* thread's own callback keeps alive.                                      *)
(***************************************************************************)
EXTENDS Integers

CONSTANTS
  MaxVersion,     \* bound: number of publications after the initial one
  MaxErrors,      \* bound: number of failed accesses to `head`
  StartupWrites   \* may `head` change before the PollWatcher is in place?

ASSUME BoundsAssumption  == MaxVersion \in Nat /\ MaxErrors \in Nat
ASSUME StartupAssumption == StartupWrites \in BOOLEAN

VARIABLES
  published,      \* the newest version: a directory that `head` names or named
  torn,           \* is the content of `head` incomplete?
  mtime,          \* modification time of `head`
  seen,           \* the modification time the PollWatcher has last looked at
  events,         \* DebouncedEvents in the channel that tell of a change ...
  notices,        \* ... and those of the other kinds (Error)
  pc,             \* startup: "new", "watch", then the thread: "recv" or "read"
  served,         \* the version the namespace was loaded from last; the initial one at first
  errors,         \* failed accesses to `head` so far
  failed          \* history: did the last read fail?

headVars == <<published, torn, mtime>>
channel == <<events, notices>>
vars == <<headVars, seen, channel, pc, served, errors, failed>>

Torn == -1
Head == IF torn THEN Torn ELSE published

Init ==
  /\ published = 0 /\ torn = FALSE /\ mtime = 0 /\ seen = 0
  /\ events = 0 /\ notices = 0
  /\ pc = "new" /\ served = 0 /\ errors = 0 /\ failed = FALSE

\* External: the publisher puts the name of the next version into `head`, in one
\* step or by way of an incomplete name.
WriteHead ==
  /\ published < MaxVersion
  /\ pc \in {"new", "watch"} => StartupWrites
  /\ \/ torn' = FALSE /\ published' = published + 1
     \/ ~torn /\ torn' = TRUE /\ UNCHANGED published
  /\ mtime' = mtime + 1
  /\ UNCHANGED <<seen, channel, pc, served, errors, failed>>

\* External: one round of the PollWatcher that finds a new modification time.
Poll ==
  /\ pc \in {"recv", "read"} /\ mtime # seen
  /\ seen' = mtime /\ events' = events + 1
  /\ UNCHANGED <<headVars, notices, pc, served, errors, failed>>

\* External: a round that cannot get at `head` sends an Error and notes nothing.
PollFails ==
  /\ pc \in {"recv", "read"}
  /\ errors < MaxErrors /\ errors' = errors + 1
  /\ notices' = notices + 1
  /\ UNCHANGED <<headVars, seen, events, pc, served, failed>>

\* Faulty variant: a namespace that cannot be loaded gets the empty index.
LoadedEmpty(version) == version

\* What the namespace serves after a reload at the given version: list_dir fails
\* on a directory that does not exist, and the old index stays.
Loaded(version) == IF version = Torn THEN served ELSE version

\* CFGCenter::new asks get_current_version before anything else.
GetCurrentVersion ==
  /\ pc = "new" /\ pc' = "watch"
  /\ served' = Loaded(Head)
  /\ UNCHANGED <<headVars, seen, channel, errors, failed>>

\* set_update_cb: watch() notes the modification time; the thread is spawned.
SetUpdateCb ==
  /\ pc = "watch" /\ pc' = "recv"
  /\ seen' = mtime
  /\ UNCHANGED <<headVars, channel, served, errors, failed>>

\* Faulty variant: the thread does not wait for an event.
EventThereAlways == TRUE

EventThere == events > 0

\* Faulty variant: a kind of event that the match does not list is skipped.
RecvIgnores ==
  /\ pc = "recv" /\ pc' \in {"recv", "read"} /\ events > 0
  /\ events' = events - 1
  /\ UNCHANGED <<headVars, notices, seen, served, errors, failed>>

\* eafcc_watcher takes an event out of the channel; any kind of change will do.
Recv ==
  /\ pc = "recv" /\ pc' = "read" /\ EventThere
  /\ events' = events - 1
  /\ UNCHANGED <<headVars, notices, seen, served, errors, failed>>

\* The arm `_ => continue`: an event of another kind is skipped.
RecvOther ==
  /\ pc = "recv" /\ notices > 0
  /\ notices' = notices - 1
  /\ UNCHANGED <<headVars, seen, events, pc, served, errors, failed>>

\* It reads the version that is in `head` by now and runs the update callback.
ReadHead ==
  /\ pc = "read" /\ pc' = "recv"
  /\ served' = Loaded(Head)
  /\ failed' = FALSE
  /\ UNCHANGED <<headVars, seen, channel, errors>>

\* The read fails: nothing is called, and the event is gone.
ReadHeadFails ==
  /\ pc = "read" /\ pc' = "recv"
  /\ errors < MaxErrors /\ errors' = errors + 1
  /\ failed' = TRUE
  /\ UNCHANGED <<headVars, seen, channel, served>>

Backend == GetCurrentVersion \/ SetUpdateCb \/ Recv \/ RecvOther \/ ReadHead \/ ReadHeadFails

Next == WriteHead \/ Poll \/ PollFails \/ Backend

Spec == Init /\ [][Next]_vars

\* The two threads keep running.  Nobody has to publish, nothing has to fail.
FairSpec == Spec /\ WF_vars(Backend) /\ WF_vars(Poll)

-----------------------------------------------------------------------------
\* The backend's state has the types of the fields and locals it stands for.
TypeOK ==
  /\ published \in 0 .. MaxVersion /\ torn \in BOOLEAN
  /\ mtime \in 0 .. 2 * MaxVersion /\ seen \in 0 .. mtime
  /\ events \in 0 .. mtime /\ notices \in 0 .. errors /\ errors \in 0 .. MaxErrors
  /\ pc \in {"new", "watch", "recv", "read"} /\ failed \in BOOLEAN
  /\ served \in 0 .. published

(***************************************************************************)
(* However late events are handled and whatever is read from a `head` that *)
(* is being written, a version that is served was published, and the       *)
(* namespace never goes back to an older one.                              *)
(***************************************************************************)
Storage == INSTANCE StorageBackend WITH loadable <- 0 .. published, delivered <- served

ImplementsBackend == Storage!Spec

(***************************************************************************)
(* Once the publisher has left `head` complete and is quiet, the namespace *)
(* comes to serve the last version, however many events pile up while a    *)
(* callback runs and however often an incomplete name was taken for a      *)
(* version; only a failed read for the last event can leave it behind.     *)
(***************************************************************************)
FollowsHead == <>[](failed \/ torn \/ served = published)

(***************************************************************************)
(* No change of `head` is forgotten on its way through modification time,  *)
(* channel and thread: while the namespace is behind a complete `head`,    *)
(* the thread is about to read it, an event is in the channel, or the      *)
(* PollWatcher has yet to look; only a failed read, or a change before the *)
(* watcher was in place, uses up what would have brought the change.       *)
(***************************************************************************)
ChangeIsPending ==
  served = published \/ torn \/ failed \/ StartupWrites
    \/ pc = "read" \/ events > 0 \/ mtime # seen

\* What the PollWatcher is there for: every change of `head` gets through.
EveryChangeArrives == <>[](torn \/ served = published)
=============================================================================

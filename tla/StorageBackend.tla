--------------------------- MODULE StorageBackend ---------------------------
(***************************************************************************)
(* What CFGCenter relies on in any StorageBackend (storage_backends/mod.rs)*)
(* that calls it back: versions are published one after the other, and the *)
(* backend hands on a published version, never an older one than before,   *)
(* and only one whose files can be read (walk_dir, get_obj_by_hash).  What *)
(* can be read stays so: an update_callback that is still loading, or a    *)
(* create call that comes later, finds it.                                 *)
(* A backend may skip versions and hand one on twice.                      *)
(***************************************************************************)
EXTENDS Naturals

VARIABLES
  published,    \* number of the newest version in the storage
  loadable,     \* the versions whose files the backend can read
  delivered     \* the last version that CFGCenter was given and could load

vars == <<published, loadable, delivered>>

Init ==
  /\ published \in Nat /\ delivered = published
  /\ delivered \in loadable /\ loadable \subseteq 0 .. published

\* Versions become readable, and none stops being so.
MoreLoadable == loadable \subseteq loadable' /\ loadable' \subseteq 0 .. published'

\* External: the publisher.
Publish == published' = published + 1 /\ MoreLoadable /\ UNCHANGED delivered

\* The backend brings versions over from where they are published.
Obtain == UNCHANGED <<published, delivered>> /\ MoreLoadable

\* The watcher thread calls the callback given to set_update_cb.
Deliver ==
  /\ delivered' \in (delivered .. published) \cap loadable
  /\ UNCHANGED <<published, loadable>>

Next == Publish \/ Obtain \/ Deliver

Spec == Init /\ [][Next]_vars
=============================================================================

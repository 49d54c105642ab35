----------------------------- MODULE ConfigView -----------------------------
(***************************************************************************)
(* What a namespace handle of eafcc promises to the threads that query it, *)
(* with no lock, watcher or index in sight: the publisher numbers the      *)
(* versions it publishes; every open handle serves exactly one of them, at *)
(* any moment; a query is answered from one version, in one atomic step;   *)
(* a handle never goes back to an older publication and never serves one   *)
(* that does not exist.  CFGCenter is shown to implement this module.      *)
(***************************************************************************)
EXTENDS Naturals

CONSTANTS
  Handles,    \* NamespaceScopedCFGCenter objects
  Readers     \* threads that query them

VARIABLES
  published,  \* number of the newest version the publisher has released
  open,       \* handles whose creation has succeeded
  served,     \* [Handles -> version], the version an open handle serves
  result      \* [Readers -> set of versions the last answer was taken from]

viewVars == <<published, open, served, result>>

Init ==
  /\ published = 0
  /\ open = {}
  /\ served \in [Handles -> {0}]
  /\ result = [r \in Readers |-> {}]

Publish ==
  /\ published' = published + 1
  /\ UNCHANGED <<open, served, result>>

\* A handle starts out with some version that has been published.
Open(h) ==
  /\ h \notin open
  /\ open' = open \cup {h}
  /\ \E v \in 0 .. published : served' = [served EXCEPT ![h] = v]
  /\ UNCHANGED <<published, result>>

\* A reload moves a handle forward, possibly over several publications.
Advance(h) ==
  /\ h \in open
  /\ \E v \in served[h] .. published : served' = [served EXCEPT ![h] = v]
  /\ UNCHANGED <<published, open, result>>

\* All keys of a query are answered from the one version served right now.
Query(r, h) ==
  /\ h \in open
  /\ result' = [result EXCEPT ![r] = {served[h]}]
  /\ UNCHANGED <<published, open, served>>

Next ==
  \/ Publish
  \/ \E h \in Handles : Open(h) \/ Advance(h)
  \/ \E r \in Readers, h \in Handles : Query(r, h)

Spec == Init /\ [][Next]_viewVars
=============================================================================

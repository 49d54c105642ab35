----------------------------- MODULE CInterface -----------------------------
(***************************************************************************)
(* The C interface (ffi.rs): objects given out as raw pointers, the two    *)
(* kinds of reference that keep a namespace alive, the memory behind a     *)
(* query result, and the thread-local error of the last call that failed.  *)
(*                                                                         *)
(* The application uses a pointer only until it frees it, and does not     *)
(* free one that a call in another thread is using.  Its callback runs on  *)
(* the watcher thread, in the middle of CFGCenterInner::update_callback,   *)
(* and may call the interface too, but not create_namespace: that would    *)
(* wait for a mutex its own thread holds.  Null arguments abort (assert!)  *)
(* and are not passed.  Loads and queries are atomic (CFGCenter).          *)
(*                                                                         *)
(* A result is put together and taken apart string by string (work).  No   *)
(* other thread can reach those blocks before the conversion has returned  *)
(* or after free_config_values was called, so that its calls commute with  *)
(* the steps of a conversion or a Drop: they wait until these are through. *)
(***************************************************************************)
EXTENDS Naturals, Sequences

CONSTANTS
  Threads,      \* application threads
  Watcher,      \* the watcher thread of the storage backend
  Configs,      \* arguments of new_config_center_client: [json, type, fields]
  Names,        \* namespace names
  Namespaces,   \* NamespaceScopedCFGCenter objects, one per create call
  WhoAmIs,      \* WhoAmI objects
  ResultIds,    \* addresses of ConfigValues objects
  MaxValues,    \* bound: values in one result
  NulFields,    \* strings of a value that can hold a NUL byte
  Messages,     \* texts of errors
  NulMessages,  \* those that hold a NUL byte
  NoNamespace, NoCall, NoError

Callers == Threads \cup {Watcher}
ReasonFields == {"rule_path", "link_path", "res_path"}
ValueFields  == {"content_type", "key", "value"}

ASSUME CallersAssumption == Watcher \notin Threads
ASSUME ObjectsAssumption == NoNamespace \notin Namespaces
ASSUME ValuesAssumption ==
  MaxValues \in Nat /\ NulFields \subseteq ReasonFields \cup ValueFields
ASSUME MessagesAssumption == NulMessages \subseteq Messages /\ NoError \notin Messages

VARIABLES
  center,       \* the Box<CFGCenter>: "none", "held" by the application or "freed"
  inner,        \* strong count of the Arc<CFGCenterInner>
  map,          \* CFGCenterInner.namespaces: name -> object
  created,      \* the objects made so far
  strong,       \* strong counts of their Arcs
  held,         \* namespace pointers the application has not freed
  updating,     \* object whose callback the watcher thread is running
  whoamis,      \* WhoAmI boxes
  results,      \* ConfigValues the application has: address -> [len, explain]
  heap,         \* blocks of memory behind results: <<address, index, field>>
  work,         \* conversion or Drop going on: [kind, thread, addr, explain, len, i, k]
  failed,       \* history: conversions that failed, and where: [addr, explain, i, k]
  call,         \* get_config or differ_get_from_* going on: [ns, whoami, explain]
  last_error,   \* LAST_ERROR.msg, one per thread
  exposed,      \* LAST_ERROR.exposed_error: what the pointer given out shows
  why           \* history: the error that the last call of a thread ended with

\* No conversion and no Drop is going on.
NoWork == [kind |-> "none"]

nsVars    == <<map, created, strong, held>>
valueVars == <<results, heap, work, failed>>
errVars   == <<last_error, exposed, why>>
vars == <<center, inner, nsVars, updating, whoamis, valueVars, call, errVars>>

Init ==
  /\ center = "none" /\ inner = 0
  /\ map = [n \in Names |-> NoNamespace]
  /\ created = {} /\ strong = [o \in Namespaces |-> 0] /\ held = {}
  /\ updating = NoNamespace
  /\ whoamis = {}
  /\ results = [v \in {} |-> 0] /\ heap = {} /\ work = NoWork /\ failed = {}
  /\ call = [t \in Callers |-> NoCall]
  /\ last_error = [t \in Callers |-> NoError]
  /\ exposed = [t \in Callers |-> NoError]
  /\ why = [t \in Callers |-> NoError]

-----------------------------------------------------------------------------
\* A thread can make a call; the watcher's only from inside the callback.
Ready(t) == call[t] = NoCall /\ work = NoWork /\ (t = Watcher => updating # NoNamespace)

\* Faulty variant: one error for all threads.
set_last_error_global(t, e) == last_error' = [u \in Callers |-> e]

set_last_error(t, e) == last_error' = [last_error EXCEPT ![t] = e]

\* The call of thread t ends well: LAST_ERROR keeps what it had.
Succeeds(t) == why' = [why EXCEPT ![t] = NoError] /\ UNCHANGED <<last_error, exposed>>

\* It returns a null pointer.
Fails(t, e) == why' = [why EXCEPT ![t] = e] /\ set_last_error(t, e) /\ UNCHANGED exposed

\* CString::new(..).unwrap_or_default(): a text with a NUL byte comes out empty.
CStringOrDefault(e) == IF e \in NulMessages THEN NoError ELSE e

\* The message is copied to where the pointer that is returned points.
get_last_error(t) ==
  /\ Ready(t)
  /\ exposed' = [exposed EXCEPT ![t] = CStringOrDefault(last_error[t])]
  /\ UNCHANGED <<center, inner, nsVars, updating, whoamis, valueVars, call, last_error, why>>

(***************************************************************************)
(* new_config_center_client.  A GitBackend can fail to be made, and so can *)
(* a CFGCenter on either backend (CFGCenter::new).  The update callback    *)
(* that the backend is given keeps a second Arc.                           *)
(***************************************************************************)
build_storage_backend_from_cfg(cfg) ==
  /\ "type" \in cfg.fields
  /\ \/ cfg.type = "filesystem" /\ "path" \in cfg.fields
     \/ /\ cfg.type = "git-normal"
        /\ {"local_repo_path", "remote_repo_url", "target_branch_name"} \subseteq cfg.fields

new_config_center_client(t, cfg) ==
  /\ Ready(t) /\ center = "none"
  /\ \/ /\ cfg.json /\ "storage_backend" \in cfg.fields
        /\ build_storage_backend_from_cfg(cfg)
        /\ center' = "held" /\ inner' = 2
        /\ Succeeds(t)
     \/ (\E e \in Messages : Fails(t, e)) /\ UNCHANGED <<center, inner>>
  /\ UNCHANGED <<nsVars, updating, whoamis, valueVars, call>>

free_config_center(t) ==
  /\ Ready(t) /\ center = "held"
  /\ center' = "freed" /\ inner' = inner - 1
  /\ UNCHANGED <<nsVars, updating, whoamis, valueVars, call, errVars>>

-----------------------------------------------------------------------------
\* Faulty variant: the pointer does not count as a reference.
ArcsWithoutRaw(o, n) ==
  [p \in Namespaces |-> IF p = o THEN 1 ELSE IF p = map[n] THEN strong[p] - 1 ELSE strong[p]]

\* The Arcs after object o took its place in the map: one there, one behind the
\* pointer (Arc::into_raw); the object that was there before loses one.
ArcsAfterInsert(o, n) ==
  [p \in Namespaces |-> IF p = o THEN 2 ELSE IF p = map[n] THEN strong[p] - 1 ELSE strong[p]]

\* The insert waits for the update_callback that holds `namespaces`.
create_namespace(t, o, n) ==
  /\ Ready(t) /\ t # Watcher /\ center = "held" /\ updating = NoNamespace
  /\ o \notin created
  /\ \/ /\ map' = [map EXCEPT ![n] = o]
        /\ created' = created \cup {o}
        /\ strong' = ArcsAfterInsert(o, n)
        /\ held' = held \cup {o}
        /\ Succeeds(t)
     \/ (\E e \in Messages : Fails(t, e)) /\ UNCHANGED nsVars
  /\ UNCHANGED <<center, inner, updating, whoamis, valueVars, call>>

InUse(o, w) == \E t \in Callers : call[t] # NoCall /\ (call[t].ns = o \/ call[t].whoami = w)

free_namespace(t, o) ==
  /\ Ready(t) /\ o \in held /\ ~InUse(o, NoCall)
  /\ held' = held \ {o}
  /\ strong' = [strong EXCEPT ![o] = @ - 1]
  /\ UNCHANGED <<center, inner, map, created, updating, whoamis, valueVars, call, errVars>>

new_whoami(t, w) ==
  /\ Ready(t) /\ w \notin whoamis
  /\ whoamis' = whoamis \cup {w}
  /\ Succeeds(t)
  /\ UNCHANGED <<center, inner, nsVars, updating, valueVars, call>>

free_whoami(t, w) ==
  /\ Ready(t) /\ w \in whoamis /\ ~InUse(NoNamespace, w)
  /\ whoamis' = whoamis \ {w}
  /\ UNCHANGED <<center, inner, nsVars, updating, valueVars, call, errVars>>

-----------------------------------------------------------------------------
(***************************************************************************)
(* External: update_callback of CFGCenterInner calls the callback of a     *)
(* namespace it finds in the map, with both mutexes held; the Arc in the   *)
(* backend's closure lets it go on after free_config_center.               *)
(***************************************************************************)
UpdateBegin(n) ==
  /\ inner > 0 /\ updating = NoNamespace /\ map[n] # NoNamespace /\ work = NoWork
  /\ updating' = map[n]
  /\ UNCHANGED <<center, inner, nsVars, whoamis, valueVars, call, errVars>>

UpdateEnd ==
  /\ updating # NoNamespace /\ call[Watcher] = NoCall /\ work = NoWork
  /\ updating' = NoNamespace
  /\ UNCHANGED <<center, inner, nsVars, whoamis, valueVars, call, errVars>>

-----------------------------------------------------------------------------
\* All keys are UTF-8: the call goes on to the query.
convert_get_cfg_input_value(t, c) == call' = [call EXCEPT ![t] = c] /\ UNCHANGED errVars

(***************************************************************************)
(* get_config, and differ_get_from_old and differ_get_from_new, which      *)
(* differ from it in where the query goes.  A key that is not UTF-8 ends   *)
(* the call before it; the query itself does not fail.                     *)
(***************************************************************************)
ByDiffer(t, o) == t = Watcher /\ o = updating

get_config(t, o, w, explain) ==
  /\ Ready(t) /\ w \in whoamis
  /\ o \in held \/ ByDiffer(t, o)
  /\ \/ convert_get_cfg_input_value(t, [ns |-> o, whoami |-> w, explain |-> explain])
     \/ (\E e \in Messages \ NulMessages : Fails(t, e)) /\ UNCHANGED call
  /\ UNCHANGED <<center, inner, nsVars, updating, whoamis, valueVars>>

(***************************************************************************)
(* The blocks of value i of the result at address v are <<v, i, field>>.   *)
(* They are allocated in the order of Fields and released in that of       *)
(* DropValue: a value's three strings, then the box of its reason, whose   *)
(* own Drop comes before the box itself is given back.                     *)
(***************************************************************************)
Fields(explain) ==
  IF explain
  THEN <<"rule_path", "link_path", "res_path", "reason", "content_type", "key", "value">>
  ELSE <<"content_type", "key", "value">>

\* Faulty variant: Drop for ConfigValueReason forgets a path.
DropReasonTwo == <<"link_path", "rule_path", "reason">>

DropReason == <<"link_path", "rule_path", "res_path", "reason">>

\* Faulty variant: Drop for ConfigValue releases a path of the reason as well.
DropValueAndPath(explain) ==
  <<"key", "content_type", "value">> \o (IF explain THEN <<"link_path">> \o DropReason ELSE <<>>)

DropValue(explain) ==
  <<"key", "content_type", "value">> \o (IF explain THEN DropReason ELSE <<>>)

\* The buffer of a Vec, which an empty one does not have.
Array(v, len) == IF len = 0 THEN {} ELSE {<<v, 0, "array">>}
Box(v) == <<v, 0, "box">>

\* On to the next of n fields, or to the first field of the next value.
Advance(w, n) ==
  IF w.k < n THEN [w EXCEPT !.k = @ + 1] ELSE [w EXCEPT !.i = @ + 1, !.k = 1]

\* Vec::with_capacity for the len values that the query found.
convert_get_cfg_output_value(t) ==
  /\ call[t] # NoCall /\ work = NoWork
  /\ \E v \in ResultIds, len \in 0 .. MaxValues :
       /\ \A b \in heap : b[1] # v
       /\ heap' = heap \cup Array(v, len)
       /\ work' = [kind |-> "convert", thread |-> t, addr |-> v, explain |-> call[t].explain,
                   len |-> len, i |-> 1, k |-> 1]
  /\ UNCHANGED <<center, inner, nsVars, updating, whoamis, results, failed, call, errVars>>

Converting == work.kind = "convert"
Dropping   == work.kind \in {"unwind", "free"}

\* The next string, or the box of the reason: into_raw takes it out of Rust's hands.
ConvertField ==
  /\ Converting /\ work.i <= work.len
  /\ heap' = heap \cup {<<work.addr, work.i, Fields(work.explain)[work.k]>>}
  /\ work' = Advance(work, Len(Fields(work.explain)))
  /\ UNCHANGED <<center, inner, nsVars, updating, whoamis, results, failed, call, errVars>>

\* A NUL byte: `?` leaves the function, which drops the values pushed so far.
ConvertNul ==
  /\ Converting /\ work.i <= work.len
  /\ Fields(work.explain)[work.k] \in NulFields
  /\ failed' = failed \cup {[addr |-> work.addr, explain |-> work.explain,
                             i |-> work.i, k |-> work.k]}
  /\ work' = [work EXCEPT !.kind = "unwind", !.len = work.i - 1, !.i = 1, !.k = 1]
  /\ UNCHANGED <<center, inner, nsVars, updating, whoamis, results, heap, call, errVars>>

\* All values are there: the application gets a ConfigValues.
ConvertEnd ==
  /\ Converting /\ work.i > work.len
  /\ heap' = heap \cup {Box(work.addr)}
  /\ results' = [u \in DOMAIN results \cup {work.addr} |->
                   IF u = work.addr THEN [len |-> work.len, explain |-> work.explain]
                                    ELSE results[u]]
  /\ work' = NoWork
  /\ call' = [call EXCEPT ![work.thread] = NoCall]
  /\ Succeeds(work.thread)
  /\ UNCHANGED <<center, inner, nsVars, updating, whoamis, failed>>

free_config_values(t, v) ==
  /\ Ready(t) /\ v \in DOMAIN results
  /\ results' = [u \in DOMAIN results \ {v} |-> results[u]]
  /\ work' = [kind |-> "free", thread |-> t, addr |-> v, explain |-> results[v].explain,
              len |-> results[v].len, i |-> 1, k |-> 1]
  /\ UNCHANGED <<center, inner, nsVars, updating, whoamis, heap, failed, call, errVars>>

\* What the running Drop gives back next: a field of a value, and after the values
\* the Vec's buffer, then the box of the ConfigValues.
Releases(w) ==
  IF w.i <= w.len THEN {<<w.addr, w.i, DropValue(w.explain)[w.k]>>}
  ELSE IF w.kind = "free" THEN Array(w.addr, w.len) \cup {Box(w.addr)}
  ELSE {<<w.addr, 0, "array">>}

DropField ==
  /\ Dropping /\ work.i <= work.len
  /\ heap' = heap \ Releases(work)
  /\ work' = Advance(work, Len(DropValue(work.explain)))
  /\ UNCHANGED <<center, inner, nsVars, updating, whoamis, results, failed, call, errVars>>

\* free_config_values returns, or the call whose conversion failed.
DropEnd ==
  /\ Dropping /\ work.i > work.len
  /\ heap' = heap \ Releases(work)
  /\ work' = NoWork
  /\ \/ work.kind = "free" /\ UNCHANGED <<call, errVars>>
     \/ /\ work.kind = "unwind"
        /\ call' = [call EXCEPT ![work.thread] = NoCall]
        /\ \E e \in Messages \ NulMessages : Fails(work.thread, e)
  /\ UNCHANGED <<center, inner, nsVars, updating, whoamis, results, failed>>

Next ==
  \/ \E t \in Callers :
       \/ \E cfg \in Configs : new_config_center_client(t, cfg)
       \/ free_config_center(t) \/ get_last_error(t)
       \/ \E o \in Namespaces :
            \/ \E n \in Names : create_namespace(t, o, n)
            \/ free_namespace(t, o)
            \/ \E w \in WhoAmIs, explain \in BOOLEAN : get_config(t, o, w, explain)
       \/ \E w \in WhoAmIs : new_whoami(t, w) \/ free_whoami(t, w)
       \/ convert_get_cfg_output_value(t)
       \/ \E v \in ResultIds : free_config_values(t, v)
  \/ \E n \in Names : UpdateBegin(n)
  \/ UpdateEnd
  \/ ConvertField \/ ConvertNul \/ ConvertEnd
  \/ DropField \/ DropEnd

Spec == Init /\ [][Next]_vars

-----------------------------------------------------------------------------
\* Pointers, counts and errors have the types of the objects they stand for.
TypeOK ==
  /\ center \in {"none", "held", "freed"} /\ inner \in 0 .. 2
  /\ map \in [Names -> Namespaces \cup {NoNamespace}]
  /\ held \subseteq created /\ created \subseteq Namespaces
  /\ strong \in [Namespaces -> 0 .. 2]
  /\ updating \in Namespaces \cup {NoNamespace}
  /\ whoamis \subseteq WhoAmIs
  /\ DOMAIN results \subseteq ResultIds
  /\ work.kind # "none" => work.thread \in Callers /\ work.addr \in ResultIds
  /\ \A t \in Callers : call[t] # NoCall => call[t].whoami \in whoamis

(***************************************************************************)
(* A namespace lives exactly as long as somebody can get at it: through    *)
(* a pointer not yet freed, through the map, or as the one whose callback  *)
(* or query is running.  A second create of the same name, free_namespace, *)
(* queries and updates come in any order; none of them may leave a pointer *)
(* to a dropped object or an object nobody can drop.  CFGCenterInner lives *)
(* on with the watcher thread.                                             *)
(***************************************************************************)
PointersValid ==
  /\ center # "none" => inner > 0
  /\ \A o \in created :
       strong[o] > 0 <=> o \in held \/ \E n \in Names : map[n] = o
  /\ updating # NoNamespace => strong[updating] > 0
  /\ \A t \in Callers : call[t] # NoCall => strong[call[t].ns] > 0

(***************************************************************************)
(* A thread whose last call returned a null pointer and that asks for the  *)
(* error gets the error of that very call, whatever calls and callbacks on *)
(* other threads have failed in between, or an empty text if the error has *)
(* a NUL byte in it; and what it has been shown stays until it asks again, *)
(* even if another call of its own fails.                                  *)
(***************************************************************************)
NullIsExplained ==
  [][\A t \in Callers :
       /\ get_last_error(t) /\ why[t] # NoError =>
            exposed'[t] = IF why[t] \in NulMessages THEN NoError ELSE why[t]
       /\ exposed'[t] # exposed[t] => get_last_error(t)]_vars

\* The blocks of a result that the application has.
BlocksOf(v, r) ==
  Array(v, r.len) \cup {Box(v)}
    \cup {<<v, i, Fields(r.explain)[k]>> : i \in 1 .. r.len, k \in DOMAIN Fields(r.explain)}

\* The fields of the value at which a conversion failed that were raw pointers by then.
LeftBy(f) == {<<f.addr, f.i, Fields(f.explain)[m]>> : m \in 1 .. f.k - 1}

(***************************************************************************)
(* Memory behind query results.  Once conversions and Drops are through,   *)
(* what is allocated are the blocks of the results in the application's    *)
(* hands and, for every conversion that failed, the fields of the value it *)
(* failed at that were raw pointers by then: the values before it have     *)
(* been released, and so has all of every result that was freed.           *)
(***************************************************************************)
HeapAccounted ==
  work = NoWork =>
    heap = (UNION {BlocksOf(v, results[v]) : v \in DOMAIN results})
             \cup (UNION {LeftBy(f) : f \in failed})

(***************************************************************************)
(* The Drops of ConfigValues, ConfigValue and ConfigValueReason, nested in *)
(* each other and run for a result that is freed as well as for values     *)
(* that a failed conversion gives up, release only blocks that are still   *)
(* allocated: none twice, and none that was never made.                    *)
(***************************************************************************)
ReleasesAllocated == Dropping => Releases(work) \subseteq heap
=============================================================================

---------------------------- MODULE GoNamespace -----------------------------
(***************************************************************************)
(* Namespace of the Go binding (bindings/go/eafcc.go): an LRU cache in     *)
(* front of one NamespaceScopedCFGCenter of the Rust library, whose update *)
(* callback empties the cache.  Rust calls back first and replaces its     *)
(* store afterwards (namespace.rs), and GetCfg goes to Rust without the    *)
(* lock on the cache.  The callback holds that lock all along; the user's  *)
(* updateCB may query the Differ and returns.                              *)
(*                                                                         *)
(* One step is what happens under one hold of ns.RWMutex, or one call into *)
(* Rust, which is atomic for its callers (AtomicView of CFGCenter).  All   *)
(* queries are for one whoami, view mode and needExplain, so that a cache  *)
(* key is a key.  A value is the number of the version it comes from.      *)
(* lru.Cache.Get reorders the list under the read lock; two of them at the *)
(* same time are a data race, which is outside this model: the reads of    *)
(* different getters do not overlap here.                                  *)
(***************************************************************************)
EXTENDS Naturals, Sequences, FiniteSets, SequencesExt

CONSTANTS
  Getters,      \* goroutines calling GetCfg
  Keys,
  Unset,        \* keys without a value in any version
  Queries,      \* key lists a caller can ask for
  CacheSizes,   \* cacheSize arguments of CreateNamespace; 0 means no limit
  MaxVersion    \* bound: number of updates

ASSUME KeysAssumption ==
  IsFiniteSet(Keys) /\ Unset \subseteq Keys /\ Queries \subseteq Seq(Keys)
ASSUME BoundsAssumption == CacheSizes \subseteq Nat /\ MaxVersion \in Nat

VARIABLES
  \* the Rust side
  store,        \* version that current_memstore holds
  upd,          \* update_callback of the handle: "idle", "callback" (in Go) or "swap"
  \* CreateNamespace
  ns,           \* "none", "created" by Rust, "put" into the instance storage
  \* Namespace
  cacheSize,
  cache,        \* lru.Cache: the entries, the most recently used one first
  \* GetCfg, per getter
  pc,           \* "idle", "raw", "fill" or "reread"
  asked,        \* the key list of the call
  missing,      \* missingKeys
  fetched,      \* what Rust answered: key -> version
  answer,       \* what the last call returned: key -> version
  overlapped    \* history: has an update run while a GetCfg was going on?

updateVars == <<store, upd>>
nsVars     == <<ns, cacheSize>>
callVars   == <<asked, missing, fetched, answer>>
vars == <<updateVars, nsVars, cache, pc, callVars, overlapped>>

\* An update or a call begins while calls, or an update, are going on.
Overlaps(condition) == overlapped' = (overlapped \/ condition)

Empty == [k \in {} |-> 0]

Init ==
  /\ store = 0 /\ upd = "idle"
  /\ ns = "none"
  /\ cacheSize = 0 /\ cache = <<>>
  /\ pc = [g \in Getters |-> "idle"]
  /\ asked = [g \in Getters |-> <<>>]
  /\ missing = [g \in Getters |-> {}]
  /\ fetched = [g \in Getters |-> Empty]
  /\ answer = [g \in Getters |-> Empty]
  /\ overlapped = FALSE

-----------------------------------------------------------------------------
(***************************************************************************)
(* External: groupcache/lru.  Get and Add of a key move its entry to the   *)
(* front; Add then drops the oldest entry beyond the limit.  The cache     *)
(* after a list of them is given by the order of the last uses: dropping   *)
(* the oldest entry after each Add leaves what dropping all the oldest     *)
(* ones at the end does.                                                   *)
(***************************************************************************)
Cached(c, k)  == \E i \in DOMAIN c : c[i].key = k
EntryOf(c, k) == c[CHOOSE i \in DOMAIN c : c[i].key = k]

\* Once the keys of q have been used in turn, j was used after k.
UsedAfter(c, q, j, k) ==
  \/ \E m \in DOMAIN q : q[m] = j /\ \A n \in DOMAIN q : q[n] = k => n < m
  \/ /\ j \notin ToSet(q) /\ k \notin ToSet(q)
     /\ \E m, n \in DOMAIN c : m < n /\ c[m].key = j /\ c[n].key = k

\* The entries of E, the most recently used one first.
Recent(E, c, q) ==
  {t \in [1 .. Cardinality(E) -> E] :
     ToSet(t) = E /\ \A i, j \in DOMAIN t : i < j => UsedAfter(c, q, t[i].key, t[j].key)}

\* Faulty variant: nothing is ever dropped.
KeptAll(t) == t

\* What the limit leaves.
Kept(t) == IF cacheSize # 0 /\ Len(t) > cacheSize THEN SubSeq(t, 1, cacheSize) ELSE t

-----------------------------------------------------------------------------
\* C.create_namespace returns: from here on Rust calls back.
CreateNamespace ==
  /\ ns = "none"
  /\ ns' = "created"
  /\ cacheSize' \in CacheSizes
  /\ UNCHANGED <<updateVars, cache, pc, callVars, overlapped>>

\* The instance is put where update_cb_go finds it, and handed to the caller.
Put ==
  /\ ns = "created"
  /\ ns' = "put"
  /\ UNCHANGED <<updateVars, cacheSize, cache, pc, callVars, overlapped>>

\* Faulty variant: the cache is left alone.
CacheKept == cache

\* lru.New.
NewCache == <<>>

(***************************************************************************)
(* NamespaceScopedCFGCenter::update_callback has a new MemStorage.  It     *)
(* calls update_cb_go, which locks and empties an instance it finds.       *)
(***************************************************************************)
UpdateCb ==
  /\ ns # "none" /\ upd = "idle" /\ store < MaxVersion
  /\ IF ns = "put"
     THEN cache' = NewCache /\ upd' = "callback"
     ELSE UNCHANGED cache /\ upd' = "swap"
  /\ Overlaps(\E g \in Getters : pc[g] # "idle")
  /\ UNCHANGED <<store, nsVars, pc, callVars>>

\* Faulty variant: the lock is not let go of.
StillLocked == "callback"

\* The deferred Unlock.
Unlocked == "swap"

\* updateCB has returned.
UpdateCbReturn ==
  /\ upd = "callback" /\ upd' = Unlocked
  /\ UNCHANGED <<store, nsVars, cache, pc, callVars, overlapped>>

\* Back in Rust, current_memstore is replaced.
Swap ==
  /\ upd = "swap"
  /\ store' = store + 1
  /\ upd' = "idle"
  /\ UNCHANGED <<nsVars, cache, pc, callVars, overlapped>>

-----------------------------------------------------------------------------
\* batchReadFromCache: the values found, the keys not found, the list reordered.
Found(q)     == {k \in ToSet(q) : Cached(cache, k)}
Values(ks)   == [k \in ks |-> EntryOf(cache, k).ver]
Reordered(q) == cache' \in Recent(ToSet(cache), cache, q)

\* Getter g goes on with the lock on ns, or needs none.
CanLock == upd # "callback"
Step(g, from, to) ==
  pc[g] = from /\ pc' = [pc EXCEPT ![g] = to] /\ UNCHANGED <<updateVars, nsVars>>

\* GetCfg, answered from the cache alone.
GetHit(g, q) ==
  /\ ns = "put" /\ CanLock /\ Step(g, "idle", "idle")
  /\ Found(q) = ToSet(q)
  /\ Reordered(q)
  /\ asked' = [asked EXCEPT ![g] = q]
  /\ answer' = [answer EXCEPT ![g] = Values(Found(q))]
  /\ Overlaps(upd # "idle")
  /\ UNCHANGED <<missing, fetched>>

\* GetCfg with keys that are not in the cache.
GetMiss(g, q) ==
  /\ ns = "put" /\ CanLock /\ Step(g, "idle", "raw")
  /\ Found(q) # ToSet(q)
  /\ Reordered(q)
  /\ asked' = [asked EXCEPT ![g] = q]
  /\ missing' = [missing EXCEPT ![g] = ToSet(q) \ Found(q)]
  /\ Overlaps(upd # "idle")
  /\ UNCHANGED <<fetched, answer>>

\* convertGetCFGOutput groups the values by key; a key without one is left out.
Output(ks) == [k \in ks \ Unset |-> store]

(***************************************************************************)
(* GetCfgRawNoCache: Rust answers from the store of the moment.  The error *)
(* returns of convertGetCFGInput are never taken: some key is missing, and *)
(* new_whoami always makes one.                                            *)
(***************************************************************************)
RawGet(g) ==
  /\ Step(g, "raw", "fill")
  /\ fetched' = [fetched EXCEPT ![g] = Output(missing[g])]
  /\ UNCHANGED <<cache, asked, missing, answer, overlapped>>

\* The entries of what was fetched, and those of the other keys.
Added(g)  == {[key |-> k, ver |-> fetched[g][k]] : k \in DOMAIN fetched[g]}
Others(g) == {e \in ToSet(cache) : e.key \notin DOMAIN fetched[g]}

\* What was fetched goes into the cache of now, in the order of a Go map.
Fill(g) ==
  /\ CanLock /\ Step(g, "fill", "reread")
  /\ \E order \in SetToSeqs(DOMAIN fetched[g]) :
       \E t \in Recent(Added(g) \cup Others(g), cache, order) : cache' = Kept(t)
  /\ UNCHANGED <<callVars, overlapped>>

\* Faulty variant: only the keys that were missing are read again.
FoundMissing(g) == Found(asked[g]) \cap missing[g]

\* The full key list is read again.
FoundAgain(g) == Found(asked[g])

\* What is found is the answer.
Reread(g) ==
  /\ CanLock /\ Step(g, "reread", "idle")
  /\ Reordered(asked[g])
  /\ answer' = [answer EXCEPT ![g] = Values(FoundAgain(g))]
  /\ missing' = [missing EXCEPT ![g] = {}] /\ fetched' = [fetched EXCEPT ![g] = Empty]
  /\ UNCHANGED <<asked, overlapped>>

UpdateStep == UpdateCbReturn \/ Swap
GetStep(g) == RawGet(g) \/ Fill(g) \/ Reread(g)

Next ==
  \/ CreateNamespace \/ Put
  \/ UpdateCb \/ UpdateStep
  \/ \E g \in Getters :
       \/ \E q \in Queries : GetHit(g, q) \/ GetMiss(g, q)
       \/ GetStep(g)

Spec == Init /\ [][Next]_vars

\* Rust and the goroutines keep running, and updateCB returns; nobody has to call or update.
FairSpec == Spec /\ WF_vars(UpdateStep) /\ \A g \in Getters : WF_vars(GetStep(g))

-----------------------------------------------------------------------------
\* The cache and the calls have the types and the size the code gives them, and a
\* key has one entry.
TypeOK ==
  /\ store \in 0 .. MaxVersion /\ upd \in {"idle", "callback", "swap"}
  /\ ns \in {"none", "created", "put"}
  /\ \A i \in DOMAIN cache : cache[i].key \in Keys /\ cache[i].ver \in 0 .. MaxVersion
  /\ \A i, j \in DOMAIN cache : cache[i].key = cache[j].key => i = j
  /\ cacheSize # 0 => Len(cache) <= cacheSize
  /\ \A g \in Getters :
       /\ pc[g] \in {"idle", "raw", "fill", "reread"}
       /\ missing[g] \subseteq Keys
       /\ DOMAIN fetched[g] \subseteq Keys /\ DOMAIN answer[g] \subseteq Keys

(***************************************************************************)
(* GetCfg: "we have to ensure that the returned value is from the same     *)
(* config version" (eafcc.go).  All values of one answer have one version. *)
(***************************************************************************)
OneVersion ==
  \A g \in Getters : \A j, k \in DOMAIN answer[g] : answer[g][j] = answer[g][k]

\* That holds as long as no update runs during a GetCfg, however the calls overlap.
OneVersionWhenQuiet == ~overlapped => OneVersion

\* The cache has room for every key that has a value.
Roomy == cacheSize = 0 \/ Cardinality(Keys \ Unset) <= cacheSize

(***************************************************************************)
(* With a cache that has no limit, or room for all keys, an answer has     *)
(* every key that was asked for and has a value; the tests of the binding  *)
(* index the answer without looking.  A smaller cache can lose keys        *)
(* between the fill and the second read, and so can an update.             *)
(***************************************************************************)
Complete ==
  Roomy /\ ~overlapped =>
    \A g \in Getters :
      pc[g] = "idle" => ToSet(asked[g]) \ Unset \subseteq DOMAIN answer[g]

(***************************************************************************)
(* Between updates the cache holds nothing older than what Rust serves:    *)
(* calling back before the store is replaced, or before the instance can   *)
(* be found, leaves nothing behind as long as no GetCfg runs meanwhile.    *)
(***************************************************************************)
CacheIsServed ==
  upd = "idle" /\ ~overlapped => \A i \in DOMAIN cache : cache[i].ver = store

(***************************************************************************)
(* Every GetCfg returns, whatever updates come in its way: nobody keeps    *)
(* the lock on the namespace, given that updateCB returns.                 *)
(***************************************************************************)
GetReturns == \A g \in Getters : pc[g] # "idle" ~> pc[g] = "idle"
=============================================================================

------------------------- MODULE GoNamespaceProofs --------------------------
(***************************************************************************)
(* The safety properties of GoNamespace, for any number of goroutines,     *)
(* keys, key lists, cache sizes and updates.                               *)
(***************************************************************************)
EXTENDS GoNamespace, FiniteSetTheorems, SequenceTheorems, TLAPS

Entry == [key : Keys, ver : 0 .. MaxVersion]

\* No key has two entries.
Distinct(c) == \A i, j \in DOMAIN c : c[i].key = c[j].key => i = j

TypeInv ==
  /\ store \in 0 .. MaxVersion /\ upd \in {"idle", "callback", "swap"}
  /\ upd # "idle" => store < MaxVersion
  /\ ns \in {"none", "created", "put"} /\ cacheSize \in Nat
  /\ overlapped \in BOOLEAN
  /\ pc \in [Getters -> {"idle", "raw", "fill", "reread"}]
  /\ asked \in [Getters -> Seq(Keys)]
  /\ missing \in [Getters -> SUBSET Keys]
  /\ DOMAIN fetched = Getters /\ DOMAIN answer = Getters
  /\ \A g \in Getters : DOMAIN answer[g] \subseteq Keys

CacheInv ==
  /\ cache \in Seq(Entry) /\ Distinct(cache)
  /\ cacheSize # 0 => Len(cache) <= cacheSize
  /\ \A e \in ToSet(cache) : e.key \notin Unset

\* What a call keeps at each place; nobody calls before the instance is put.
CallInv ==
  /\ ns = "none" => cacheSize = 0
  /\ ns # "put" => cache = <<>>
  /\ \A g \in Getters :
       /\ ns # "put" => pc[g] = "idle"
       /\ pc[g] = "idle" => missing[g] = {}
       /\ missing[g] \subseteq ToSet(asked[g])
       /\ pc[g] \in {"idle", "raw"} => DOMAIN fetched[g] = {}
       /\ pc[g] \in {"fill", "reread"} => DOMAIN fetched[g] = missing[g] \ Unset
       /\ \A k \in DOMAIN fetched[g] : fetched[g][k] \in 0 .. MaxVersion

\* As long as no update meets a call, all there is comes from what Rust serves now.
QuietInv ==
  ~overlapped =>
    /\ upd # "idle" => cache = <<>> /\ \A g \in Getters : pc[g] = "idle"
    /\ \A e \in ToSet(cache) : e.ver = store
    /\ \A g \in Getters : \A k \in DOMAIN fetched[g] : fetched[g][k] = store
    /\ OneVersion

\* With room for all, a key stays in the cache from the time it is found or filled.
KeysInv ==
  Roomy /\ ~overlapped =>
    \A g \in Getters :
      /\ pc[g] = "idle" => ToSet(asked[g]) \ Unset \subseteq DOMAIN answer[g]
      /\ pc[g] \in {"raw", "fill"} => \A k \in ToSet(asked[g]) \ missing[g] : Cached(cache, k)
      /\ pc[g] = "reread" => \A k \in ToSet(asked[g]) \ Unset : Cached(cache, k)

Inv == TypeInv /\ CacheInv /\ CallInv /\ QuietInv /\ KeysInv

-----------------------------------------------------------------------------
(***************************************************************************)
(* The cache.                                                              *)
(***************************************************************************)

\* A list has finitely many elements, no more than its length.
LEMMA FiniteElements ==
  ASSUME NEW S, NEW s \in Seq(S)
  PROVE  /\ IsFiniteSet(ToSet(s)) /\ ToSet(s) \subseteq S
         /\ Cardinality(ToSet(s)) \in Nat /\ Cardinality(ToSet(s)) <= Len(s)
<1>1. Len(s) \in Nat /\ DOMAIN s = 1 .. Len(s) /\ s = [i \in 1 .. Len(s) |-> s[i]]
  OBVIOUS
<1>2. s \in Surjection(1 .. Len(s), ToSet(s))
  <2>1. ToSet(s) = {s[i] : i \in 1 .. Len(s)}
    BY <1>1 DEF ToSet
  <2>2. s \in [1 .. Len(s) -> ToSet(s)]
    BY <1>1, <2>1
  <2> QED
    BY <2>1, <2>2 DEF Surjection
<1>3. IsFiniteSet(1 .. Len(s)) /\ Cardinality(1 .. Len(s)) = Len(s)
  <2>1. /\ IsFiniteSet(1 .. Len(s))
        /\ Cardinality(1 .. Len(s)) = IF 1 > Len(s) THEN 0 ELSE Len(s) - 1 + 1
    <3>1. 1 \in Int /\ Len(s) \in Int
      BY <1>1
    <3> QED
      BY <3>1, FS_Interval
  <2> QED
    BY <1>1, <2>1
<1>4. IsFiniteSet(ToSet(s)) /\ Cardinality(ToSet(s)) <= Len(s)
  BY <1>2, <1>3, FS_Surjection
<1>5. Cardinality(ToSet(s)) \in Nat
  BY <1>4, FS_CardinalityType
<1> QED
  BY <1>1, <1>4, <1>5 DEF ToSet

\* No key was used after itself.
LEMMA UsedAfterIrreflexive ==
  ASSUME NEW c \in Seq(Entry), Distinct(c), NEW q \in Seq(Keys), NEW k,
         UsedAfter(c, q, k, k)
  PROVE  FALSE
BY DEF UsedAfter, Distinct

\* Reordering neither loses, invents nor repeats an entry.
LEMMA RecentProperties ==
  ASSUME NEW c \in Seq(Entry), Distinct(c), NEW q \in Seq(Keys),
         NEW E \in SUBSET Entry, IsFiniteSet(E), NEW t \in Recent(E, c, q)
  PROVE  /\ t \in Seq(Entry) /\ Distinct(t)
         /\ ToSet(t) = E /\ Len(t) = Cardinality(E)
<1>1. Cardinality(E) \in Nat
  BY FS_CardinalityType
<1>2. t \in [1 .. Cardinality(E) -> E] /\ ToSet(t) = E
  BY DEF Recent
<1>3. t \in Seq(Entry) /\ Len(t) = Cardinality(E) /\ DOMAIN t = 1 .. Cardinality(E)
  BY <1>1, <1>2
<1>4. \A i, j \in DOMAIN t : i < j => UsedAfter(c, q, t[i].key, t[j].key)
  BY DEF Recent
<1>5. ASSUME NEW i \in DOMAIN t, NEW j \in DOMAIN t, t[i].key = t[j].key
      PROVE  i = j
  <2>1. i \in Int /\ j \in Int
    BY <1>3, <1>1
  <2>2. ~(i < j) /\ ~(j < i)
    BY <1>4, <1>5, UsedAfterIrreflexive
  <2> QED
    BY <2>1, <2>2
<1> QED
  BY <1>2, <1>3, <1>5 DEF Distinct

\* Entries of different keys that have a value: there are no more of them than keys.
LEMMA FewEntries ==
  ASSUME NEW t \in Seq(Entry), Distinct(t), \A e \in ToSet(t) : e.key \notin Unset
  PROVE  Cardinality(Keys \ Unset) \in Nat /\ Len(t) <= Cardinality(Keys \ Unset)
<1> DEFINE K == Keys \ Unset
           f == [i \in 1 .. Len(t) |-> t[i].key]
<1>1. Len(t) \in Nat /\ DOMAIN t = 1 .. Len(t) /\ \A i \in 1 .. Len(t) : t[i] \in Entry
  OBVIOUS
<1>2. IsFiniteSet(K)
  BY KeysAssumption, FS_Subset
<1>3. f \in Injection(1 .. Len(t), K)
  <2>1. \A i \in 1 .. Len(t) : t[i].key \in K
    BY <1>1 DEF Entry, ToSet
  <2>2. \A i, j \in 1 .. Len(t) : f[i] = f[j] => i = j
    BY <1>1 DEF Distinct
  <2>3. f \in [1 .. Len(t) -> K]
    BY <2>1
  <2> QED
    BY <2>2, <2>3 DEF Injection, IsInjective
<1>4. Cardinality(1 .. Len(t)) <= Cardinality(K)
  BY <1>2, <1>3, FS_Injection
<1>5. Cardinality(1 .. Len(t)) = Len(t)
  <2>1. 1 \in Int /\ Len(t) \in Int
    BY <1>1
  <2>2. Cardinality(1 .. Len(t)) = IF 1 > Len(t) THEN 0 ELSE Len(t) - 1 + 1
    BY <2>1, FS_Interval
  <2> QED
    BY <1>1, <2>2
<1>6. Cardinality(K) \in Nat
  BY <1>2, FS_CardinalityType
<1> QED
  BY <1>4, <1>5, <1>6

\* The limit keeps a part of the list, and all of it when there is room.
LEMMA KeptProperties ==
  ASSUME NEW t \in Seq(Entry), Distinct(t), \A e \in ToSet(t) : e.key \notin Unset,
         cacheSize \in Nat
  PROVE  /\ Kept(t) \in Seq(Entry) /\ Distinct(Kept(t))
         /\ ToSet(Kept(t)) \subseteq ToSet(t)
         /\ Roomy => Kept(t) = t
         /\ cacheSize # 0 => Len(Kept(t)) <= cacheSize
<1>1. CASE cacheSize # 0 /\ Len(t) > cacheSize
  <2> DEFINE u == SubSeq(t, 1, cacheSize)
  <2>1. Len(t) \in Nat /\ DOMAIN t = 1 .. Len(t) /\ \A i \in 1 .. cacheSize : t[i] \in Entry
    BY <1>1
  <2>2. /\ u \in Seq(Entry) /\ Len(u) = cacheSize
        /\ \A i \in 1 .. cacheSize : u[i] = t[i]
    <3>1. /\ u \in Seq(Entry)
          /\ Len(u) = IF 1 <= cacheSize THEN cacheSize - 1 + 1 ELSE 0
          /\ \A i \in 1 .. cacheSize - 1 + 1 : u[i] = t[1 + i - 1]
      BY <2>1, SubSeqProperties DEF u
    <3> QED
      BY <3>1, <1>1
  <2>3. Kept(t) = u
    BY <1>1 DEF Kept
  <2>4. DOMAIN u = 1 .. cacheSize /\ DOMAIN u \subseteq DOMAIN t
    BY <2>1, <2>2, <1>1
  <2>5. Distinct(u) /\ ToSet(u) \subseteq ToSet(t)
    BY <2>1, <2>2, <2>4 DEF Distinct, ToSet
  <2>6. ~Roomy
    <3>1. Cardinality(Keys \ Unset) \in Nat /\ Len(t) <= Cardinality(Keys \ Unset)
      BY FewEntries
    <3> QED
      BY <1>1, <2>1, <3>1 DEF Roomy
  <2> QED
    BY <2>2, <2>3, <2>5, <2>6, <1>1
<1>2. CASE ~(cacheSize # 0 /\ Len(t) > cacheSize)
  BY <1>2 DEF Kept
<1> QED
  BY <1>1, <1>2

\* A key is cached when an entry has it; what is read of it is such an entry's.
LEMMA CachedElements ==
  ASSUME NEW c, NEW k
  PROVE  /\ Cached(c, k) <=> \E e \in ToSet(c) : e.key = k
         /\ Cached(c, k) => EntryOf(c, k) \in ToSet(c)
BY DEF Cached, EntryOf, ToSet

\* A batch of reads leaves every entry in the cache.
LEMMA ReadProperties ==
  ASSUME CacheInv, NEW q \in Seq(Keys), Reordered(q)
  PROVE  /\ cache' \in Seq(Entry) /\ Distinct(cache')
         /\ ToSet(cache') = ToSet(cache) /\ Len(cache') <= Len(cache)
<1>1. cache \in Seq(Entry) /\ Distinct(cache)
  BY DEF CacheInv
<1>2. /\ IsFiniteSet(ToSet(cache)) /\ ToSet(cache) \in SUBSET Entry
      /\ Cardinality(ToSet(cache)) <= Len(cache)
  BY <1>1, FiniteElements
<1>3. cache' \in Recent(ToSet(cache), cache, q)
  BY DEF Reordered
<1> QED
  BY <1>1, <1>2, <1>3, RecentProperties

\* What is fetched are finitely many entries, as are those of the other keys.
LEMMA FilledElements ==
  ASSUME TypeInv, CacheInv, CallInv, NEW g \in Getters
  PROVE  /\ IsFiniteSet(DOMAIN fetched[g]) /\ DOMAIN fetched[g] \subseteq Keys
         /\ IsFiniteSet(Added(g) \cup Others(g)) /\ Added(g) \cup Others(g) \in SUBSET Entry
         /\ pc[g] = "fill" => \A e \in Added(g) \cup Others(g) : e.key \notin Unset
<1> DEFINE D == DOMAIN fetched[g]
<1>1. asked[g] \in Seq(Keys) /\ cache \in Seq(Entry)
  BY DEF TypeInv, CacheInv
<1>2. D \subseteq ToSet(asked[g])
  BY DEF TypeInv, CallInv
<1>3. IsFiniteSet(D) /\ D \subseteq Keys
  BY <1>1, <1>2, FiniteElements, FS_Subset
<1>4. IsFiniteSet(Added(g))
  <2> DEFINE f == [k \in D |-> [key |-> k, ver |-> fetched[g][k]]]
  <2>1. f \in Surjection(D, Added(g))
    BY DEF Surjection, Added
  <2> QED
    BY <1>3, <2>1, FS_Surjection
<1>5. Others(g) \subseteq ToSet(cache)
  BY DEF Others
<1>6. IsFiniteSet(Others(g)) /\ Others(g) \subseteq Entry
  BY <1>1, <1>5, FiniteElements, FS_Subset
<1>7. Added(g) \subseteq Entry
  BY <1>3 DEF Added, Entry, CallInv
<1>8. pc[g] = "fill" => \A e \in Added(g) \cup Others(g) : e.key \notin Unset
  BY DEF Added, Others, CallInv, CacheInv
<1> QED
  BY <1>3, <1>4, <1>6, <1>7, <1>8, FS_Union

\* After a fill the cache holds what was fetched and the other keys, or a part of
\* them within the limit.
LEMMA FillProperties ==
  ASSUME TypeInv, CacheInv, CallInv, NEW g \in Getters, Fill(g)
  PROVE  /\ cache' \in Seq(Entry) /\ Distinct(cache')
         /\ cacheSize # 0 => Len(cache') <= cacheSize
         /\ ToSet(cache') \subseteq Added(g) \cup Others(g)
         /\ \A e \in ToSet(cache') : e.key \notin Unset
         /\ Roomy => ToSet(cache') = Added(g) \cup Others(g)
<1> DEFINE D == DOMAIN fetched[g]
           E == Added(g) \cup Others(g)
<1>1. /\ IsFiniteSet(D) /\ D \subseteq Keys
      /\ IsFiniteSet(E) /\ E \in SUBSET Entry
      /\ \A e \in E : e.key \notin Unset
  BY FilledElements DEF Fill, Step
<1>2. Cardinality(D) \in Nat
  BY <1>1, FS_CardinalityType
<1>3. PICK order \in SetToSeqs(D) : \E t \in Recent(E, cache, order) : cache' = Kept(t)
  BY DEF Fill
<1>4. order \in Seq(Keys)
  BY <1>1, <1>2, <1>3 DEF SetToSeqs
<1>5. PICK t \in Recent(E, cache, order) : cache' = Kept(t)
  BY <1>3
<1>6. cache \in Seq(Entry) /\ Distinct(cache) /\ cacheSize \in Nat
  BY DEF CacheInv, TypeInv
<1>7. t \in Seq(Entry) /\ Distinct(t) /\ ToSet(t) = E
  BY <1>1, <1>4, <1>5, <1>6, RecentProperties
<1> QED
  BY <1>1, <1>5, <1>6, <1>7, KeptProperties

-----------------------------------------------------------------------------
(***************************************************************************)
(* The invariant holds at first, and no step leaves it.                    *)
(***************************************************************************)
LEMMA InitInv == Init => Inv
<1> SUFFICES ASSUME Init PROVE Inv
  OBVIOUS
<1>1. TypeInv
  <2>1. \A g \in Getters : DOMAIN answer[g] = {}
    BY DEF Init, Empty
  <2>2. asked \in [Getters -> Seq(Keys)] /\ missing \in [Getters -> SUBSET Keys]
    BY DEF Init
  <2>3. 0 \in 0 .. MaxVersion
    BY BoundsAssumption
  <2> QED
    BY <2>1, <2>2, <2>3 DEF Init, TypeInv
<1>2. CacheInv
  BY DEF Init, CacheInv, Distinct, ToSet
<1>3. CallInv
  BY DEF Init, CallInv, Empty
<1>4. QuietInv
  BY DEF Init, QuietInv, OneVersion, ToSet, Empty
<1>5. KeysInv
  BY DEF Init, KeysInv, ToSet
<1> QED
  BY <1>1, <1>2, <1>3, <1>4, <1>5 DEF Inv

\* CreateNamespace happens while the cache is empty and nobody calls.
LEMMA CreateInv == Inv /\ CreateNamespace => Inv'
<1> SUFFICES ASSUME Inv, CreateNamespace PROVE Inv'
  OBVIOUS
<1>1. TypeInv'
  BY BoundsAssumption DEF Inv, TypeInv, CreateNamespace, updateVars, callVars
<1>2. CacheInv'
  <2>1. cache' = <<>> /\ cacheSize' \in Nat
    BY BoundsAssumption DEF Inv, CallInv, CreateNamespace
  <2> QED
    BY <2>1 DEF CacheInv, Distinct, ToSet
<1>3. CallInv'
  BY DEF Inv, CallInv, CreateNamespace, callVars
<1>4. QuietInv'
  BY DEF Inv, QuietInv, OneVersion, CreateNamespace, updateVars, callVars
<1>5. KeysInv'
  BY DEF Inv, KeysInv, Roomy, CallInv, CreateNamespace, callVars, Cached
<1> QED
  BY <1>1, <1>2, <1>3, <1>4, <1>5 DEF Inv

\* Put changes nothing that a call sees.
LEMMA PutInv == Inv /\ Put => Inv'
<1> SUFFICES ASSUME Inv, Put PROVE Inv'
  OBVIOUS
<1> USE DEF Put, updateVars, callVars
<1>1. TypeInv'
  BY DEF Inv, TypeInv
<1>2. CacheInv'
  BY DEF Inv, CacheInv, Distinct, ToSet
<1>3. CallInv'
  BY DEF Inv, CallInv
<1>4. QuietInv'
  BY DEF Inv, QuietInv, OneVersion
<1>5. KeysInv'
  BY DEF Inv, KeysInv, Roomy, Cached
<1> QED
  BY <1>1, <1>2, <1>3, <1>4, <1>5 DEF Inv

\* The callback empties the cache; one that comes before Put finds it empty.
LEMMA UpdateCbInv == Inv /\ UpdateCb => Inv'
<1> SUFFICES ASSUME Inv, UpdateCb PROVE Inv'
  OBVIOUS
<1>0. cache' = <<>> /\ upd' \in {"callback", "swap"} /\ overlapped' \in BOOLEAN
  BY DEF Inv, TypeInv, CallInv, UpdateCb, NewCache, Overlaps
<1> USE DEF UpdateCb, nsVars, callVars
<1>1. TypeInv'
  BY <1>0 DEF Inv, TypeInv
<1>2. CacheInv'
  BY <1>0 DEF Inv, CacheInv, TypeInv, Distinct, ToSet
<1>3. CallInv'
  BY <1>0 DEF Inv, CallInv
<1>4. QuietInv'
  <2>1. ~overlapped' => ~overlapped /\ \A g \in Getters : pc[g] = "idle"
    BY DEF Inv, TypeInv, Overlaps
  <2>2. ToSet(cache') = {}
    BY <1>0 DEF ToSet
  <2> QED
    BY <1>0, <2>1, <2>2 DEF Inv, QuietInv, OneVersion
<1>5. KeysInv'
  <2>1. ~overlapped' => ~overlapped /\ \A g \in Getters : pc[g] = "idle"
    BY DEF Inv, TypeInv, Overlaps
  <2> QED
    BY <2>1 DEF Inv, KeysInv, Roomy
<1> QED
  BY <1>1, <1>2, <1>3, <1>4, <1>5 DEF Inv

LEMMA UpdateCbReturnInv == Inv /\ UpdateCbReturn => Inv'
<1> SUFFICES ASSUME Inv, UpdateCbReturn PROVE Inv'
  OBVIOUS
<1> USE DEF UpdateCbReturn, Unlocked, nsVars, callVars
<1>1. TypeInv'
  BY DEF Inv, TypeInv
<1>2. CacheInv'
  BY DEF Inv, CacheInv, Distinct, ToSet
<1>3. CallInv'
  BY DEF Inv, CallInv
<1>4. QuietInv'
  BY DEF Inv, QuietInv, OneVersion
<1>5. KeysInv'
  BY DEF Inv, KeysInv, Roomy, Cached
<1> QED
  BY <1>1, <1>2, <1>3, <1>4, <1>5 DEF Inv

\* The store is replaced while the cache is empty and no call holds a value.
LEMMA SwapInv == Inv /\ Swap => Inv'
<1> SUFFICES ASSUME Inv, Swap PROVE Inv'
  OBVIOUS
<1> USE DEF Swap, nsVars, callVars
<1>1. TypeInv'
  BY BoundsAssumption DEF Inv, TypeInv
<1>2. CacheInv'
  BY DEF Inv, CacheInv, Distinct, ToSet
<1>3. CallInv'
  BY DEF Inv, CallInv
<1>4. QuietInv'
  <2> SUFFICES ASSUME ~overlapped PROVE QuietInv'
    BY DEF QuietInv
  <2>1. cache = <<>> /\ \A g \in Getters : pc[g] = "idle"
    BY DEF Inv, QuietInv
  <2>2. ToSet(cache') = {} /\ \A g \in Getters : DOMAIN fetched'[g] = {}
    BY <2>1 DEF Inv, CallInv, ToSet
  <2> QED
    BY <2>2 DEF Inv, QuietInv, OneVersion
<1>5. KeysInv'
  BY DEF Inv, KeysInv, Roomy, Cached
<1> QED
  BY <1>1, <1>2, <1>3, <1>4, <1>5 DEF Inv

-----------------------------------------------------------------------------
\* What a hit and a miss have in common: the list is reordered.
LEMMA GetInv ==
  ASSUME Inv, NEW g \in Getters, NEW q \in Queries, GetHit(g, q) \/ GetMiss(g, q)
  PROVE  /\ q \in Seq(Keys) /\ CacheInv' /\ ToSet(cache') = ToSet(cache)
         /\ overlapped' = (overlapped \/ upd # "idle") /\ overlapped' \in BOOLEAN
         /\ \A k : Cached(cache', k) <=> Cached(cache, k)
<1>1. q \in Seq(Keys)
  BY KeysAssumption
<1>2. CacheInv /\ Reordered(q) /\ cacheSize' = cacheSize
  BY DEF Inv, GetHit, GetMiss, Step, nsVars
<1>3. /\ cache' \in Seq(Entry) /\ Distinct(cache')
      /\ ToSet(cache') = ToSet(cache) /\ Len(cache') <= Len(cache)
  BY <1>1, <1>2, ReadProperties
<1>4. Len(cache) \in Nat /\ Len(cache') \in Nat /\ cacheSize \in Nat
  BY <1>2, <1>3 DEF CacheInv, Inv, TypeInv
<1>5. CacheInv'
  BY <1>2, <1>3, <1>4 DEF CacheInv
<1>6. overlapped' = (overlapped \/ upd # "idle")
  BY DEF GetHit, GetMiss, Overlaps
<1> QED
  BY <1>1, <1>3, <1>5, <1>6, CachedElements

\* An answer from the cache has all keys, and their values are those served now.
LEMMA GetHitInv ==
  ASSUME Inv, NEW g \in Getters, NEW q \in Queries, GetHit(g, q)
  PROVE  Inv'
<1>0. /\ q \in Seq(Keys) /\ CacheInv' /\ ToSet(cache') = ToSet(cache)
      /\ overlapped' = (overlapped \/ upd # "idle") /\ overlapped' \in BOOLEAN
      /\ \A k : Cached(cache', k) <=> Cached(cache, k)
  BY GetInv
<1>1. /\ pc' = pc /\ pc[g] = "idle" /\ ns = "put"
      /\ asked' = [asked EXCEPT ![g] = q]
      /\ answer' = [answer EXCEPT ![g] = Values(ToSet(q))]
      /\ UNCHANGED <<store, upd, ns, cacheSize, missing, fetched>>
  BY DEF GetHit, Step, updateVars, nsVars, Inv, TypeInv
<1>2. DOMAIN Values(ToSet(q)) = ToSet(q) /\ ToSet(q) \subseteq Keys
  BY <1>0 DEF Values, ToSet
<1>3. \A k \in ToSet(q) : Cached(cache, k)
  BY DEF GetHit, Found
<1>4. TypeInv'
  BY <1>0, <1>1, <1>2 DEF Inv, TypeInv
<1>5. CallInv'
  <2>1. missing[g] = {}
    BY <1>1 DEF Inv, CallInv
  <2> QED
    BY <1>1, <2>1 DEF Inv, CallInv, TypeInv
<1>6. QuietInv'
  <2> SUFFICES ASSUME ~overlapped' PROVE QuietInv'
    BY DEF QuietInv
  <2>1. ~overlapped /\ upd = "idle"
    BY <1>0
  <2>2. \A k \in ToSet(q) : Values(ToSet(q))[k] = store
    <3> TAKE k \in ToSet(q)
    <3>1. EntryOf(cache, k) \in ToSet(cache)
      BY <1>3, CachedElements
    <3> QED
      BY <2>1, <3>1 DEF Inv, QuietInv, Values
  <2>3. OneVersion'
    BY <1>1, <1>2, <2>1, <2>2 DEF Inv, QuietInv, OneVersion, TypeInv
  <2> QED
    BY <1>0, <1>1, <2>1, <2>3 DEF Inv, QuietInv
<1>7. KeysInv'
  BY <1>0, <1>1, <1>2 DEF Inv, KeysInv, Roomy, TypeInv
<1> QED
  BY <1>0, <1>4, <1>5, <1>6, <1>7 DEF Inv

\* A miss notes the keys that are not in the cache; the others are.
LEMMA GetMissInv ==
  ASSUME Inv, NEW g \in Getters, NEW q \in Queries, GetMiss(g, q)
  PROVE  Inv'
<1>0. /\ q \in Seq(Keys) /\ CacheInv' /\ ToSet(cache') = ToSet(cache)
      /\ overlapped' = (overlapped \/ upd # "idle") /\ overlapped' \in BOOLEAN
      /\ \A k : Cached(cache', k) <=> Cached(cache, k)
  BY GetInv
<1> DEFINE miss == ToSet(q) \ Found(q)
<1>1. /\ pc' = [pc EXCEPT ![g] = "raw"] /\ pc[g] = "idle" /\ ns = "put"
      /\ asked' = [asked EXCEPT ![g] = q]
      /\ missing' = [missing EXCEPT ![g] = miss]
      /\ UNCHANGED <<store, upd, ns, cacheSize, fetched, answer>>
  BY DEF GetMiss, Step, updateVars, nsVars
<1>2. miss \subseteq ToSet(q) /\ ToSet(q) \subseteq Keys
  BY <1>0 DEF ToSet
<1>3. \A k \in ToSet(q) \ miss : Cached(cache, k)
  BY DEF Found
<1> HIDE DEF miss
<1>4. TypeInv'
  BY <1>0, <1>1, <1>2 DEF Inv, TypeInv
<1>5. CallInv'
  BY <1>1, <1>2 DEF Inv, CallInv, TypeInv
<1>6. QuietInv'
  BY <1>0, <1>1 DEF Inv, QuietInv, OneVersion, TypeInv
<1>7. KeysInv'
  BY <1>0, <1>1, <1>3 DEF Inv, KeysInv, Roomy, TypeInv
<1> QED
  BY <1>0, <1>4, <1>5, <1>6, <1>7 DEF Inv

\* Rust answers from the store of the moment.
LEMMA RawGetInv ==
  ASSUME Inv, NEW g \in Getters, RawGet(g)
  PROVE  Inv'
<1> DEFINE out == Output(missing[g])
<1>1. /\ pc' = [pc EXCEPT ![g] = "fill"] /\ pc[g] = "raw"
      /\ fetched' = [fetched EXCEPT ![g] = out]
      /\ UNCHANGED <<store, upd, ns, cacheSize, cache, asked, missing, answer, overlapped>>
  BY DEF RawGet, Step, updateVars, nsVars
<1>2. DOMAIN out = missing[g] \ Unset /\ \A k \in DOMAIN out : out[k] = store
  BY DEF Output
<1>3. store \in 0 .. MaxVersion
  BY DEF Inv, TypeInv
<1> HIDE DEF out
<1>4. TypeInv'
  BY <1>1 DEF Inv, TypeInv
<1>5. CacheInv'
  BY <1>1 DEF Inv, CacheInv, Distinct, ToSet
<1>6. CallInv'
  BY <1>1, <1>2, <1>3 DEF Inv, CallInv, TypeInv
<1>7. QuietInv'
  BY <1>1, <1>2 DEF Inv, QuietInv, OneVersion, TypeInv
<1>8. KeysInv'
  BY <1>1 DEF Inv, KeysInv, Roomy, TypeInv, Cached
<1> QED
  BY <1>4, <1>5, <1>6, <1>7, <1>8 DEF Inv

\* A fill drops no key when there is room, and adds what was fetched.
LEMMA FillInv ==
  ASSUME Inv, NEW g \in Getters, Fill(g)
  PROVE  Inv'
<1>0. /\ cache' \in Seq(Entry) /\ Distinct(cache')
      /\ cacheSize # 0 => Len(cache') <= cacheSize
      /\ ToSet(cache') \subseteq Added(g) \cup Others(g)
      /\ \A e \in ToSet(cache') : e.key \notin Unset
      /\ Roomy => ToSet(cache') = Added(g) \cup Others(g)
  BY FillProperties DEF Inv
<1>1. /\ pc' = [pc EXCEPT ![g] = "reread"] /\ pc[g] = "fill"
      /\ UNCHANGED <<store, upd, ns, cacheSize, asked, missing, fetched, answer, overlapped>>
  BY DEF Fill, Step, updateVars, nsVars, callVars
<1>2. TypeInv'
  BY <1>1 DEF Inv, TypeInv
<1>3. CacheInv'
  BY <1>0, <1>1 DEF CacheInv
<1>4. CallInv'
  BY <1>1 DEF Inv, CallInv, TypeInv
<1>5. QuietInv'
  <2> SUFFICES ASSUME ~overlapped PROVE QuietInv'
    BY <1>1 DEF QuietInv
  <2>1. upd = "idle"
    BY <1>1 DEF Inv, QuietInv
  <2>2. \A e \in Added(g) \cup Others(g) : e.ver = store
    BY DEF Inv, QuietInv, Added, Others
  <2> QED
    BY <1>0, <1>1, <2>1, <2>2 DEF Inv, QuietInv, OneVersion
<1>6. KeysInv'
  <2> SUFFICES ASSUME Roomy, ~overlapped PROVE KeysInv'
    BY <1>1 DEF KeysInv, Roomy
  <2>1. ToSet(cache') = Added(g) \cup Others(g)
    BY <1>0
  <2>2. \A k \in DOMAIN fetched[g] : Cached(cache', k)
    <3> TAKE k \in DOMAIN fetched[g]
    <3>1. [key |-> k, ver |-> fetched[g][k]] \in ToSet(cache')
      BY <2>1 DEF Added
    <3> QED
      BY <3>1, CachedElements
  <2>3. ASSUME NEW k, Cached(cache, k) PROVE Cached(cache', k)
    <3>1. CASE k \in DOMAIN fetched[g]
      BY <2>2, <3>1
    <3>2. CASE k \notin DOMAIN fetched[g]
      <4>1. PICK e \in ToSet(cache) : e.key = k
        BY <2>3, CachedElements
      <4>2. e \in ToSet(cache')
        BY <2>1, <3>2, <4>1 DEF Others
      <4> QED
        BY <4>1, <4>2, CachedElements
    <3> QED
      BY <3>1, <3>2
  <2>4. \A k \in ToSet(asked[g]) \ Unset : Cached(cache', k)
    <3>1. DOMAIN fetched[g] = missing[g] \ Unset
      BY <1>1 DEF Inv, CallInv
    <3>2. \A k \in ToSet(asked[g]) \ missing[g] : Cached(cache, k)
      BY <1>1 DEF Inv, KeysInv, Roomy
    <3> QED
      BY <2>2, <2>3, <3>1, <3>2
  <2> QED
    BY <1>1, <2>3, <2>4 DEF Inv, KeysInv, Roomy, TypeInv
<1> QED
  BY <1>2, <1>3, <1>4, <1>5, <1>6 DEF Inv

\* The second read answers with what it finds, all from the version served now.
LEMMA RereadInv ==
  ASSUME Inv, NEW g \in Getters, Reread(g)
  PROVE  Inv'
<1> DEFINE F == FoundAgain(g)
           v == Values(F)
<1>0. asked[g] \in Seq(Keys) /\ CacheInv /\ Reordered(asked[g])
  BY DEF Inv, TypeInv, Reread
<1>1. /\ cache' \in Seq(Entry) /\ Distinct(cache')
      /\ ToSet(cache') = ToSet(cache) /\ Len(cache') <= Len(cache)
  BY <1>0, ReadProperties
<1>2. /\ pc' = [pc EXCEPT ![g] = "idle"] /\ pc[g] = "reread"
      /\ answer' = [answer EXCEPT ![g] = v]
      /\ missing' = [missing EXCEPT ![g] = {}] /\ fetched' = [fetched EXCEPT ![g] = Empty]
      /\ UNCHANGED <<store, upd, ns, cacheSize, asked, overlapped>>
  BY DEF Reread, Step, updateVars, nsVars
<1>3. DOMAIN v = F /\ DOMAIN Empty = {}
  BY DEF Values, Empty
<1>4. F \subseteq ToSet(asked[g]) /\ \A k \in ToSet(asked[g]) : k \in F <=> Cached(cache, k)
  BY DEF FoundAgain, Found
<1>5. ToSet(asked[g]) \subseteq Keys
  BY <1>0 DEF ToSet
<1>6. ~overlapped => \A k \in F : v[k] = store
  <2> SUFFICES ASSUME ~overlapped, NEW k \in F PROVE v[k] = store
    OBVIOUS
  <2>1. EntryOf(cache, k) \in ToSet(cache)
    BY <1>4, CachedElements
  <2> QED
    BY <2>1 DEF Inv, QuietInv, Values
<1>7. \A k : Cached(cache', k) <=> Cached(cache, k)
  BY <1>1, CachedElements
<1> HIDE DEF F, v
<1>8. TypeInv'
  BY <1>2, <1>3, <1>4, <1>5 DEF Inv, TypeInv
<1>9. CacheInv'
  <2>1. Len(cache) \in Nat /\ Len(cache') \in Nat /\ cacheSize \in Nat
    BY <1>0, <1>1 DEF CacheInv, Inv, TypeInv
  <2> QED
    BY <1>0, <1>1, <1>2, <2>1 DEF CacheInv
<1>10. CallInv'
  <2>1. ns = "put"
    BY <1>2 DEF Inv, CallInv
  <2> QED
    BY <1>2, <1>3, <2>1 DEF Inv, CallInv, TypeInv
<1>11. QuietInv'
  <2> SUFFICES ASSUME ~overlapped PROVE QuietInv'
    BY <1>2 DEF QuietInv
  <2>1. upd = "idle"
    BY <1>2 DEF Inv, QuietInv
  <2>2. OneVersion'
    BY <1>2, <1>3, <1>6 DEF Inv, QuietInv, OneVersion, TypeInv
  <2>3. \A h \in Getters : \A k \in DOMAIN fetched'[h] : fetched'[h][k] = store
    BY <1>2, <1>3 DEF Inv, QuietInv, TypeInv
  <2> QED
    BY <1>1, <1>2, <2>1, <2>2, <2>3 DEF Inv, QuietInv
<1>12. KeysInv'
  BY <1>2, <1>3, <1>4, <1>7 DEF Inv, KeysInv, Roomy, TypeInv
<1> QED
  BY <1>8, <1>9, <1>10, <1>11, <1>12 DEF Inv

\* A stuttering step.
LEMMA StutterInv == Inv /\ UNCHANGED vars => Inv'
<1> SUFFICES ASSUME Inv, UNCHANGED vars PROVE Inv'
  OBVIOUS
<1> USE DEF vars, updateVars, nsVars, callVars
<1>1. TypeInv' /\ CallInv'
  BY DEF Inv, TypeInv, CallInv
<1>2. CacheInv'
  BY DEF Inv, CacheInv, Distinct, ToSet
<1>3. QuietInv' /\ KeysInv'
  BY DEF Inv, QuietInv, KeysInv, Roomy, OneVersion, Cached
<1> QED
  BY <1>1, <1>2, <1>3 DEF Inv

LEMMA NextInv == Inv /\ [Next]_vars => Inv'
BY CreateInv, PutInv, UpdateCbInv, UpdateCbReturnInv, SwapInv, GetHitInv, GetMissInv,
   RawGetInv, FillInv, RereadInv, StutterInv DEF Next, UpdateStep, GetStep

LEMMA InvHolds == Spec => []Inv
BY InitInv, NextInv, PTL DEF Spec

-----------------------------------------------------------------------------
(***************************************************************************)
(* The cache never outgrows its limit nor holds a key twice, and the calls *)
(* keep their types, whatever updates and calls overlap (eafcc.go).        *)
(***************************************************************************)
THEOREM TypeCorrect == Spec => []TypeOK
<1>1. Inv => TypeOK
  <2> SUFFICES ASSUME Inv PROVE TypeOK
    OBVIOUS
  <2>1. \A i \in DOMAIN cache : cache[i] \in Entry
    BY DEF Inv, CacheInv
  <2>2. \A i \in DOMAIN cache : cache[i].key \in Keys /\ cache[i].ver \in 0 .. MaxVersion
    BY <2>1 DEF Entry
  <2>3. \A g \in Getters : DOMAIN fetched[g] \subseteq Keys
    BY DEF Inv, TypeInv, CallInv
  <2> QED
    BY <2>2, <2>3 DEF Inv, TypeInv, CacheInv, Distinct, TypeOK
<1> QED
  BY <1>1, InvHolds, PTL

(***************************************************************************)
(* "we have to ensure that the returned value is from the same config      *)
(* version" (GetCfg of eafcc.go): so it is in every run in which no update *)
(* meets a call.                                                           *)
(***************************************************************************)
THEOREM QuietAnswersHaveOneVersion == Spec => []OneVersionWhenQuiet
<1>1. Inv => OneVersionWhenQuiet
  BY DEF Inv, QuietInv, OneVersionWhenQuiet
<1> QED
  BY <1>1, InvHolds, PTL

\* The callback comes before the store is replaced (namespace.rs), and still the
\* cache of a quiet namespace holds only what Rust serves.
THEOREM CacheServesCurrent == Spec => []CacheIsServed
<1>1. Inv => CacheIsServed
  BY DEF Inv, QuietInv, CacheIsServed, ToSet
<1> QED
  BY <1>1, InvHolds, PTL

\* With a cache that has room for the keys, GetCfg of eafcc.go loses no key between the fill
\* and the second read.
THEOREM AnswersAreComplete == Spec => []Complete
<1>1. Inv => Complete
  BY DEF Inv, KeysInv, Complete
<1> QED
  BY <1>1, InvHolds, PTL
=============================================================================

---------------------------- MODULE QuerierProofs ---------------------------
(***************************************************************************)
(* Both views answer as the files say, for every set of rules, links and   *)
(* resources and every list of keys.                                       *)
(***************************************************************************)
EXTENDS Querier, FiniteSetTheorems, TLAPS

\* The items of the link files lf[p], p in D, whose rule is in P; the entries
\* of a Vec.
ItemsOf(lf, P, D) ==
  UNION {{[link_path |-> p, pos |-> i, pri |-> lf[p].pri, is_neg |-> lf[p].is_neg,
           abs_res_path |-> lf[p].reses[i]] : i \in DOMAIN lf[p].reses} :
           p \in {q \in D : lf[q].rule \in P}}
Entries(s) == {s[i] : i \in DOMAIN s}

\* The rules of rf outside T that hold for the caller.
Holding(rf, T) == {p \in Decodable(rf) \ T : rf[p]}

\* Where the resource files rf give a value to key k for an item, and what the
\* overlaid view of the items F must answer.
Given(rf, item, k) ==
  IF item.abs_res_path \in Decodable(rf)
  THEN {j \in DOMAIN rf[item.abs_res_path] : rf[item.abs_res_path][j] = k}
  ELSE {}
Best(F, rf, k) ==
  {item \in F : /\ Given(rf, item, k) # {}
                /\ \A other \in F : Given(rf, other, k) # {} => other.pri <= item.pri}
Answer(F, rf, k, ans) ==
  IF Best(F, rf, k) = {} \/ \E item \in Best(F, rf, k) : item.is_neg
  THEN ans = <<>>
  ELSE \E item \in Best(F, rf, k) :
         \E j \in Given(rf, item, k) :
           /\ \A m \in Given(rf, item, k) : j <= m
           /\ ans = <<<<item, j>>>>

\* The links are in the order the comparator asks for.
InOrder(s) == \A i, j \in DOMAIN s : Before(s[j], s[i]) => j < i

\* The link files that can be decoded.
Links == Decodable(link_file)

\* The link items whose rule holds for the caller.
Effective == ItemsOf(link_file, Holding(rule_file, {}), Links)

AllItems == ItemsOf(link_file, RulePaths, Links)

\* The files are what the namespace holds.
FileInv ==
  /\ DOMAIN rule_file \subseteq RulePaths
  /\ link_file \in [LinkPaths -> LinkSpecs \cup {Undecodable}]
  /\ keys \in Seq(Keys)

\* How much of the files is in the index.
Walked == CASE phase = "rules" -> {}
            [] phase = "links" -> Links \ to_walk
            [] OTHER -> Links

\* A walk comes past every file, and past a bad one only on the git backend.
IndexInv ==
  /\ phase \in {"rules", "links", "reses", "loaded", "failed"}
  /\ phase = "rules" => to_walk \subseteq DOMAIN rule_file
  /\ phase = "rules" => rule_stor = Decodable(rule_file) \ to_walk
  /\ phase \in {"links", "reses", "loaded"} => rule_stor = Decodable(rule_file)
  /\ phase = "reses" => to_walk \subseteq DOMAIN res_file
  /\ phase = "reses" => res_stor = Decodable(res_file) \ to_walk
  /\ phase = "loaded" => res_stor = Decodable(res_file)
  /\ phase \in {"rules", "links"} => res_stor = {}
  /\ link_stor \in [RulePaths -> Seq(AllItems)]
  /\ phase # "failed" =>
       \A p \in RulePaths : Entries(link_stor[p]) = ItemsOf(link_file, {p}, Walked)

\* On the filesystem backend the bad files of a tree are still to be visited.
WholeInv ==
  backend = "filesystem" =>
    /\ phase = "rules" => Bad(rule_file) \subseteq to_walk
    /\ phase \in {"links", "reses", "loaded"} => Bad(rule_file) = {}
    /\ phase = "links" => Bad(link_file) \subseteq to_walk
    /\ phase \in {"reses", "loaded"} => Bad(link_file) = {}
    /\ phase = "reses" => Bad(res_file) \subseteq to_walk
    /\ phase = "loaded" => Bad(res_file) = {}

\* How far the query has come.
QueryInv ==
  /\ qpc \in {"idle", "collect", "sort", "lookup", "done"}
  /\ qpc # "idle" => phase = "loaded"
  /\ qpc = "collect" => to_visit \subseteq Decodable(rule_file)
  /\ act_links \in Seq(AllItems)
  /\ qpc = "idle" => act_links = <<>>
  /\ qpc = "collect" =>
       Entries(act_links) = ItemsOf(link_file, Holding(rule_file, to_visit), Links)
  /\ qpc \in {"sort", "lookup"} => Entries(act_links) = Effective
  /\ DOMAIN ret_buf = DOMAIN keys
  /\ ki \in Nat \ {0} /\ li \in Nat \ {0}
  /\ qpc \in {"idle", "collect", "sort"} =>
       ki = 1 /\ li = 1 /\ \A i \in DOMAIN keys : ret_buf[i] = <<>>

LookupInv ==
  view_mode = "OverlaidView" =>
    /\ qpc = "lookup" =>
         /\ InOrder(act_links)
         /\ \A i \in DOMAIN keys : i >= ki => ret_buf[i] = <<>>
         /\ \A i \in DOMAIN keys : i < ki => Answer(Effective, res_file, keys[i], ret_buf[i])
         /\ ki \in DOMAIN keys =>
              \A j \in DOMAIN act_links : j < li => Given(res_file, act_links[j], keys[ki]) = {}
    /\ qpc = "done" => \A i \in DOMAIN keys : Answer(Effective, res_file, keys[i], ret_buf[i])

IInv == FileInv /\ IndexInv /\ WholeInv /\ QueryInv /\ LookupInv

\* No entry of a list is there twice.
Unique(s) == \A i, j \in DOMAIN s : s[i] = s[j] => i = j

\* Every value the items F give key k, and the links that have been asked for the
\* i-th key of the query.
ValuesOf(F, rf, k) == UNION {{<<item, j>> : j \in Given(rf, item, k)} : item \in F}
Seen(i) == {j \in DOMAIN act_links : i < ki \/ (i = ki /\ j < li)}

\* Types that are left, and what keeps a link from counting twice.
ListInv ==
  /\ rule_stor \subseteq RulePaths /\ res_stor \subseteq ResPaths /\ to_visit \subseteq RulePaths
  /\ \A p \in Decodable(res_file) : res_file[p] \in Seq(Keys)
  /\ ki <= Len(keys) + 1 /\ li <= Len(act_links) + 1
  /\ \A p \in RulePaths : Unique(link_stor[p])
  /\ Unique(act_links)

\* The view of all linked resources has what the links asked so far give.
AllLinkedInv ==
  view_mode = "AllLinkedResView" /\ qpc \in {"lookup", "done"} =>
    \A i \in DOMAIN keys :
      /\ ret_buf[i] \in Seq(AllItems \X Nat) /\ Unique(ret_buf[i])
      /\ qpc = "lookup" =>
           Entries(ret_buf[i]) = ValuesOf({act_links[j] : j \in Seen(i)}, res_file, keys[i])
      /\ qpc = "done" => Entries(ret_buf[i]) = ValuesOf(Effective, res_file, keys[i])

\* The names of frames and places are transparent below.
USE DEF fileVars, indexVars, loadVars, queryArgs, queryVars, Query, Looking, Visit, Links

-----------------------------------------------------------------------------
\* The entries of two Vecs put one after the other.
LEMMA ConcatEntries ==
  ASSUME NEW S, NEW s \in Seq(S), NEW t \in Seq(S)
  PROVE  s \o t \in Seq(S) /\ Entries(s \o t) = Entries(s) \cup Entries(t)
<1>1. s \o t \in Seq(S) /\ Len(s \o t) = Len(s) + Len(t) OBVIOUS
<1>2. \A i \in 1 .. Len(s) : (s \o t)[i] = s[i] OBVIOUS
<1>3. \A i \in 1 .. Len(t) : (s \o t)[Len(s) + i] = t[i] OBVIOUS
<1>4. Entries(s \o t) \subseteq Entries(s) \cup Entries(t)
  <2> SUFFICES ASSUME NEW i \in 1 .. Len(s) + Len(t)
               PROVE  (s \o t)[i] \in Entries(s) \cup Entries(t)
    BY <1>1 DEF Entries
  <2>1. CASE i <= Len(s) BY <2>1, <1>2 DEF Entries
  <2>2. CASE i > Len(s)
    <3>1. i - Len(s) \in 1 .. Len(t) /\ i = Len(s) + (i - Len(s)) BY <2>2
    <3>2. (s \o t)[i] = t[i - Len(s)] BY <3>1, <1>3
    <3>3. QED BY <3>1, <3>2 DEF Entries
  <2>3. QED BY <2>1, <2>2
<1>5. Entries(s) \subseteq Entries(s \o t) BY <1>1, <1>2 DEF Entries
<1>6. Entries(t) \subseteq Entries(s \o t)
  <2> SUFFICES ASSUME NEW i \in DOMAIN t PROVE t[i] \in Entries(s \o t)
    BY Zenon DEF Entries
  <2>1. i \in 1 .. Len(t) OBVIOUS
  <2>2. Len(s) + i \in DOMAIN (s \o t) BY <2>1, <1>1
  <2>3. (s \o t)[Len(s) + i] = t[i] BY <2>1, <1>3
  <2>4. QED BY <2>2, <2>3, Zenon DEF Entries
<1>7. QED BY <1>1, <1>4, <1>5, <1>6

\* Rules bring in their links independently of each other.
LEMMA ItemsUnion ==
  ASSUME NEW lf, NEW P, NEW Q, NEW D
  PROVE  ItemsOf(lf, P \cup Q, D) = ItemsOf(lf, P, D) \cup ItemsOf(lf, Q, D)
  BY DEF ItemsOf

\* The first link in order that knows the key answers for all of them.
LEMMA FirstHit ==
  ASSUME NEW T, \A t \in T : t.pri \in Nat,
         NEW s \in Seq(T), InOrder(s), NEW l \in DOMAIN s, NEW rf, NEW k,
         \A j \in DOMAIN s : j < l => Given(rf, s[j], k) = {},
         NEW m \in Given(rf, s[l], k), \A n \in Given(rf, s[l], k) : m <= n
  PROVE  Answer(Entries(s), rf, k, IF s[l].is_neg THEN <<>> ELSE <<<<s[l], m>>>>)
<1>1. \A j \in DOMAIN s : s[j] \in T /\ s[j].pri \in Nat /\ j \in Nat OBVIOUS
<1>2. \A j \in DOMAIN s : Given(rf, s[j], k) # {} => s[j].pri <= s[l].pri
  <2> SUFFICES ASSUME NEW j \in DOMAIN s, Given(rf, s[j], k) # {}, s[j].pri > s[l].pri
               PROVE  FALSE
    BY <1>1
  <2>1. Before(s[j], s[l]) BY DEF Before
  <2>2. j < l BY <2>1 DEF InOrder
  <2>3. QED BY <2>2
<1>3. s[l] \in Best(Entries(s), rf, k) BY <1>2 DEF Best, Entries
<1>4. CASE s[l].is_neg BY <1>3, <1>4 DEF Answer
<1>5. CASE ~s[l].is_neg
  <2>1. ASSUME NEW item \in Best(Entries(s), rf, k), item.is_neg PROVE FALSE
    <3>1. PICK j \in DOMAIN s : item = s[j] BY DEF Best, Entries
    <3>2. Given(rf, s[j], k) # {} /\ s[l].pri <= s[j].pri
      BY <2>1, <3>1, <1>3 DEF Best
    <3>3. s[j].pri = s[l].pri BY <3>2, <1>1, <1>2
    <3>4. Before(s[j], s[l]) BY <2>1, <3>1, <3>3, <1>5 DEF Before
    <3>5. j < l BY <3>4 DEF InOrder
    <3>6. QED BY <3>2, <3>5
  <2>2. QED BY <1>3, <1>5, <2>1 DEF Answer
<1>6. QED BY <1>4, <1>5

\* If no link knows the key, there is no answer.
LEMMA NoHit ==
  ASSUME NEW F, NEW rf, NEW k, \A item \in F : Given(rf, item, k) = {}
  PROVE  Answer(F, rf, k, <<>>)
<1>1. Best(F, rf, k) = {} BY DEF Best
<1>2. QED BY <1>1 DEF Answer

\* An item carries the priority and the sign of its link file.
LEMMA ItemType ==
  ASSUME FileInv, NEW item \in AllItems
  PROVE  item.pri \in Nat /\ item.is_neg \in BOOLEAN
<1>1. PICK p \in Links :
        \E i \in DOMAIN link_file[p].reses : item = IdxLinkItem(p, i)
  BY DEF AllItems, ItemsOf, IdxLinkItem
<1>2. link_file[p] \in [pri : Nat, is_neg : BOOLEAN, rule : RulePaths, reses : Seq(ResPaths)]
  BY LinkSpecsAssumption DEF FileInv, Decodable
<1>3. QED BY <1>1, <1>2 DEF IdxLinkItem

-----------------------------------------------------------------------------
\* An empty index and an idle query satisfy the invariant.
LEMMA InitIInv == Init => IInv
<1> SUFFICES ASSUME Init PROVE IInv OBVIOUS
<1> USE DEF Init, InitIndex
<1>1. FileInv BY QueriesAssumption DEF FileInv
<1>2. IndexInv
  <2>1. \A p \in RulePaths : Entries(link_stor[p]) = ItemsOf(link_file, {p}, Walked)
    <3>1. Walked = {} BY DEF Walked
    <3>2. \A p \in RulePaths : Entries(link_stor[p]) = {}
      <4>1. DOMAIN <<>> = {} OBVIOUS
      <4>2. QED BY <4>1 DEF Entries
    <3>3. \A p \in RulePaths : ItemsOf(link_file, {p}, {}) = {} BY DEF ItemsOf
    <3>4. QED BY <3>1, <3>2, <3>3
  <2>2. rule_stor = Decodable(rule_file) \ to_walk BY DEF Decodable
  <2>3. QED BY <2>1, <2>2 DEF IndexInv
<1>3. WholeInv BY DEF WholeInv, Bad
<1>4. QueryInv BY DEF QueryInv
<1>5. LookupInv BY DEF LookupInv
<1>6. QED BY <1>1, <1>2, <1>3, <1>4, <1>5 DEF IInv

\* Steps that leave the files and the query alone leave their invariants alone.
LEMMA LoadKeepsQuery ==
  ASSUME IInv, LoadStep
  PROVE  FileInv' /\ QueryInv' /\ LookupInv'
<1>1. UNCHANGED <<fileVars, keys, view_mode, qpc, to_visit, act_links, ki, li, ret_buf>>
  BY DEF LoadStep, Load, LoadRule, LoadLink, LoadRes, SkipFile, LoadFails,
         NextPhase
<1>2. phase = "loaded" => phase' = "loaded"
  BY DEF LoadStep, Load, LoadRule, LoadLink, LoadRes, SkipFile, LoadFails,
         NextPhase
<1>3. FileInv' BY <1>1 DEF IInv, FileInv
<1>4. QueryInv'
  <2>1. Effective' = Effective BY <1>1 DEF Effective
  <2>2. AllItems' = AllItems BY <1>1 DEF AllItems
  <2>3. QED BY <1>1, <1>2, <2>1, <2>2 DEF IInv, QueryInv
<1>5. LookupInv'
  <2>1. Effective' = Effective BY <1>1 DEF Effective
  <2>2. QED BY <1>1, <2>1 DEF IInv, LookupInv
<1>6. QED BY <1>3, <1>4, <1>5

\* Each file adds to the index what it holds, in whatever order they come.
LEMMA LoadIndexInv == IInv /\ LoadStep => IndexInv'
<1> SUFFICES ASSUME IInv, LoadStep PROVE IndexInv' OBVIOUS
<1>1. ASSUME NEW p \in RulePaths, LoadRule(p) PROVE IndexInv'
  <2>1. Walked' = Walked BY <1>1 DEF LoadRule, Walked
  <2>2. p \in Decodable(rule_file) /\ Decodable(rule_file)' = Decodable(rule_file)
    BY <1>1 DEF LoadRule, Decodable
  <2>3. AllItems' = AllItems BY <1>1 DEF LoadRule, AllItems
  <2>4. QED BY <1>1, <2>1, <2>2, <2>3 DEF LoadRule, AddRule, IInv, IndexInv
<1>2. ASSUME NEW p \in LinkPaths, LoadLink(p) PROVE IndexInv'
  <2> DEFINE new == [i \in DOMAIN link_file[p].reses |-> IdxLinkItem(p, i)]
             r   == link_file[p].rule
  <2>1. p \in Links /\ r \in RulePaths /\ link_file[p].reses \in Seq(ResPaths)
    BY <1>2, LinkSpecsAssumption DEF LoadLink, IInv, FileInv, Decodable
  <2>2. new \in Seq(AllItems)
    <3>1. \A i \in DOMAIN link_file[p].reses : IdxLinkItem(p, i) \in AllItems
      BY <2>1 DEF AllItems, ItemsOf, IdxLinkItem
    <3>2. DOMAIN link_file[p].reses = 1 .. Len(link_file[p].reses)
          /\ Len(link_file[p].reses) \in Nat
      BY <2>1
    <3>3. QED BY <3>1, <3>2
  <2>3. link_stor[r] \in Seq(AllItems) BY <2>1 DEF IInv, IndexInv
  <2>4. link_stor' = [link_stor EXCEPT ![r] = link_stor[r] \o new]
    BY <1>2 DEF LoadLink, AddLink
  <2>5. AllItems' = AllItems BY <1>2 DEF LoadLink, AllItems
  <2>6. link_stor' \in [RulePaths -> Seq(AllItems)]
    <3>1. link_stor[r] \o new \in Seq(AllItems) BY <2>2, <2>3, ConcatEntries
    <3>2. QED BY <2>4, <3>1 DEF IInv, IndexInv
  <2>7. Walked' = Walked \cup {p}
    <3>1. Links' = Links BY <1>2 DEF LoadLink
    <3>2. QED BY <1>2, <2>1, <3>1 DEF LoadLink, Walked
  <2>8. ASSUME NEW s \in RulePaths
        PROVE  Entries(link_stor'[s]) = ItemsOf(link_file, {s}, Walked)'
    <3>1. ItemsOf(link_file, {s}, Walked)' = ItemsOf(link_file, {s}, Walked \cup {p})
      BY <1>2, <2>7 DEF LoadLink
    <3>2. Entries(link_stor[s]) = ItemsOf(link_file, {s}, Walked)
      BY <1>2 DEF LoadLink, IInv, IndexInv
    <3>3. CASE s = r
      <4>1. Entries(link_stor'[s]) = Entries(link_stor[s]) \cup Entries(new)
        BY <2>1, <2>2, <2>3, <2>4, <3>3, ConcatEntries DEF IInv, IndexInv
      <4>2. Entries(new) = {IdxLinkItem(p, i) : i \in DOMAIN link_file[p].reses}
        BY DEF Entries
      <4>3. QED BY <3>1, <3>2, <3>3, <4>1, <4>2 DEF ItemsOf, IdxLinkItem
    <3>4. CASE s # r
      <4>1. link_stor'[s] = link_stor[s] BY <2>4, <3>4 DEF IInv, IndexInv
      <4>2. QED BY <3>1, <3>2, <3>4, <4>1 DEF ItemsOf
    <3>5. QED BY <3>3, <3>4
  <2>9. QED BY <1>2, <2>5, <2>6, <2>8 DEF LoadLink, IInv, IndexInv
<1>3. ASSUME NEW p \in ResPaths, LoadRes(p) PROVE IndexInv'
  <2>1. Walked' = Walked BY <1>3 DEF LoadRes, Walked
  <2>2. p \in Decodable(res_file) /\ Decodable(res_file)' = Decodable(res_file)
    BY <1>3 DEF LoadRes, Decodable
  <2>3. AllItems' = AllItems BY <1>3 DEF LoadRes, AllItems
  <2>4. QED BY <1>3, <2>1, <2>2, <2>3 DEF LoadRes, AddRes, IInv, IndexInv
<1>4. ASSUME NEW p \in to_walk, SkipFile(p) PROVE IndexInv'
  <2>1. /\ UNCHANGED <<link_file, rule_file, res_file, phase, rule_stor, link_stor, res_stor>>
        /\ to_walk' = to_walk \ {p}
    BY <1>4 DEF SkipFile
  <2>2. AllItems' = AllItems BY <2>1 DEF AllItems
  <2>3. /\ phase = "rules" => p \notin Decodable(rule_file)
        /\ phase = "links" => p \notin Links
        /\ phase = "reses" => p \notin Decodable(res_file)
    BY <1>4 DEF SkipFile, IsBad, Bad
  <2>4. Walked' = Walked BY <2>1, <2>3 DEF Walked
  <2>5. QED BY <2>1, <2>2, <2>3, <2>4 DEF IInv, IndexInv
<1>5. CASE LoadFails
  <2>1. AllItems' = AllItems BY <1>5 DEF LoadFails, AllItems
  <2>2. QED BY <1>5, <2>1 DEF LoadFails, IInv, IndexInv
<1>6. CASE NextPhase
  <2>1. Links' = Links /\ AllItems' = AllItems BY <1>6 DEF NextPhase, AllItems
  <2>2. Links \subseteq LinkPaths BY DEF IInv, FileInv, Decodable
  <2>3. Walked' = Walked BY <1>6, <2>1, <2>2 DEF NextPhase, Walked
  <2>4. /\ phase # "failed" /\ phase' # "failed"
        /\ UNCHANGED <<link_file, link_stor>>
    BY <1>6 DEF NextPhase
  <2>5. \A p \in RulePaths : Entries(link_stor'[p]) = ItemsOf(link_file', {p}, Walked')
    BY <2>3, <2>4 DEF IInv, IndexInv
  <2>6. link_stor' \in [RulePaths -> Seq(AllItems')] BY <2>1, <2>4 DEF IInv, IndexInv
  <2>7. Decodable(res_file) \subseteq DOMAIN res_file BY DEF Decodable
  <2>8. QED BY <1>6, <2>5, <2>6, <2>7 DEF NextPhase, IInv, IndexInv
<1>7. QED BY <1>1, <1>2, <1>3, <1>4, <1>5, <1>6 DEF LoadStep, Load

\* On the filesystem backend no step of a walk comes past a bad file.
LEMMA LoadWholeInv == IInv /\ LoadStep => WholeInv'
<1> SUFFICES ASSUME IInv, LoadStep, backend = "filesystem" PROVE WholeInv'
  BY DEF WholeInv, LoadStep, Load, LoadRule, LoadLink, LoadRes, SkipFile, LoadFails, NextPhase
<1>1. /\ UNCHANGED <<backend, rule_file, link_file, res_file>>
      /\ Bad(rule_file)' = Bad(rule_file) /\ Bad(link_file)' = Bad(link_file)
      /\ Bad(res_file)' = Bad(res_file)
  BY DEF LoadStep, Load, LoadRule, LoadLink, LoadRes, SkipFile, LoadFails, NextPhase
<1>2. ASSUME NEW p \in RulePaths, LoadRule(p) PROVE WholeInv'
  <2>1. p \notin Bad(rule_file) BY <1>2 DEF LoadRule, Bad
  <2>2. QED BY <1>1, <1>2, <2>1 DEF LoadRule, IInv, WholeInv
<1>3. ASSUME NEW p \in LinkPaths, LoadLink(p) PROVE WholeInv'
  <2>1. p \notin Bad(link_file) BY <1>3 DEF LoadLink, Bad
  <2>2. QED BY <1>1, <1>3, <2>1 DEF LoadLink, IInv, WholeInv
<1>4. ASSUME NEW p \in ResPaths, LoadRes(p) PROVE WholeInv'
  <2>1. p \notin Bad(res_file) BY <1>4 DEF LoadRes, Bad
  <2>2. QED BY <1>1, <1>4, <2>1 DEF LoadRes, IInv, WholeInv
<1>5. ASSUME NEW p \in to_walk, SkipFile(p) PROVE WholeInv'
  BY <1>5 DEF SkipFile, SkipsErrors
<1>6. CASE LoadFails BY <1>1, <1>6 DEF LoadFails, WholeInv
<1>7. CASE NextPhase
  <2>1. Bad(link_file) \subseteq LinkPaths /\ Bad(res_file) \subseteq DOMAIN res_file
    BY DEF IInv, FileInv, Bad
  <2>2. QED BY <1>1, <1>7, <2>1 DEF NextPhase, IInv, WholeInv
<1>8. QED BY <1>2, <1>3, <1>4, <1>5, <1>6, <1>7 DEF LoadStep, Load

-----------------------------------------------------------------------------
\* A step of the query finds the files and the index as they were.
LEMMA GetKeepsIndex ==
  ASSUME IInv, Get
  PROVE  /\ UNCHANGED <<link_file, rule_file, res_file, keys, view_mode, phase,
                        rule_stor, link_stor, res_stor>>
         /\ FileInv' /\ IndexInv' /\ WholeInv'
         /\ Effective' = Effective /\ AllItems' = AllItems
<1>1. UNCHANGED <<loadVars, queryArgs>>
  BY DEF Get, GetBegin, VisitRule, Dispatch, SortLinks, LinkMiss, OverlaidHit,
         AllLinkedHit, NextKey, GetEnd
<1>2. UNCHANGED <<backend, link_file, rule_file, res_file, keys, view_mode, phase, to_walk,
                  rule_stor, link_stor, res_stor>>
  BY <1>1
<1>3. FileInv' BY <1>2 DEF IInv, FileInv
<1>4. Effective' = Effective /\ AllItems' = AllItems BY <1>2 DEF Effective, AllItems
<1>5. Walked' = Walked BY <1>2 DEF Walked
<1>6. IndexInv' BY <1>2, <1>4, <1>5 DEF IInv, IndexInv
<1>7. WholeInv' BY <1>2 DEF IInv, WholeInv
<1>8. QED BY <1>2, <1>3, <1>4, <1>6, <1>7

\* The places querier.rs finds in the index are those the files have.
LEMMA MatchesGiven ==
  ASSUME IInv, phase = "loaded", NEW item, NEW k
  PROVE  Matches(item, k) = Given(res_file, item, k)
  BY DEF Matches, Given, IInv, IndexInv

\* Collecting the links of the active rules.
LEMMA CollectIInv ==
  ASSUME IInv, Get, GetBegin \/ (\E p \in RulePaths : VisitRule(p)) \/ Dispatch
  PROVE  QueryInv' /\ LookupInv'
<1> USE GetKeepsIndex
<1>1. CASE GetBegin
  <2>1. Holding(rule_file, rule_stor) = {}
    BY <1>1 DEF GetBegin, IInv, IndexInv, Holding
  <2>2. ItemsOf(link_file, {}, Links) = {} BY DEF ItemsOf
  <2>3. Entries(<<>>) = {}
    <3>1. DOMAIN <<>> = {} OBVIOUS
    <3>2. QED BY <3>1 DEF Entries
  <2>4. QueryInv'
    BY <1>1, <2>1, <2>2, <2>3 DEF GetBegin, IInv, IndexInv, QueryInv
  <2>5. QED BY <1>1, <2>4 DEF GetBegin, LookupInv
<1>2. ASSUME NEW p \in RulePaths, VisitRule(p) PROVE QueryInv' /\ LookupInv'
  <2>1. /\ phase = "loaded" /\ p \in Decodable(rule_file)
        /\ to_visit' \subseteq Decodable(rule_file)
    BY <1>2 DEF VisitRule, IInv, QueryInv
  <2>2. link_stor[p] \in Seq(AllItems) BY DEF IInv, IndexInv
  <2>3. Entries(link_stor[p]) = ItemsOf(link_file, {p}, Links)
    <3>1. Walked = Links BY <2>1 DEF Walked
    <3>2. QED BY <2>1, <3>1 DEF IInv, IndexInv
  <2>4. act_links \in Seq(AllItems)
        /\ Entries(act_links) = ItemsOf(link_file, Holding(rule_file, to_visit), Links)
    BY <1>2 DEF VisitRule, IInv, QueryInv
  <2>5. act_links' \in Seq(AllItems)
        /\ Entries(act_links') = ItemsOf(link_file, Holding(rule_file, to_visit'), Links)
    <3>1. CASE rule_file[p]
      <4>1. Holding(rule_file, to_visit') = Holding(rule_file, to_visit) \cup {p}
        BY <1>2, <2>1, <3>1 DEF VisitRule, Holding
      <4>2. act_links' = act_links \o link_stor[p] BY <1>2, <3>1 DEF VisitRule
      <4>3. /\ act_links \o link_stor[p] \in Seq(AllItems)
            /\ Entries(act_links \o link_stor[p]) = Entries(act_links) \cup Entries(link_stor[p])
        BY <2>2, <2>4, ConcatEntries
      <4>4. ItemsOf(link_file, Holding(rule_file, to_visit'), Links) =
              ItemsOf(link_file, Holding(rule_file, to_visit), Links)
                \cup ItemsOf(link_file, {p}, Links)
        BY <4>1, ItemsUnion
      <4>5. QED BY <4>2, <4>3, <4>4, <2>3, <2>4
    <3>2. CASE ~rule_file[p]
      <4>1. Holding(rule_file, to_visit') = Holding(rule_file, to_visit)
        BY <1>2, <2>1, <3>2 DEF VisitRule, Holding
      <4>2. act_links' = act_links BY <1>2, <3>2 DEF VisitRule
      <4>3. QED BY <4>1, <4>2, <2>4
    <3>3. QED BY <3>1, <3>2
  <2>6. QueryInv' BY <1>2, <2>1, <2>5 DEF VisitRule, IInv, QueryInv
  <2>7. QED BY <1>2, <2>6 DEF VisitRule, LookupInv
<1>3. CASE Dispatch
  <2>1. Entries(act_links) = Effective BY <1>3 DEF Dispatch, IInv, QueryInv, Effective
  <2>2. QueryInv' BY <1>3, <2>1 DEF Dispatch, IInv, QueryInv
  <2>3. LookupInv'
    <3>1. CASE act_links = <<>>
      <4>1. DOMAIN <<>> = {} OBVIOUS
      <4>2. Effective = {} BY <2>1, <3>1, <4>1 DEF Entries
      <4>3. \A k : Answer(Effective, res_file, k, <<>>) BY <4>2, NoHit
      <4>4. \A i \in DOMAIN keys : ret_buf[i] = <<>> BY <1>3 DEF Dispatch, IInv, QueryInv
      <4>5. QED BY <1>3, <3>1, <4>3, <4>4 DEF Dispatch, LookupInv
    <3>2. CASE act_links # <<>> BY <1>3, <3>2 DEF Dispatch, LookupInv
    <3>3. QED BY <3>1, <3>2
  <2>4. QED BY <2>2, <2>3
<1>4. QED BY <1>1, <1>2, <1>3

\* Sorting keeps the links and puts them in order.
LEMMA SortIInv ==
  ASSUME IInv, Get, SortLinks
  PROVE  QueryInv' /\ LookupInv'
<1> USE GetKeepsIndex
<1>1. act_links \in Seq(AllItems) /\ Entries(act_links) = Effective
  BY DEF SortLinks, IInv, QueryInv
<1>2. PICK q \in [DOMAIN act_links -> DOMAIN act_links] :
        /\ \A j \in DOMAIN act_links : \E i \in DOMAIN act_links : q[i] = j
        /\ act_links' = [i \in DOMAIN act_links |-> act_links[q[i]]]
        /\ \A i, j \in DOMAIN act_links : Before(act_links'[j], act_links'[i]) => j < i
  BY DEF SortLinks, Sorted
<1>3. DOMAIN act_links' = DOMAIN act_links BY <1>2
<1>4. act_links' \in Seq(AllItems)
  <2>1. DOMAIN act_links = 1 .. Len(act_links) /\ Len(act_links) \in Nat BY <1>1
  <2>2. \A i \in DOMAIN act_links : act_links[i] \in AllItems BY <1>1
  <2>3. QED BY <2>1, <2>2, <1>2
<1>5. Entries(act_links') = Entries(act_links) BY <1>2, <1>3 DEF Entries
<1>6. InOrder(act_links') BY <1>2, <1>3 DEF InOrder
<1>7. DOMAIN keys = 1 .. Len(keys) BY DEF IInv, FileInv
<1>8. QueryInv' BY <1>1, <1>4, <1>5 DEF SortLinks, IInv, QueryInv
<1>9. LookupInv' BY <1>6, <1>7, <1>8 DEF SortLinks, IInv, QueryInv, LookupInv
<1>10. QED BY <1>8, <1>9

\* Looking the keys up, one link at a time.
LEMMA LookupIInv ==
  ASSUME IInv, Get, LinkMiss \/ OverlaidHit \/ AllLinkedHit \/ NextKey \/ GetEnd
  PROVE  QueryInv' /\ LookupInv'
<1> USE GetKeepsIndex
<1>1. qpc = "lookup" /\ phase = "loaded" /\ UNCHANGED <<act_links, to_visit>>
  BY DEF LinkMiss, OverlaidHit, AllLinkedHit, NextKey, GetEnd, IInv, QueryInv
<1>2. act_links \in Seq(AllItems) /\ Entries(act_links) = Effective
  BY <1>1 DEF IInv, QueryInv
<1>3. /\ DOMAIN keys = 1 .. Len(keys) /\ Len(keys) \in Nat
      /\ DOMAIN act_links = 1 .. Len(act_links) /\ Len(act_links) \in Nat
      /\ ki \in Nat \ {0} /\ li \in Nat \ {0}
  BY <1>2 DEF IInv, FileInv, QueryInv
<1>4. CASE LinkMiss
  <2>1. Given(res_file, act_links[li], keys[ki]) = {}
    BY <1>1, <1>4, MatchesGiven DEF LinkMiss, Hits
  <2>2. QueryInv' BY <1>1, <1>4 DEF LinkMiss, IInv, QueryInv
  <2>3. /\ li' = li + 1 /\ Effective' = Effective
        /\ UNCHANGED <<keys, ki, qpc, ret_buf, act_links, res_file, view_mode>>
    BY <1>4 DEF LinkMiss, Effective
  <2>4. ASSUME view_mode = "OverlaidView", ki \in DOMAIN keys,
               NEW j \in DOMAIN act_links, j < li + 1
        PROVE  Given(res_file, act_links[j], keys[ki]) = {}
    <3>1. CASE j = li BY <2>1, <3>1
    <3>2. CASE j < li BY <1>1, <2>4, <3>2 DEF IInv, LookupInv
    <3>3. QED BY <1>3, <2>4, <3>1, <3>2
  <2>5. LookupInv' BY <1>1, <2>3, <2>4 DEF IInv, LookupInv
  <2>6. QED BY <2>2, <2>5
<1>5. CASE OverlaidHit
  <2> DEFINE link == act_links[li]
             k    == keys[ki]
  <2>1. PICK m \in Given(res_file, link, k) :
          /\ \A n \in Given(res_file, link, k) : m <= n
          /\ ret_buf' = IF link.is_neg THEN ret_buf
                        ELSE [ret_buf EXCEPT ![ki] = Append(@, <<link, m>>)]
    <3>1. Matches(link, k) = Given(res_file, link, k) BY <1>1, MatchesGiven
    <3>2. QED BY <1>5, <3>1, Zenon DEF OverlaidHit, Hits
  <2>2. /\ InOrder(act_links) /\ li \in DOMAIN act_links /\ ki \in DOMAIN keys
        /\ \A j \in DOMAIN act_links : j < li => Given(res_file, act_links[j], k) = {}
        /\ ret_buf[ki] = <<>> /\ DOMAIN ret_buf = DOMAIN keys
        /\ ki' = ki + 1 /\ li' = 1 /\ qpc' = "lookup"
    BY <1>1, <1>3, <1>5 DEF OverlaidHit, FirstLink, IInv, QueryInv, LookupInv
  <2>3. Answer(Effective, res_file, k, IF link.is_neg THEN <<>> ELSE <<<<link, m>>>>)
    <3>1. \A item \in AllItems : item.pri \in Nat BY ItemType DEF IInv
    <3>2. QED BY <1>2, <2>1, <2>2, <3>1, FirstHit
  <2>4. /\ ret_buf'[ki] = IF link.is_neg THEN <<>> ELSE <<<<link, m>>>>
        /\ DOMAIN ret_buf' = DOMAIN keys
        /\ \A i \in DOMAIN keys : i # ki => ret_buf'[i] = ret_buf[i]
    <3>1. Append(<<>>, <<link, m>>) = <<<<link, m>>>> OBVIOUS
    <3>2. QED BY <2>1, <2>2, <3>1
  <2>5. QueryInv' BY <1>1, <1>3, <2>2, <2>4 DEF IInv, QueryInv
  <2>6. \A i \in DOMAIN keys : i < ki' => Answer(Effective, res_file, keys[i], ret_buf'[i])
    <3> SUFFICES ASSUME NEW i \in DOMAIN keys, i < ki + 1
                 PROVE  Answer(Effective, res_file, keys[i], ret_buf'[i])
      BY <2>2
    <3>1. CASE i = ki BY <2>3, <2>4, <3>1
    <3>2. CASE i # ki
      <4>1. i < ki BY <1>3, <3>2
      <4>2. QED BY <1>1, <1>5, <2>4, <3>2, <4>1 DEF OverlaidHit, IInv, LookupInv
    <3>3. QED BY <3>1, <3>2
  <2>7. \A i \in DOMAIN keys : i >= ki' => ret_buf'[i] = <<>>
    BY <1>1, <1>3, <1>5, <2>2, <2>4 DEF OverlaidHit, IInv, LookupInv
  <2>8. LookupInv' BY <1>1, <1>3, <2>2, <2>6, <2>7 DEF LookupInv
  <2>9. QED BY <2>5, <2>8
<1>6. CASE AllLinkedHit
  <2>1. view_mode' # "OverlaidView" BY <1>6 DEF AllLinkedHit
  <2>2. DOMAIN ret_buf' = DOMAIN ret_buf BY <1>6 DEF AllLinkedHit
  <2>3. li' = li + 1 /\ ki' = ki /\ qpc' = qpc BY <1>6 DEF AllLinkedHit
  <2>4. QueryInv' BY <1>1, <1>3, <2>2, <2>3 DEF IInv, QueryInv
  <2>5. QED BY <2>1, <2>4 DEF LookupInv
<1>7. CASE NextKey
  <2>1. QueryInv' BY <1>1, <1>3, <1>7 DEF NextKey, FirstLink, IInv, QueryInv
  <2>2. ASSUME view_mode = "OverlaidView" PROVE LookupInv'
    <3>1. \A j \in DOMAIN act_links : Given(res_file, act_links[j], keys[ki]) = {}
      <4>1. ki \in DOMAIN keys /\ li \notin DOMAIN act_links BY <1>7 DEF NextKey, Looking
      <4>2. \A j \in DOMAIN act_links : j < li BY <1>3, <4>1
      <4>3. QED BY <1>1, <2>2, <4>1, <4>2 DEF IInv, LookupInv
    <3>2. \A item \in Effective : Given(res_file, item, keys[ki]) = {}
      BY <1>2, <3>1 DEF Entries
    <3>3. Answer(Effective, res_file, keys[ki], <<>>) BY <3>2, NoHit
    <3>4. ki \in DOMAIN keys /\ ret_buf[ki] = <<>>
      BY <1>1, <1>3, <1>7, <2>2 DEF NextKey, IInv, LookupInv
    <3>5. \A i \in DOMAIN keys : i < ki + 1 => Answer(Effective, res_file, keys[i], ret_buf[i])
      <4> SUFFICES ASSUME NEW i \in DOMAIN keys, i < ki + 1
                   PROVE  Answer(Effective, res_file, keys[i], ret_buf[i])
        OBVIOUS
      <4>1. CASE i = ki BY <3>3, <3>4, <4>1
      <4>2. CASE i # ki
        <5>1. i < ki BY <1>3, <4>2
        <5>2. QED BY <1>1, <2>2, <5>1 DEF IInv, LookupInv
      <4>3. QED BY <4>1, <4>2
    <3>6. \A i \in DOMAIN keys : i >= ki + 1 => ret_buf[i] = <<>>
      BY <1>1, <1>3, <2>2 DEF IInv, LookupInv
    <3>7. InOrder(act_links) BY <1>1, <2>2 DEF IInv, LookupInv
    <3>8. QED BY <1>1, <1>3, <1>7, <3>5, <3>6, <3>7 DEF NextKey, FirstLink, LookupInv
  <2>3. view_mode # "OverlaidView" => LookupInv' BY DEF LookupInv
  <2>4. QED BY <2>1, <2>2, <2>3
<1>8. CASE GetEnd
  <2>1. QueryInv' BY <1>1, <1>8 DEF GetEnd, IInv, QueryInv
  <2>2. \A i \in DOMAIN keys : i < ki BY <1>3, <1>8 DEF GetEnd
  <2>3. QED BY <1>1, <1>8, <2>1, <2>2 DEF GetEnd, IInv, LookupInv
<1>9. QED BY <1>4, <1>5, <1>6, <1>7, <1>8

\* Every step of the load and of the query keeps the invariant.
LEMMA NextIInv == IInv /\ [Next]_vars => IInv'
<1> SUFFICES ASSUME IInv, [Next]_vars PROVE IInv' OBVIOUS
<1>1. CASE LoadStep BY <1>1, LoadKeepsQuery, LoadIndexInv, LoadWholeInv DEF IInv
<1>2. CASE Get
  <2>1. QueryInv' /\ LookupInv'
    BY <1>2, CollectIInv, SortIInv, LookupIInv DEF Get
  <2>2. QED BY <1>2, <2>1, GetKeepsIndex DEF IInv
<1>3. CASE UNCHANGED vars
  <2>1. UNCHANGED <<backend, link_file, rule_file, res_file, phase, to_walk, rule_stor,
                    link_stor, res_stor, keys, view_mode, qpc, to_visit, act_links, ki, li, ret_buf>>
    BY <1>3 DEF vars
  <2>2. Effective' = Effective /\ AllItems' = AllItems /\ Walked' = Walked
    BY <2>1 DEF Effective, AllItems, Walked
  <2>3. FileInv' /\ IndexInv' /\ WholeInv'
    BY <2>1, <2>2 DEF IInv, FileInv, IndexInv, WholeInv
  <2>4. QueryInv' BY <2>1, <2>2 DEF IInv, QueryInv
  <2>5. LookupInv' BY <2>1, <2>2 DEF IInv, LookupInv
  <2>6. QED BY <2>3, <2>4, <2>5 DEF IInv
<1>4. QED BY <1>1, <1>2, <1>3 DEF Next

\* The invariant gives the answers the files call for.
LEMMA InvAnswers == IInv => OverlaidCorrect
<1> SUFFICES ASSUME IInv, qpc = "done", view_mode = "OverlaidView", NEW i \in DOMAIN keys
             PROVE  LET W == Winners(keys[i]) IN
                    IF W = {} \/ \E item \in W : item.is_neg
                    THEN ret_buf[i] = <<>>
                    ELSE \E item \in W :
                           \E j \in Gives(item, keys[i]) :
                             /\ \A m \in Gives(item, keys[i]) : j <= m
                             /\ ret_buf[i] = <<<<item, j>>>>
  BY DEF OverlaidCorrect
<1>1. Answer(Effective, res_file, keys[i], ret_buf[i]) BY DEF IInv, LookupInv
<1>2. ItemsInForce = Effective BY DEF ItemsInForce, Effective, ItemsOf, Holding, IdxLinkItem
<1>3. \A item : Gives(item, keys[i]) = Given(res_file, item, keys[i]) BY DEF Gives, Given
<1>4. Winners(keys[i]) = Best(Effective, res_file, keys[i])
  BY <1>2, <1>3 DEF Winners, Best
<1>5. QED BY <1>1, <1>3, <1>4 DEF Answer

(***************************************************************************)
(* querier.rs, fetch_res_by_overlaid_view: whatever the order of walking,  *)
(* visiting and sorting, every key of a finished query has the answer that *)
(* OverlaidCorrect reads off the files.                                    *)
(***************************************************************************)
THEOREM OverlaidIsCorrect == Spec => []OverlaidCorrect
<1>1. Init => IInv BY InitIInv
<1>2. IInv /\ [Next]_vars => IInv' BY NextIInv
<1>3. IInv => OverlaidCorrect BY InvAnswers
<1>4. QED BY <1>1, <1>2, <1>3, PTL DEF Spec

(***************************************************************************)
(* storage_backends/mod.rs, walk_dir: on the filesystem backend no query   *)
(* ever runs on an index that lacks a file of the namespace, or a resource *)
(* that one of its links names, whichever files are bad and in whatever    *)
(* order they are walked.                                                  *)
(***************************************************************************)
THEOREM IndexIsWhole == Spec => []WholeIndex
<1>1. IInv => WholeIndex
  <2> SUFFICES ASSUME IInv, qpc # "idle", backend = "filesystem"
               PROVE  /\ rule_stor = DOMAIN rule_file /\ res_stor = DOMAIN res_file
                      /\ \A p \in LinkPaths :
                           /\ link_file[p] # Undecodable
                           /\ \A i \in DOMAIN link_file[p].reses :
                                \E j \in DOMAIN link_stor[link_file[p].rule] :
                                  link_stor[link_file[p].rule][j] = IdxLinkItem(p, i)
    BY DEF WholeIndex
  <2>1. /\ rule_stor = DOMAIN rule_file /\ res_stor = DOMAIN res_file
        /\ \A p \in LinkPaths : link_file[p] # Undecodable
    BY DEF IInv, FileInv, IndexInv, WholeInv, QueryInv, Bad, Decodable
  <2>2. ASSUME NEW p \in LinkPaths, NEW i \in DOMAIN link_file[p].reses
        PROVE  \E j \in DOMAIN link_stor[link_file[p].rule] :
                 link_stor[link_file[p].rule][j] = IdxLinkItem(p, i)
    <3>1. /\ p \in Links /\ link_file[p] \in LinkSpecs
          /\ link_file[p].rule \in RulePaths
      BY <2>1, LinkSpecsAssumption DEF IInv, FileInv, Decodable
    <3>2. Entries(link_stor[link_file[p].rule])
            = ItemsOf(link_file, {link_file[p].rule}, Links)
      BY <3>1 DEF IInv, IndexInv, QueryInv, Walked
    <3>3. IdxLinkItem(p, i) \in ItemsOf(link_file, {link_file[p].rule}, Links)
      BY <3>1 DEF ItemsOf, IdxLinkItem
    <3>4. QED BY <3>2, <3>3 DEF Entries
  <2>3. QED BY <2>1, <2>2
<1>2. QED BY InitIInv, NextIInv, <1>1, PTL DEF Spec

-----------------------------------------------------------------------------
(***************************************************************************)
(* The view of all linked resources, and the types.                        *)
(***************************************************************************)

\* Two lists without repetition that have nothing in common make one.
LEMMA UniqueConcat ==
  ASSUME NEW S, NEW s \in Seq(S), NEW t \in Seq(S), Unique(s), Unique(t),
         Entries(s) \cap Entries(t) = {}
  PROVE  Unique(s \o t)
<1>1. /\ DOMAIN (s \o t) = 1 .. Len(s) + Len(t) /\ Len(s) \in Nat /\ Len(t) \in Nat
      /\ DOMAIN s = 1 .. Len(s) /\ DOMAIN t = 1 .. Len(t)
  OBVIOUS
<1>2. \A i \in 1 .. Len(s) : (s \o t)[i] = s[i] OBVIOUS
<1>3. \A i \in 1 .. Len(s) + Len(t) : i > Len(s) =>
        i - Len(s) \in DOMAIN t /\ (s \o t)[i] = t[i - Len(s)]
  BY <1>1
<1>4. SUFFICES ASSUME NEW i \in 1 .. Len(s) + Len(t), NEW j \in 1 .. Len(s) + Len(t),
                      (s \o t)[i] = (s \o t)[j]
               PROVE  i = j
  BY <1>1 DEF Unique
<1>5. CASE i <= Len(s) /\ j <= Len(s) BY <1>1, <1>2, <1>4, <1>5 DEF Unique
<1>6. CASE i > Len(s) /\ j > Len(s)
  <2>1. i - Len(s) = j - Len(s) BY <1>3, <1>4, <1>6 DEF Unique
  <2>2. QED BY <2>1, <1>1
<1>7. CASE i <= Len(s) /\ j > Len(s)
  <2>1. (s \o t)[i] \in Entries(s) BY <1>1, <1>2, <1>7 DEF Entries
  <2>2. (s \o t)[j] \in Entries(t) BY <1>3, <1>7 DEF Entries
  <2>3. QED BY <2>1, <2>2, <1>4
<1>8. CASE i > Len(s) /\ j <= Len(s)
  <2>1. (s \o t)[j] \in Entries(s) BY <1>1, <1>2, <1>8 DEF Entries
  <2>2. (s \o t)[i] \in Entries(t) BY <1>3, <1>8 DEF Entries
  <2>3. QED BY <2>1, <2>2, <1>4
<1>9. QED BY <1>1, <1>5, <1>6, <1>7, <1>8

\* An interval from 1 has as many elements as its end says.
LEMMA Interval ==
  ASSUME NEW n \in Nat
  PROVE  IsFiniteSet(1 .. n) /\ Cardinality(1 .. n) = n
<1>1. 1 \in Int /\ n \in Int OBVIOUS
<1>2. IsFiniteSet(1 .. n) /\ Cardinality(1 .. n) = IF 1 > n THEN 0 ELSE n - 1 + 1
  BY <1>1, FS_Interval
<1>3. QED BY <1>2

\* A rearrangement of a list repeats nothing.
LEMMA UniquePermuted ==
  ASSUME NEW n \in Nat, NEW q \in [1 .. n -> 1 .. n],
         \A j \in 1 .. n : \E i \in 1 .. n : q[i] = j,
         NEW i \in 1 .. n, NEW j \in 1 .. n, q[i] = q[j]
  PROVE  i = j
<1>1. q \in Surjection(1 .. n, 1 .. n) BY DEF Surjection
<1>2. q \in Injection(1 .. n, 1 .. n) BY <1>1, Interval, FS_Surjection
<1>3. QED BY <1>2 DEF Injection, IsInjective

\* What a link has for a key comes out once each, in the order of the resource.
LEMMA CollectedProperties ==
  ASSUME NEW M \in SUBSET Nat, IsFiniteSet(M), NEW T, NEW link \in T,
         NEW c \in Collected(link, M)
  PROVE  c \in Seq(T \X Nat) /\ Unique(c) /\ Entries(c) = {<<link, j>> : j \in M}
<1>1. PICK s \in [1 .. Cardinality(M) -> M] :
        /\ \A j \in M : \E n \in DOMAIN s : s[n] = j
        /\ \A m, n \in DOMAIN s : m < n => s[m] < s[n]
        /\ c = [n \in DOMAIN s |-> <<link, s[n]>>]
  BY DEF Collected
<1>2. Cardinality(M) \in Nat BY FS_CardinalityType
<1>3. DOMAIN s = 1 .. Cardinality(M) /\ DOMAIN c = 1 .. Cardinality(M) BY <1>1
<1>4. \A n \in DOMAIN s : s[n] \in M /\ s[n] \in Nat /\ n \in Nat
  <2>1. \A n \in DOMAIN s : s[n] \in M BY <1>1
  <2>2. \A n \in 1 .. Cardinality(M) : n \in Nat BY <1>2
  <2>3. QED BY <1>3, <2>1, <2>2
<1>5. c \in Seq(T \X Nat)
  <2>1. \A n \in 1 .. Cardinality(M) : c[n] \in T \X Nat BY <1>1, <1>3, <1>4
  <2>2. QED BY <1>1, <1>2, <1>3, <2>1
<1>6. Unique(c)
  <2>1. SUFFICES ASSUME NEW m \in DOMAIN s, NEW n \in DOMAIN s, s[m] = s[n]
                 PROVE  m = n
    BY <1>1, <1>3 DEF Unique
  <2>2. ~(m < n) /\ ~(n < m) BY <1>1, <1>4, <2>1
  <2>3. QED BY <1>4, <2>2
<1>7. Entries(c) = {<<link, j>> : j \in M} BY <1>1, <1>3, <1>4 DEF Entries
<1>8. QED BY <1>5, <1>6, <1>7

\* A resource gives a key finitely many values.
LEMMA GivenFinite ==
  ASSUME ListInv, NEW item, NEW k
  PROVE  IsFiniteSet(Given(res_file, item, k)) /\ Given(res_file, item, k) \in SUBSET Nat
<1>1. CASE item.abs_res_path \in Decodable(res_file)
  <2> DEFINE s == res_file[item.abs_res_path]
  <2>1. s \in Seq(Keys) BY <1>1 DEF ListInv
  <2>2. Len(s) \in Nat /\ DOMAIN s = 1 .. Len(s) BY <2>1
  <2>3. Given(res_file, item, k) \subseteq 1 .. Len(s) BY <1>1, <2>2 DEF Given
  <2>4. QED BY <2>2, <2>3, Interval, FS_Subset
<1>2. CASE item.abs_res_path \notin Decodable(res_file)
  <2>1. Given(res_file, item, k) = {} BY <1>2 DEF Given
  <2>2. QED BY <2>1, FS_EmptySet
<1>3. QED BY <1>1, <1>2

LEMMA InitListInv == Init => ListInv /\ AllLinkedInv
<1> SUFFICES ASSUME Init PROVE ListInv /\ AllLinkedInv OBVIOUS
<1> USE DEF Init, InitIndex
<1>1. AllLinkedInv BY DEF AllLinkedInv
<1>2. \A p \in Decodable(res_file) : res_file[p] \in Seq(Keys)
  BY ResSpecsAssumption DEF Decodable
<1>3. Unique(<<>>) BY DEF Unique
<1>4. Len(keys) \in Nat /\ Len(act_links) = 0 BY QueriesAssumption
<1>5. \A p \in RulePaths : Unique(link_stor[p]) BY <1>3
<1>6. QED BY <1>1, <1>2, <1>3, <1>4, <1>5 DEF ListInv

\* A link file is walked once, so none of its items is in the index yet.
LEMMA LoadListInv == IInv /\ ListInv /\ LoadStep => ListInv'
<1> SUFFICES ASSUME IInv, ListInv, LoadStep PROVE ListInv' OBVIOUS
<1>1. UNCHANGED <<link_file, res_file, keys, to_visit, act_links, ki, li>>
  BY DEF LoadStep, Load, LoadRule, LoadLink, LoadRes, SkipFile, LoadFails, NextPhase
<1>2. rule_stor' \subseteq RulePaths /\ res_stor' \subseteq ResPaths
  BY DEF LoadStep, Load, LoadRule, LoadLink, LoadRes, SkipFile, LoadFails, NextPhase,
         AddRule, AddRes, ListInv
<1>3. Decodable(res_file)' = Decodable(res_file) BY <1>1
<1>4. \A p \in RulePaths : Unique(link_stor'[p])
  <2>1. ASSUME NEW p \in LinkPaths, LoadLink(p), NEW r \in RulePaths
        PROVE  Unique(link_stor'[r])
    <3> DEFINE new == [i \in DOMAIN link_file[p].reses |-> IdxLinkItem(p, i)]
    <3>1. p \in Links /\ link_file[p].rule \in RulePaths /\ link_file[p].reses \in Seq(ResPaths)
      BY <2>1, LinkSpecsAssumption DEF LoadLink, IInv, FileInv, Decodable
    <3>2. CASE r = link_file[p].rule
      <4>1. link_stor'[r] = link_stor[r] \o new
        BY <2>1, <3>1, <3>2 DEF LoadLink, AddLink, IInv, IndexInv
      <4>2. \A i \in DOMAIN new : new[i].link_path = p /\ new[i].pos = i
        BY DEF IdxLinkItem
      <4>3. Unique(new) BY <4>2 DEF Unique
      <4>4. p \notin Walked BY <2>1 DEF LoadLink, Walked
      <4>5. \A e \in Entries(link_stor[r]) : e.link_path # p
        <5>1. Entries(link_stor[r]) = ItemsOf(link_file, {r}, Walked)
          BY <2>1 DEF LoadLink, IInv, IndexInv
        <5>2. QED BY <4>4, <5>1 DEF ItemsOf
      <4>6. new \in Seq(AllItems)
        <5>1. \A i \in DOMAIN link_file[p].reses : IdxLinkItem(p, i) \in AllItems
          BY <3>1 DEF AllItems, ItemsOf, IdxLinkItem
        <5>2. DOMAIN link_file[p].reses = 1 .. Len(link_file[p].reses)
              /\ Len(link_file[p].reses) \in Nat
          BY <3>1
        <5>3. QED BY <5>1, <5>2
      <4>7. link_stor[r] \in Seq(AllItems) /\ Unique(link_stor[r])
        BY DEF IInv, IndexInv, ListInv
      <4> HIDE DEF new
      <4>8. Entries(link_stor[r]) \cap Entries(new) = {}
        <5>1. \A e \in Entries(new) : e.link_path = p BY <4>2 DEF Entries
        <5>2. QED BY <4>5, <5>1
      <4>9. QED BY <4>1, <4>3, <4>8, <4>6, <4>7, UniqueConcat
    <3>3. CASE r # link_file[p].rule
      <4>1. link_stor'[r] = link_stor[r]
        BY <2>1, <3>1, <3>3 DEF LoadLink, AddLink, IInv, IndexInv
      <4>2. QED BY <4>1 DEF ListInv, Unique
    <3>4. QED BY <3>2, <3>3
  <2>2. CASE UNCHANGED link_stor BY <2>2 DEF ListInv, Unique
  <2>3. (\E p \in LinkPaths : LoadLink(p)) \/ UNCHANGED link_stor
    BY DEF LoadStep, Load, LoadRule, LoadRes, SkipFile, LoadFails, NextPhase
  <2>4. QED BY <2>1, <2>2, <2>3
<1>5. QED BY <1>1, <1>2, <1>3, <1>4 DEF ListInv, Unique

\* A query visits a rule once, and the links of different rules are different.
LEMMA VisitUnique ==
  ASSUME IInv, ListInv, NEW p \in RulePaths, VisitRule(p)
  PROVE  Unique(act_links')
<1>1. CASE ~rule_file[p] BY <1>1 DEF VisitRule, ListInv, Unique
<1>2. CASE rule_file[p]
  <2>1. phase = "loaded" BY DEF VisitRule, IInv, QueryInv
  <2>2. Entries(link_stor[p]) = ItemsOf(link_file, {p}, Links)
    <3>1. Walked = Links BY <2>1 DEF Walked
    <3>2. QED BY <2>1, <3>1 DEF IInv, IndexInv
  <2>3. Entries(act_links) = ItemsOf(link_file, Holding(rule_file, to_visit), Links)
    BY DEF VisitRule, IInv, QueryInv
  <2>4. p \notin Holding(rule_file, to_visit) BY DEF VisitRule, Holding
  <2>5. \A e \in Entries(link_stor[p]) : link_file[e.link_path].rule = p
    BY <2>2 DEF ItemsOf
  <2>6. \A e \in Entries(act_links) : link_file[e.link_path].rule # p
    BY <2>3, <2>4 DEF ItemsOf
  <2>7. Entries(act_links) \cap Entries(link_stor[p]) = {} BY <2>5, <2>6
  <2>8. act_links \in Seq(AllItems) /\ link_stor[p] \in Seq(AllItems)
    BY DEF IInv, IndexInv, QueryInv
  <2>9. Unique(act_links) /\ Unique(link_stor[p]) BY DEF ListInv
  <2>10. act_links' = act_links \o link_stor[p] BY <1>2 DEF VisitRule
  <2>11. QED BY <2>7, <2>8, <2>9, <2>10, UniqueConcat
<1>3. QED BY <1>1, <1>2

LEMMA GetListInv == IInv /\ ListInv /\ Get => ListInv'
<1> SUFFICES ASSUME IInv, ListInv, Get PROVE ListInv' OBVIOUS
<1>1. /\ UNCHANGED <<link_file, rule_file, res_file, keys, view_mode, phase,
                     rule_stor, link_stor, res_stor>>
      /\ act_links \in Seq(AllItems) /\ Len(act_links) \in Nat
      /\ DOMAIN act_links = 1 .. Len(act_links)
      /\ keys \in Seq(Keys) /\ Len(keys) \in Nat /\ DOMAIN keys = 1 .. Len(keys)
      /\ ki \in Nat \ {0} /\ li \in Nat \ {0}
  BY GetKeepsIndex DEF IInv, FileInv, QueryInv
<1>2. /\ Decodable(res_file)' = Decodable(res_file)
      /\ \A p \in RulePaths : Unique(link_stor'[p])
      /\ \A p \in Decodable(res_file)' : res_file'[p] \in Seq(Keys)
  BY <1>1 DEF ListInv
<1>3. to_visit' \subseteq RulePaths
  BY DEF Get, GetBegin, VisitRule, Dispatch, SortLinks, LinkMiss, OverlaidHit,
         AllLinkedHit, NextKey, GetEnd, ListInv
<1>4. Unique(act_links')
  <2>1. ASSUME NEW p \in RulePaths, VisitRule(p) PROVE Unique(act_links')
    BY <2>1, VisitUnique
  <2>2. CASE SortLinks
    <3> DEFINE n == Len(act_links)
    <3>0. PICK q \in [DOMAIN act_links -> DOMAIN act_links] :
            /\ \A j \in DOMAIN act_links : \E i \in DOMAIN act_links : q[i] = j
            /\ act_links' = [i \in DOMAIN act_links |-> act_links[q[i]]]
      BY <2>2 DEF SortLinks, Sorted
    <3>1. /\ q \in [1 .. n -> 1 .. n] /\ \A j \in 1 .. n : \E i \in 1 .. n : q[i] = j
          /\ act_links' = [i \in 1 .. n |-> act_links[q[i]]]
      BY <1>1, <3>0
    <3>2. ASSUME NEW i \in 1 .. n, NEW j \in 1 .. n, act_links'[i] = act_links'[j]
          PROVE  i = j
      <4>1. q[i] = q[j] BY <1>1, <3>1, <3>2 DEF ListInv, Unique
      <4>2. QED BY <1>1, <3>1, <4>1, UniquePermuted
    <3>3. DOMAIN act_links' = 1 .. n BY <3>1
    <3>4. QED BY <3>2, <3>3 DEF Unique
  <2>3. CASE UNCHANGED act_links BY <2>3 DEF ListInv, Unique
  <2>4. (\E p \in RulePaths : VisitRule(p)) \/ SortLinks \/ UNCHANGED act_links
    BY DEF Get, GetBegin, Dispatch, LinkMiss, OverlaidHit, AllLinkedHit, NextKey, GetEnd
  <2>5. QED BY <2>1, <2>2, <2>3, <2>4
<1>5. ki' <= Len(keys') + 1
  BY <1>1 DEF Get, GetBegin, VisitRule, Dispatch, SortLinks, LinkMiss, OverlaidHit,
         AllLinkedHit, NextKey, GetEnd, ListInv
<1>6. li' <= Len(act_links') + 1
  <2>1. CASE UNCHANGED act_links
    <3>1. li' = li \/ li' = 1 \/ (li' = li + 1 /\ li \in DOMAIN act_links)
      BY DEF Get, GetBegin, VisitRule, Dispatch, SortLinks, LinkMiss, OverlaidHit,
             AllLinkedHit, NextKey, GetEnd, FirstLink
    <3>2. QED BY <1>1, <2>1, <3>1 DEF ListInv
  <2>2. CASE (\E p \in RulePaths : VisitRule(p)) \/ SortLinks
    <3>1. li' = 1 BY <2>2 DEF VisitRule, SortLinks, IInv, QueryInv
    <3>2. act_links' \in Seq(AllItems)
      BY <2>2, CollectIInv, SortIInv, GetKeepsIndex DEF QueryInv
    <3>3. Len(act_links') \in Nat BY <3>2
    <3>4. QED BY <3>1, <3>3
  <2>3. (\E p \in RulePaths : VisitRule(p)) \/ SortLinks \/ UNCHANGED act_links
    BY DEF Get, GetBegin, Dispatch, LinkMiss, OverlaidHit, AllLinkedHit, NextKey, GetEnd
  <2>4. QED BY <2>1, <2>2, <2>3
<1>7. QED BY <1>1, <1>2, <1>3, <1>4, <1>5, <1>6 DEF ListInv

\* Before the first link is asked there is nothing.
LEMMA StartAllLinked ==
  ASSUME IInv, DOMAIN keys = 1 .. Len(keys), Len(keys) \in Nat, ki = 1, li = 1,
         act_links \in Seq(AllItems), \A i \in DOMAIN keys : ret_buf[i] = <<>>
  PROVE  \A i \in DOMAIN keys :
           /\ ret_buf[i] \in Seq(AllItems \X Nat) /\ Unique(ret_buf[i])
           /\ Entries(ret_buf[i]) = ValuesOf({act_links[j] : j \in Seen(i)}, res_file, keys[i])
<1> TAKE i \in DOMAIN keys
<1>1. Seen(i) = {} BY DEF Seen
<1>2. ValuesOf({act_links[j] : j \in Seen(i)}, res_file, keys[i]) = {} BY <1>1 DEF ValuesOf
<1>3. Entries(<<>>) = {}
  <2>1. DOMAIN <<>> = {} OBVIOUS
  <2>2. QED BY <2>1 DEF Entries
<1>4. Unique(<<>>) BY DEF Unique
<1>5. <<>> \in Seq(AllItems \X Nat) OBVIOUS
<1>6. QED BY <1>2, <1>3, <1>4, <1>5

\* Asking one more link.
LEMMA AskAllLinked ==
  ASSUME IInv, ListInv, AllLinkedInv, view_mode = "AllLinkedResView", qpc = "lookup",
         ki \in DOMAIN keys, li \in DOMAIN act_links, NEW buf,
         LinkMiss \/ AllLinkedHit, buf = ret_buf'[ki]
  PROVE  /\ buf \in Seq(AllItems \X Nat) /\ Unique(buf)
         /\ Entries(buf) = ValuesOf({act_links[j] : j \in {n \in DOMAIN act_links : n < li + 1}},
                                    res_file, keys[ki])
<1> DEFINE link == act_links[li]
           k    == keys[ki]
           M    == Given(res_file, link, k)
           old  == {act_links[j] : j \in Seen(ki)}
           new  == {act_links[j] : j \in {n \in DOMAIN act_links : n < li + 1}}
<1>1. /\ act_links \in Seq(AllItems) /\ DOMAIN act_links = 1 .. Len(act_links)
      /\ Len(act_links) \in Nat /\ ki \in Nat /\ li \in Nat /\ phase = "loaded"
      /\ DOMAIN ret_buf = DOMAIN keys
  BY DEF IInv, QueryInv
<1>2. new = old \cup {link} BY <1>1 DEF Seen
<1>3. link \notin old
  <2>1. \A j \in Seen(ki) : j # li /\ j \in DOMAIN act_links BY <1>1 DEF Seen
  <2>2. QED BY <2>1 DEF ListInv, Unique
<1>4. /\ ret_buf[ki] \in Seq(AllItems \X Nat) /\ Unique(ret_buf[ki])
      /\ Entries(ret_buf[ki]) = ValuesOf(old, res_file, k)
  BY DEF AllLinkedInv
<1>5. ValuesOf(new, res_file, k) = ValuesOf(old, res_file, k) \cup {<<link, j>> : j \in M}
  BY <1>2 DEF ValuesOf
<1>6. Hits = M BY <1>1, MatchesGiven DEF Hits
<1>7. CASE LinkMiss
  <2>1. M = {} /\ ret_buf' = ret_buf BY <1>6, <1>7 DEF LinkMiss
  <2>2. ValuesOf(new, res_file, k) = ValuesOf(old, res_file, k)
    <3>1. {<<link, j>> : j \in M} = {} BY <2>1
    <3>2. QED BY <1>5, <3>1
  <2>3. buf = ret_buf[ki] BY <2>1
  <2> HIDE DEF new, old, k
  <2>4. QED BY <1>4, <2>2, <2>3 DEF new, k
<1>8. CASE AllLinkedHit
  <2>1. PICK c \in Collected(link, M) : ret_buf' = [ret_buf EXCEPT ![ki] = @ \o c]
    BY <1>6, <1>8 DEF AllLinkedHit
  <2>2. buf = ret_buf[ki] \o c BY <1>1, <2>1
  <2>3. IsFiniteSet(M) /\ M \in SUBSET Nat BY GivenFinite
  <2>4. link \in AllItems BY <1>1
  <2>5. c \in Seq(AllItems \X Nat) /\ Unique(c) /\ Entries(c) = {<<link, j>> : j \in M}
    <3> HIDE DEF link, M
    <3>1. QED BY <2>1, <2>3, <2>4, CollectedProperties
  <2>6. Entries(ret_buf[ki]) \cap Entries(c) = {} BY <1>3, <1>4, <2>5 DEF ValuesOf
  <2> DEFINE T == AllItems \X Nat
             b == ret_buf[ki]
  <2>7. /\ b \in Seq(T) /\ Unique(b) /\ c \in Seq(T) /\ Unique(c)
        /\ Entries(b) \cap Entries(c) = {} /\ buf = b \o c
    BY <1>4, <2>2, <2>5, <2>6
  <2>8. buf \in Seq(T) /\ Unique(buf) /\ Entries(buf) = Entries(b) \cup Entries(c)
    <3> HIDE DEF T, b
    <3>1. QED BY <2>7, ConcatEntries, UniqueConcat
  <2> HIDE DEF new, old, k, link, M
  <2>9. QED BY <1>4, <1>5, <2>5, <2>8 DEF new, k
<1>9. QED BY <1>7, <1>8

\* Every step of a query on all linked resources keeps what it has.
LEMMA GetAllLinkedInv == IInv /\ ListInv /\ AllLinkedInv /\ Get => AllLinkedInv'
<1> SUFFICES ASSUME IInv, ListInv, AllLinkedInv, Get, view_mode = "AllLinkedResView"
             PROVE  AllLinkedInv'
  BY GetKeepsIndex DEF AllLinkedInv
<1>1. /\ UNCHANGED <<link_file, res_file, keys, view_mode>>
      /\ Effective' = Effective /\ AllItems' = AllItems
  BY GetKeepsIndex
<1>2. /\ act_links \in Seq(AllItems) /\ DOMAIN act_links = 1 .. Len(act_links)
      /\ Len(act_links) \in Nat /\ DOMAIN keys = 1 .. Len(keys) /\ Len(keys) \in Nat
      /\ ki \in Nat \ {0} /\ li \in Nat \ {0}
      /\ DOMAIN ret_buf = DOMAIN keys
  BY DEF IInv, FileInv, QueryInv
<1>3. CASE GetBegin \/ \E p \in RulePaths : VisitRule(p)
  BY <1>3 DEF GetBegin, VisitRule, AllLinkedInv
<1>4. CASE Dispatch
  <2>1. /\ UNCHANGED <<act_links, ki, li, ret_buf>> /\ ki = 1 /\ li = 1
        /\ \A i \in DOMAIN keys : ret_buf[i] = <<>>
        /\ Entries(act_links) = Effective
    BY <1>4 DEF Dispatch, IInv, QueryInv, Effective
  <2>2. \A i : Seen(i)' = Seen(i) BY <2>1 DEF Seen
  <2>3. \A i \in DOMAIN keys :
          /\ ret_buf[i] \in Seq(AllItems \X Nat) /\ Unique(ret_buf[i])
          /\ Entries(ret_buf[i]) = ValuesOf({act_links[j] : j \in Seen(i)}, res_file, keys[i])
    BY <1>2, <2>1, StartAllLinked
  <2>4. qpc' \in {"lookup", "done"} /\ (qpc' = "done" => act_links = <<>>)
    BY <1>4 DEF Dispatch
  <2>5. ASSUME qpc' = "done", NEW i \in DOMAIN keys
        PROVE  Entries(ret_buf[i]) = ValuesOf(Effective, res_file, keys[i])
    <3>1. DOMAIN <<>> = {} OBVIOUS
    <3>2. Effective = {} BY <2>1, <2>4, <2>5, <3>1 DEF Entries
    <3>3. Entries(ret_buf[i]) = {} BY <2>1, <3>1 DEF Entries
    <3>4. QED BY <3>2, <3>3 DEF ValuesOf
  <2>6. CASE qpc' = "done" BY <1>1, <2>1, <2>3, <2>5, <2>6 DEF AllLinkedInv
  <2>7. CASE qpc' = "lookup" BY <1>1, <2>1, <2>2, <2>3, <2>7 DEF AllLinkedInv
  <2>8. QED BY <2>4, <2>6, <2>7
<1>5. CASE SortLinks
  <2>1. /\ ki' = 1 /\ li' = 1 /\ \A i \in DOMAIN keys : ret_buf'[i] = <<>>
        /\ qpc' = "lookup"
    BY <1>5 DEF SortLinks, IInv, QueryInv
  <2>2. Seen(1)' = {} /\ \A i \in DOMAIN keys : Seen(i)' = {}
    <3>1. act_links' \in Seq(AllItems) BY <1>1, <1>5, SortIInv DEF QueryInv
    <3>2. DOMAIN act_links' = 1 .. Len(act_links') BY <3>1
    <3>3. QED BY <1>2, <2>1, <3>2 DEF Seen
  <2>3. ASSUME NEW i \in DOMAIN keys
        PROVE  /\ ret_buf'[i] \in Seq(AllItems \X Nat) /\ Unique(ret_buf'[i])
               /\ Entries(ret_buf'[i]) = ValuesOf({act_links'[j] : j \in Seen(i)'}, res_file, keys[i])
    <3>1. DOMAIN <<>> = {} OBVIOUS
    <3>2. Entries(<<>>) = {} /\ Unique(<<>>) BY <3>1 DEF Entries, Unique
    <3>3. ValuesOf({act_links'[j] : j \in Seen(i)'}, res_file, keys[i]) = {}
      BY <2>2 DEF ValuesOf
    <3>4. <<>> \in Seq(AllItems \X Nat) OBVIOUS
    <3>5. QED BY <2>1, <3>2, <3>3, <3>4
  <2>4. QED BY <1>1, <2>1, <2>3 DEF AllLinkedInv
<1>6. CASE LinkMiss \/ AllLinkedHit
  <2>1. /\ qpc = "lookup" /\ qpc' = "lookup" /\ ki \in DOMAIN keys /\ li \in DOMAIN act_links
        /\ ki' = ki /\ li' = li + 1 /\ act_links' = act_links
    BY <1>6 DEF LinkMiss, AllLinkedHit
  <2>2. \A i \in DOMAIN keys : i # ki => ret_buf'[i] = ret_buf[i] /\ Seen(i)' = Seen(i)
    <3>1. \A i \in DOMAIN keys : i # ki => ret_buf'[i] = ret_buf[i]
      BY <1>2, <1>6 DEF LinkMiss, AllLinkedHit
    <3>2. \A i \in DOMAIN keys : i # ki => Seen(i)' = Seen(i) BY <2>1 DEF Seen
    <3>3. QED BY <3>1, <3>2
  <2>3. Seen(ki)' = {n \in DOMAIN act_links : n < li + 1} BY <1>2, <2>1 DEF Seen
  <2>4. /\ ret_buf'[ki] \in Seq(AllItems \X Nat) /\ Unique(ret_buf'[ki])
        /\ Entries(ret_buf'[ki]) = ValuesOf({act_links[j] : j \in Seen(ki)'}, res_file, keys[ki])
    BY <1>6, <2>1, <2>3, AskAllLinked
  <2>5. ASSUME NEW i \in DOMAIN keys
        PROVE  /\ ret_buf'[i] \in Seq(AllItems \X Nat) /\ Unique(ret_buf'[i])
               /\ Entries(ret_buf'[i]) = ValuesOf({act_links[j] : j \in Seen(i)'}, res_file, keys[i])
    <3>1. CASE i = ki BY <2>1, <2>4, <3>1
    <3>2. CASE i # ki BY <2>1, <2>2, <3>2 DEF AllLinkedInv
    <3>3. QED BY <3>1, <3>2
  <2>6. QED BY <1>1, <2>1, <2>5 DEF AllLinkedInv
<1>7. CASE OverlaidHit BY <1>7 DEF OverlaidHit
<1>8. CASE NextKey
  <2>1. /\ qpc = "lookup" /\ qpc' = "lookup" /\ li \notin DOMAIN act_links
        /\ ki' = ki + 1 /\ li' = 1 /\ UNCHANGED <<act_links, ret_buf>>
    BY <1>8 DEF NextKey, FirstLink
  <2>2. \A i \in DOMAIN keys : Seen(i)' = Seen(i) BY <1>2, <2>1 DEF Seen
  <2>3. QED BY <1>1, <2>1, <2>2 DEF AllLinkedInv
<1>9. CASE GetEnd
  <2>1. /\ qpc = "lookup" /\ qpc' = "done" /\ ki \notin DOMAIN keys /\ UNCHANGED ret_buf
        /\ Entries(act_links) = Effective
    BY <1>9 DEF GetEnd, IInv, QueryInv
  <2>2. ASSUME NEW i \in DOMAIN keys PROVE {act_links[j] : j \in Seen(i)} = Effective
    <3>1. i < ki BY <1>2, <2>1
    <3>2. Seen(i) = DOMAIN act_links BY <3>1 DEF Seen
    <3>3. QED BY <2>1, <3>2 DEF Entries
  <2>3. QED BY <1>1, <2>1, <2>2 DEF AllLinkedInv
<1>10. QED BY <1>3, <1>4, <1>5, <1>6, <1>7, <1>8, <1>9 DEF Get

LEMMA LoadAllLinkedInv == IInv /\ AllLinkedInv /\ LoadStep => AllLinkedInv'
<1> SUFFICES ASSUME IInv, AllLinkedInv, LoadStep PROVE AllLinkedInv' OBVIOUS
<1>1. UNCHANGED <<link_file, rule_file, res_file, keys, view_mode, qpc, act_links, ki, li, ret_buf>>
  BY DEF LoadStep, Load, LoadRule, LoadLink, LoadRes, SkipFile, LoadFails, NextPhase
<1>2. Effective' = Effective /\ AllItems' = AllItems /\ \A i : Seen(i)' = Seen(i)
  BY <1>1 DEF Effective, AllItems, Seen
<1>3. QED BY <1>1, <1>2 DEF AllLinkedInv

FullInv == IInv /\ ListInv /\ AllLinkedInv

LEMMA NextFullInv == FullInv /\ [Next]_vars => FullInv'
<1> SUFFICES ASSUME FullInv, [Next]_vars PROVE ListInv' /\ AllLinkedInv'
  BY NextIInv DEF FullInv
<1>1. CASE LoadStep BY <1>1, LoadListInv, LoadAllLinkedInv DEF FullInv
<1>2. CASE Get BY <1>2, GetListInv, GetAllLinkedInv DEF FullInv
<1>3. CASE UNCHANGED vars
  <2>1. UNCHANGED <<backend, link_file, rule_file, res_file, phase, to_walk, rule_stor,
                    link_stor, res_stor, keys, view_mode, qpc, to_visit, act_links, ki, li, ret_buf>>
    BY <1>3 DEF vars
  <2>2. ListInv' BY <2>1 DEF FullInv, ListInv
  <2>3. Effective' = Effective /\ AllItems' = AllItems /\ \A i : Seen(i)' = Seen(i)
    BY <2>1 DEF Effective, AllItems, Seen
  <2>4. AllLinkedInv' BY <2>1, <2>3 DEF FullInv, AllLinkedInv
  <2>5. QED BY <2>2, <2>4
<1>4. QED BY <1>1, <1>2, <1>3 DEF Next

LEMMA AlwaysFullInv == Spec => []FullInv
<1>1. Init => FullInv BY InitIInv, InitListInv DEF FullInv
<1>2. QED BY <1>1, NextFullInv, PTL DEF Spec

\* The positions of the loops of querier.rs stay within the keys and the links, and
\* the lists of the index and of the query hold what they are declared to hold.
THEOREM TypeCorrect == Spec => []TypeOK
<1>1. FullInv => TypeOK
  <2> SUFFICES ASSUME FullInv PROVE TypeOK OBVIOUS
  <2>1. /\ act_links \in Seq(AllItems) /\ Len(act_links) \in Nat /\ Len(keys) \in Nat
        /\ ki \in Nat \ {0} /\ li \in Nat \ {0}
    BY DEF FullInv, IInv, FileInv, QueryInv
  <2>2. ki \in 1 .. Len(keys) + 1 /\ li \in 1 .. Len(act_links) + 1
    BY <2>1 DEF FullInv, ListInv
  <2>3. \A i \in DOMAIN act_links : act_links[i].abs_res_path \in ResPaths
    <3> TAKE i \in DOMAIN act_links
    <3>1. act_links[i] \in AllItems BY <2>1
    <3>2. PICK p \in Links :
            \E n \in DOMAIN link_file[p].reses : act_links[i] = IdxLinkItem(p, n)
      BY <3>1 DEF AllItems, ItemsOf, IdxLinkItem
    <3>3. link_file[p].reses \in Seq(ResPaths)
      BY LinkSpecsAssumption DEF FullInv, IInv, FileInv, Decodable
    <3>4. QED BY <3>2, <3>3 DEF IdxLinkItem
  <2>4. QED BY <2>2, <2>3 DEF FullInv, IInv, IndexInv, QueryInv, ListInv, TypeOK
<1>2. QED BY <1>1, AlwaysFullInv, PTL

(***************************************************************************)
(* querier.rs, fetch_res_by_all_linked_res_view: a finished query has      *)
(* every value that a link in force gives a key, and each exactly once,    *)
(* whatever the order of walking and visiting.                             *)
(***************************************************************************)
THEOREM AllLinkedIsCorrect == Spec => []AllLinkedCorrect
<1>1. FullInv => AllLinkedCorrect
  <2> SUFFICES ASSUME FullInv, qpc = "done", view_mode = "AllLinkedResView",
                      NEW i \in DOMAIN keys
               PROVE  LET values == UNION {{<<item, j>> : j \in Gives(item, keys[i])} :
                                             item \in ItemsInForce}
                      IN  /\ {ret_buf[i][n] : n \in DOMAIN ret_buf[i]} = values
                          /\ Len(ret_buf[i]) = Cardinality(values)
    BY DEF AllLinkedCorrect
  <2> DEFINE values == UNION {{<<item, j>> : j \in Gives(item, keys[i])} : item \in ItemsInForce}
             buf == ret_buf[i]
  <2>1. ItemsInForce = Effective BY DEF ItemsInForce, Effective, ItemsOf, Holding, IdxLinkItem
  <2>2. \A item : Gives(item, keys[i]) = Given(res_file, item, keys[i]) BY DEF Gives, Given
  <2>3. values = ValuesOf(Effective, res_file, keys[i]) BY <2>1, <2>2 DEF ValuesOf
  <2>4. buf \in Seq(AllItems \X Nat) /\ Unique(buf) /\ Entries(buf) = values
    BY <2>3 DEF FullInv, AllLinkedInv
  <2> HIDE DEF values, buf
  <2>5. Len(buf) \in Nat /\ DOMAIN buf = 1 .. Len(buf) /\ buf = [n \in 1 .. Len(buf) |-> buf[n]]
    BY <2>4
  <2>6. \A n \in 1 .. Len(buf) : buf[n] \in values BY <2>4, <2>5 DEF Entries
  <2>7. \A v \in values : \E n \in 1 .. Len(buf) : buf[n] = v BY <2>4, <2>5 DEF Entries
  <2>8. buf \in [1 .. Len(buf) -> values] BY <2>5, <2>6
  <2>9. buf \in Surjection(1 .. Len(buf), values) BY <2>7, <2>8 DEF Surjection
  <2>10. buf \in Injection(1 .. Len(buf), values)
    BY <2>4, <2>8 DEF Injection, IsInjective, Unique
  <2>11. Cardinality(values) = Cardinality(1 .. Len(buf))
    BY <2>5, <2>9, <2>10, Interval, FS_Surjection
  <2>12. Cardinality(values) = Len(buf) BY <2>5, <2>11, Interval
  <2>13. QED BY <2>4, <2>12 DEF Entries, values, buf
<1>2. QED BY <1>1, AlwaysFullInv, PTL
=============================================================================

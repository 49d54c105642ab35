------------------------------ MODULE Querier -------------------------------
(***************************************************************************)
(* Querier::get (querier.rs): one query on one MemStorage, run to the end  *)
(* under the read guard of the namespace, so nothing changes underneath.   *)
(*                                                                         *)
(* Two orders are left open because the code leaves them open: the rules   *)
(* are visited in HashMap order, and sort_unstable_by arranges links that  *)
(* the comparator does not separate as it likes.  The comparator calls two *)
(* negative links of equal priority both less than each other; between     *)
(* links that differ in priority or sign it is consistent, and a           *)
(* comparison sort gets those right however it treats the others.          *)
(*                                                                         *)
(* ret_buf is split by the position of the key being answered; the Vec of  *)
(* the code is the concatenation.  An entry says which link produced it    *)
(* and which key/value pair of the resource it is.                         *)
(***************************************************************************)
EXTENDS CFGIndex

CONSTANTS
  Queries,      \* key lists a caller can ask for
  ViewModes     \* subset of {"OverlaidView", "AllLinkedResView"}

ASSUME QueriesAssumption   == Queries \subseteq Seq(Keys)
ASSUME ViewModesAssumption == ViewModes \subseteq {"OverlaidView", "AllLinkedResView"}

VARIABLES
  keys,         \* the keys of the query; fixed
  view_mode,    \* fixed
  qpc,          \* "idle", "collect", "sort", "lookup" or "done"
  to_visit,     \* rules that iter_related_rules has not come to
  act_links,    \* links of the active rules; sorted by the overlaid view
  ki, li,       \* positions of the key and the link under consideration
  ret_buf

queryArgs  == <<keys, view_mode>>
queryVars  == <<qpc, to_visit, act_links, ki, li, ret_buf>>
vars == <<loadVars, queryArgs, queryVars>>

\* The query goes from one place of the code to another.
Query(from, to) == qpc = from /\ qpc' = to /\ UNCHANGED <<loadVars, queryArgs>>

Init ==
  /\ InitIndex
  /\ keys \in Queries
  /\ view_mode \in ViewModes
  /\ qpc = "idle" /\ to_visit = {} /\ act_links = <<>>
  /\ ki = 1 /\ li = 1
  /\ ret_buf = [i \in DOMAIN keys |-> <<>>]

GetBegin ==
  /\ Query("idle", "collect") /\ phase = "loaded"
  /\ to_visit' = rule_stor
  /\ UNCHANGED <<act_links, ki, li, ret_buf>>

\* The closure of iter_related_rules: the links of a rule that evaluates to true.
VisitRule(p) ==
  /\ Query("collect", "collect") /\ p \in to_visit
  /\ to_visit' = to_visit \ {p}
  /\ act_links' = IF rule_file[p] THEN act_links \o link_stor[p] ELSE act_links
  /\ UNCHANGED <<ki, li, ret_buf>>

\* No active link: the empty answer at once.  Otherwise by view mode.
Dispatch ==
  /\ Query("collect", IF act_links = <<>> THEN "done"
                      ELSE IF view_mode = "OverlaidView" THEN "sort" ELSE "lookup")
  /\ to_visit = {}
  /\ UNCHANGED <<to_visit, act_links, ki, li, ret_buf>>

\* Faulty variant: links of equal priority are not told apart by their sign.
BeforeByPri(a, b) == a.pri > b.pri

\* The comparator of fetch_res_by_overlaid_view puts a before b and not b before a.
Before(a, b) ==
  \/ a.pri > b.pri
  \/ a.pri = b.pri /\ a.is_neg /\ ~b.is_neg

\* The orders in which the sort may leave the links s: permutations q of them.
Sorted(s) ==
  {t \in {[i \in DOMAIN s |-> s[q[i]]] :
            q \in {f \in [DOMAIN s -> DOMAIN s] :
                     \A j \in DOMAIN s : \E i \in DOMAIN s : f[i] = j}} :
     \A i, j \in DOMAIN s : Before(t[j], t[i]) => j < i}

SortLinks ==
  /\ Query("sort", "lookup")
  /\ act_links' \in Sorted(act_links)
  /\ UNCHANGED <<to_visit, ki, li, ret_buf>>

\* Places of key k in the resource of a link; none if there is no such resource.
Matches(link, k) ==
  IF link.abs_res_path \in res_stor
  THEN {j \in DOMAIN res_file[link.abs_res_path] : res_file[link.abs_res_path][j] = k}
  ELSE {}

\* A step of the loops over the keys and, for each, the links.
Looking == Query("lookup", "lookup") /\ ki \in DOMAIN keys /\ UNCHANGED <<to_visit, act_links>>

\* What the current link has for the current key.
Hits == Matches(act_links[li], keys[ki])

\* The current link has nothing for the current key: next link.
LinkMiss ==
  /\ Looking /\ li \in DOMAIN act_links /\ Hits = {}
  /\ li' = li + 1
  /\ UNCHANGED <<ki, ret_buf>>

\* Faulty variant: the next key starts before the first link.
FirstLinkZero == 0

FirstLink == 1

\* OverlaidView: the first match decides; a negative link answers with nothing.
OverlaidHit ==
  /\ Looking /\ view_mode = "OverlaidView" /\ li \in DOMAIN act_links
  /\ \E j \in Hits :
       /\ \A m \in Hits : j <= m
       /\ ret_buf' = IF act_links[li].is_neg THEN ret_buf
                     ELSE [ret_buf EXCEPT ![ki] = Append(@, <<act_links[li], j>>)]
  /\ ki' = ki + 1 /\ li' = FirstLink

\* Faulty variant: only the first match in each resource counts.
FirstOnly(link, M) == {<<<<link, j>>>> : j \in {n \in M : \A m \in M : n <= m}}

\* The matches M of a link, in the order of the resource.
Collected(link, M) ==
  {[n \in DOMAIN s |-> <<link, s[n]>>] :
     s \in {t \in [1 .. Cardinality(M) -> M] :
              /\ \A j \in M : \E n \in DOMAIN t : t[n] = j
              /\ \A m, n \in DOMAIN t : m < n => t[m] < t[n]}}

\* AllLinkedResView: every match of every link.
AllLinkedHit ==
  /\ Looking /\ view_mode = "AllLinkedResView" /\ li \in DOMAIN act_links /\ Hits # {}
  /\ \E c \in Collected(act_links[li], Hits) :
       ret_buf' = [ret_buf EXCEPT ![ki] = @ \o c]
  /\ li' = li + 1
  /\ UNCHANGED ki

\* No link is left for the current key.
NextKey ==
  /\ Looking /\ li \notin DOMAIN act_links
  /\ ki' = ki + 1 /\ li' = FirstLink
  /\ UNCHANGED ret_buf

GetEnd ==
  /\ Query("lookup", "done") /\ ki \notin DOMAIN keys
  /\ UNCHANGED <<to_visit, act_links, ki, li, ret_buf>>

Get ==
  \/ GetBegin
  \/ \E p \in RulePaths : VisitRule(p)
  \/ Dispatch \/ SortLinks
  \/ LinkMiss \/ OverlaidHit \/ AllLinkedHit \/ NextKey
  \/ GetEnd

LoadStep == Load /\ UNCHANGED <<queryArgs, queryVars>>

Next == LoadStep \/ Get

Spec == Init /\ [][Next]_vars

-----------------------------------------------------------------------------
\* The locals of the load and of the query have the types the code gives them.
TypeOK ==
  /\ phase \in {"rules", "links", "reses", "loaded", "failed"}
  /\ rule_stor \subseteq RulePaths /\ res_stor \subseteq ResPaths
  /\ qpc \in {"idle", "collect", "sort", "lookup", "done"}
  /\ to_visit \subseteq RulePaths
  /\ \A i \in DOMAIN act_links : act_links[i].abs_res_path \in ResPaths
  /\ ki \in 1 .. Len(keys) + 1 /\ li \in 1 .. Len(act_links) + 1
  /\ DOMAIN ret_buf = DOMAIN keys

(***************************************************************************)
(* What a query should answer, said of the files alone; a bad file is as   *)
(* good as none.                                                           *)
(***************************************************************************)

\* The link items in force: their rule exists and holds for the caller.
ItemsInForce ==
  UNION {{IdxLinkItem(p, i) : i \in DOMAIN link_file[p].reses} :
           p \in {q \in Decodable(link_file) : /\ link_file[q].rule \in Decodable(rule_file)
                                             /\ rule_file[link_file[q].rule]}}

\* Where the resource of an item gives a value to key k.
Gives(item, k) ==
  IF item.abs_res_path \in Decodable(res_file)
  THEN {j \in DOMAIN res_file[item.abs_res_path] : res_file[item.abs_res_path][j] = k}
  ELSE {}

\* Of the items that give k a value, those of the highest priority.
Winners(k) ==
  LET givers == {item \in ItemsInForce : Gives(item, k) # {}}
  IN  {item \in givers : \A other \in givers : other.pri <= item.pri}

(***************************************************************************)
(* The overlaid view.  A key gets the first value that a link of the       *)
(* highest priority among the links in force that know the key gives it;   *)
(* it gets none if one of those links is negative, or if there are none.   *)
(* This must not depend on the order in which files were walked, rules     *)
(* visited or equal links sorted, nor on the other keys of the query.      *)
(***************************************************************************)
OverlaidCorrect ==
  qpc = "done" /\ view_mode = "OverlaidView" =>
    \A i \in DOMAIN keys :
      LET W == Winners(keys[i]) IN
      IF W = {} \/ \E item \in W : item.is_neg
      THEN ret_buf[i] = <<>>
      ELSE \E item \in W :
             \E j \in Gives(item, keys[i]) :
               /\ \A m \in Gives(item, keys[i]) : j <= m
               /\ ret_buf[i] = <<<<item, j>>>>

(***************************************************************************)
(* On the filesystem backend a query runs on the whole namespace or not at *)
(* all: the walk_dir of the trait hands every error on, so an index never  *)
(* lacks a file because of what the file holds, and every resource that a  *)
(* link names is filed under the link's rule.                              *)
(***************************************************************************)
WholeIndex ==
  qpc # "idle" /\ backend = "filesystem" =>
    /\ rule_stor = DOMAIN rule_file /\ res_stor = DOMAIN res_file
    /\ \A p \in LinkPaths :
         /\ link_file[p] # Undecodable
         /\ LET links == link_stor[link_file[p].rule] IN
            \A i \in DOMAIN link_file[p].reses :
              \E j \in DOMAIN links : links[j] = IdxLinkItem(p, i)

(***************************************************************************)
(* The view of all linked resources: every value that a link in force,     *)
(* negative or not, gives the key, each exactly once.                      *)
(***************************************************************************)
AllLinkedCorrect ==
  qpc = "done" /\ view_mode = "AllLinkedResView" =>
    \A i \in DOMAIN keys :
      LET values == UNION {{<<item, j>> : j \in Gives(item, keys[i])} : item \in ItemsInForce}
      IN  /\ {ret_buf[i][n] : n \in DOMAIN ret_buf[i]} = values
          /\ Len(ret_buf[i]) = Cardinality(values)
=============================================================================

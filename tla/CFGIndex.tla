------------------------------ MODULE CFGIndex ------------------------------
(***************************************************************************)
(* CFGIndex, the content of a MemStorage, and how IndexBuilder fills it    *)
(* (cfgindex.rs).  IndexBuilder::load walks the namespace's rules, then    *)
(* its links, then its reses; within each directory tree the files come in *)
(* whatever order walk_dir visits them.  A file that cannot be read or     *)
(* decoded fails the load in the walk_dir that the filesystem backend has  *)
(* from the trait, and is left out by that of the git backend; a directory *)
(* that cannot be listed fails the load in both.                           *)
(*                                                                         *)
(* Paths are opaque.  A rule is abstracted to the outcome of its evaluation*)
(* for the whoami of the query (Querier), a key/value pair to its key, its *)
(* resource and its place there.                                           *)
(***************************************************************************)
EXTENDS Naturals, Sequences, FiniteSets

CONSTANTS
  RulePaths,    \* paths that rules can have and links can name
  LinkPaths,    \* paths of the link files
  ResPaths,     \* paths that resources can have and links can name
  LinkSpecs,    \* contents a link file can have: [pri, is_neg, rule, reses]
  ResSpecs,     \* contents a resource file can have: sequences of keys
  Keys,         \* configuration keys
  Undecodable,  \* the content of a file that cannot be read or decoded
  MaxBad,       \* bound: number of such files in the namespace
  Backends      \* subset of {"filesystem", "git"}

ASSUME LinkSpecsAssumption ==
  LinkSpecs \subseteq [pri : Nat, is_neg : BOOLEAN, rule : RulePaths, reses : Seq(ResPaths)]
ASSUME ResSpecsAssumption == ResSpecs \subseteq Seq(Keys)

ASSUME UndecodableAssumption ==
  Undecodable \notin BOOLEAN /\ Undecodable \notin LinkSpecs /\ Undecodable \notin ResSpecs

VARIABLES
  backend,      \* what the namespace is stored in; fixed
  \* the namespace in the storage, at the version being loaded; fixed
  rule_file,    \* the rule files present -> does the condition hold for the caller?
  link_file,    \* the link files -> their content
  res_file,     \* the resource files present -> their content
  \* IndexBuilder::load
  phase,        \* "rules", "links", "reses", then "loaded" or "failed"
  to_walk,      \* files of this phase that walk_dir has not visited
  \* CFGIndex
  rule_stor,    \* RuleIndex: paths of the rules
  link_stor,    \* LinkIndex: rule path -> Vec<Arc<IdxLinkItem>>
  res_stor      \* ResIndex: paths of the resources

fileVars  == <<backend, rule_file, link_file, res_file>>
indexVars == <<rule_stor, link_stor, res_stor>>
loadVars  == <<fileVars, phase, to_walk, indexVars>>

\* Rule, Link and Res::load_from_slice accept the file.
Decodable(file) == {p \in DOMAIN file : file[p] # Undecodable}
Bad(file) == DOMAIN file \ Decodable(file)

InitIndex ==
  /\ backend \in Backends
  /\ \E R \in SUBSET RulePaths : rule_file \in [R -> BOOLEAN \cup {Undecodable}]
  /\ \E R \in SUBSET ResPaths : res_file \in [R -> ResSpecs \cup {Undecodable}]
  /\ link_file \in [LinkPaths -> LinkSpecs \cup {Undecodable}]
  /\ Cardinality(Bad(rule_file)) + Cardinality(Bad(res_file)) + Cardinality(Bad(link_file))
       <= MaxBad
  /\ phase = "rules"
  /\ to_walk = DOMAIN rule_file
  /\ rule_stor = {}
  /\ link_stor = [p \in RulePaths |-> <<>>]
  /\ res_stor = {}

\* walk_dir comes to file p of the tree that phase f is about and calls back.
Visit(f, p) ==
  /\ phase = f /\ p \in to_walk /\ to_walk' = to_walk \ {p}
  /\ UNCHANGED <<fileVars, phase>>

\* RuleIndex::add_rule.
AddRule(p) == rule_stor \cup {p}

\* load_rule: the next rule file of the walk.
LoadRule(p) ==
  /\ Visit("rules", p) /\ p \in Decodable(rule_file)
  /\ rule_stor' = AddRule(p)
  /\ UNCHANGED <<link_stor, res_stor>>

\* The IdxLinkItem of the i-th resource that link file p names.
IdxLinkItem(p, i) ==
  [link_path |-> p, pos |-> i, pri |-> link_file[p].pri,
   is_neg |-> link_file[p].is_neg, abs_res_path |-> link_file[p].reses[i]]

\* LinkIndex::add_link: one item per resource, filed under the link's rule.
AddLink(p) ==
  [link_stor EXCEPT ![link_file[p].rule] =
     @ \o [i \in DOMAIN link_file[p].reses |-> IdxLinkItem(p, i)]]

\* load_link: the next link file of the walk.
LoadLink(p) ==
  /\ Visit("links", p) /\ p \in Decodable(link_file)
  /\ link_stor' = AddLink(p)
  /\ UNCHANGED <<rule_stor, res_stor>>

\* ResIndex::add_res.
AddRes(p) == res_stor \cup {p}

\* load_res: the next resource file of the walk.
LoadRes(p) ==
  /\ Visit("reses", p) /\ p \in Decodable(res_file)
  /\ res_stor' = AddRes(p)
  /\ UNCHANGED <<rule_stor, link_stor>>

\* The file of the running walk at path p is bad.
IsBad(p) ==
  \/ phase = "rules" /\ p \in Bad(rule_file)
  \/ phase = "links" /\ p \in Bad(link_file)
  \/ phase = "reses" /\ p \in Bad(res_file)

\* Faulty variant: the walk of the trait goes on after an error, too.
SkipsErrorsAlways == TRUE

\* The arm for an error of the callback in walk_dir: `Err(_) => 0` or `return Err`.
SkipsErrors == backend = "git"

\* The git backend goes on with the next file.
SkipFile(p) ==
  /\ Visit(phase, p) /\ IsBad(p) /\ SkipsErrors
  /\ UNCHANGED indexVars

\* The load gives up: for a bad file, or a directory that cannot be listed.
LoadFails ==
  /\ phase \notin {"loaded", "failed"} /\ phase' = "failed"
  /\ UNCHANGED <<fileVars, to_walk, indexVars>>

\* IndexBuilder::load goes from one tree to the next and hands the index over.
NextPhase ==
  /\ to_walk = {}
  /\ \/ phase = "rules" /\ phase' = "links" /\ to_walk' = LinkPaths
     \/ phase = "links" /\ phase' = "reses" /\ to_walk' = DOMAIN res_file
     \/ phase = "reses" /\ phase' = "loaded" /\ to_walk' = {}
  /\ UNCHANGED <<fileVars, indexVars>>

\* walk_dir comes to the next file of the tree, in whatever order.
Load ==
  \/ \E p \in RulePaths : LoadRule(p)
  \/ \E p \in LinkPaths : LoadLink(p)
  \/ \E p \in ResPaths : LoadRes(p)
  \/ \E p \in to_walk : SkipFile(p)
  \/ LoadFails
  \/ NextPhase
=============================================================================

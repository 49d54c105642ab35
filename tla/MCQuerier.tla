----------------------------- MODULE MCQuerier ------------------------------
(***************************************************************************)
(* Small instances of Querier.  Rules and link files are interchangeable.  *)
(***************************************************************************)
EXTENDS Querier, TLC

CONSTANTS r1, r2, a, b, k1, k2

\* Links of one resource with every tie of priority, negative or not, and
\* a link that names two resources.
MCLinkSpecs ==
  [pri : {1, 2}, is_neg : BOOLEAN, rule : {r1, r2}, reses : {<<a>>}]
    \union [pri : {1}, is_neg : {FALSE}, rule : {r1, r2}, reses : {<<b, a>>}]

\* A resource may give a key twice.
MCResSpecs == {<<k1>>, <<k2, k1, k2>>}

MCQueries == {<<k2, k1>>}

Symmetry == Permutations(RulePaths) \cup Permutations(LinkPaths)
=============================================================================

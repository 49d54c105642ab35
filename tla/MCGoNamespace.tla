--------------------------- MODULE MCGoNamespace ----------------------------
(***************************************************************************)
(* Small instances of GoNamespace.  The getters are interchangeable.       *)
(***************************************************************************)
EXTENDS GoNamespace

CONSTANTS k1, k2, unset

\* One key, and all keys, one of which has no value.
MCQueries == {<<k1>>, <<unset, k1, k2>>}

Symmetry == Permutations(Getters)
=============================================================================

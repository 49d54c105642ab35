---------------------------- MODULE MCRuleParser ----------------------------
(***************************************************************************)
(* Small instances of RuleParser; strings serve as tags and values.        *)
(***************************************************************************)
EXTENDS RuleParser

\* The empty literal is left to the shorter rules, to keep their number down.
MCComparisons(n) == {<<"a", "x">>, <<"b", "x">>} \union (IF n <= 5 THEN {<<"a", "">>} ELSE {})
=============================================================================

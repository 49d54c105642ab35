----------------------------- MODULE RuleEngine -----------------------------
(***************************************************************************)
(* Condition of rule_engine/mod.rs: the tree that a rule file is parsed    *)
(* into, and its evaluation for the tags of a caller.                      *)
(*                                                                         *)
(* A MatchContext is a function from the tags a caller carries to their    *)
(* values.  Eq is the only operator and rhs is never None in a tree that   *)
(* the parser builds, so a leaf is a tag and a value.                      *)
(***************************************************************************)
EXTENDS Naturals, Sequences

And(conds)     == [op |-> "And", conds |-> conds]
Or(conds)      == [op |-> "Or", conds |-> conds]
Not(cond)      == [op |-> "Not", cond |-> cond]
Leaf(lhs, rhs) == [op |-> "Leaf", lhs |-> lhs, rhs |-> rhs]

\* A tag the caller does not carry makes a leaf false.
eval_leaf(cond, ctx) ==
  /\ cond.lhs \in DOMAIN ctx
  /\ ctx[cond.lhs] = cond.rhs

\* The loops over the children have no effects, so that where they stop
\* does not matter.
RECURSIVE eval(_, _)
eval(cond, ctx) ==
  CASE cond.op = "And"  -> \A i \in DOMAIN cond.conds : eval(cond.conds[i], ctx)
    [] cond.op = "Or"   -> \E i \in DOMAIN cond.conds : eval(cond.conds[i], ctx)
    [] cond.op = "Not"  -> ~eval(cond.cond, ctx)
    [] cond.op = "Leaf" -> eval_leaf(cond, ctx)
=============================================================================

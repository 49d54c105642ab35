----------------------------- MODULE RuleParser -----------------------------
(***************************************************************************)
(* The parser of rules (parser/rule.rs) as Rule::load_from_slice uses it:  *)
(* a recursive descent with nom, in which alt takes the first alternative  *)
(* that succeeds and many0 stops quietly at the first failure, so that a   *)
(* mistake in a rule only shows in the text that is left over.             *)
(*                                                                         *)
(* The text is a sequence of tokens.  `tag == "literal"` is one token, and *)
(* "?" stands for everything that leaf_expr does not accept, such as       *)
(* `a >= "1"` or `a == 1`.  White space is skipped around every token (ws) *)
(* and left out here; escapes in literals are left out, too.               *)
(*                                                                         *)
(* A parser takes the text and a position, and yields the condition and    *)
(* the position it has reached, or fails.                                  *)
(***************************************************************************)
EXTENDS RuleEngine

CONSTANTS
  Tags,           \* tags in rules and in callers' contexts
  Comparisons(_), \* tag and text between the quotes, in rules of so many tokens
  TagValues,      \* values a tag of a caller can have
  MaxTokens       \* bound: length of a rule

ASSUME BoundAssumption == MaxTokens \in Nat

VARIABLES
  text,         \* the tokens of spec.rule in a rule file
  rule          \* what load_from_slice has made of them

vars == <<text, rule>>

Token(sym)     == [sym |-> sym]
LeafTokens(n)  == {[sym |-> "leaf", lhs |-> c[1], lit |-> c[2]] : c \in Comparisons(n)}
Tokens(n)      == LeafTokens(n) \union {Token(s) : s \in {"!", "(", ")", "&&", "||", "?"}}
Contexts       == UNION {[carried -> TagValues] : carried \in SUBSET Tags}
NotLoaded      == [op |-> "not loaded"]
SpecParseError == [op |-> "SpecParseError"]
-----------------------------------------------------------------------------
(* The grammar.                                                            *)

Ok(next, cond)    == [ok |-> TRUE, next |-> next, cond |-> cond]
Err               == [ok |-> FALSE]
At(s, i, sym)     == i <= Len(s) /\ s[i].sym = sym
Many(next, conds) == [next |-> next, conds |-> conds]

\* The first alternative of `string`, for the empty literal, returns the two
\* quotes themselves, where the second one returns what is between them.
string(lit) == IF lit = "" THEN "\"\"" ELSE lit

leaf_expr(s, i) ==
  IF At(s, i, "leaf") THEN Ok(i + 1, Leaf(s[i].lhs, string(s[i].lit))) ELSE Err

RECURSIVE expr_or(_, _)
RECURSIVE more_and(_, _)
RECURSIVE more_or(_, _)

leaf_expr_or_paren(s, i) ==
  LET inner == expr_or(s, i + 1) IN
  IF At(s, i, "leaf") THEN leaf_expr(s, i)
  ELSE IF At(s, i, "(") /\ inner.ok /\ At(s, inner.next, ")")
       THEN Ok(inner.next + 1, inner.cond)
       ELSE Err

\* What ! applies to.
not_operand_greedy(s, i) == expr_or(s, i)      \* faulty variant
not_operand(s, i) == leaf_expr_or_paren(s, i)

expr_not(s, i) ==
  IF At(s, i, "!")
  THEN LET operand == not_operand(s, i + 1) IN
       IF operand.ok THEN Ok(operand.next, Not(operand.cond)) ELSE Err
  ELSE leaf_expr_or_paren(s, i)

\* many0(preceded(ws(tag("&&")), ws(expr_not)))
more_and(s, i) ==
  LET operand == IF At(s, i, "&&") THEN expr_not(s, i + 1) ELSE Err IN
  IF ~operand.ok THEN Many(i, <<>>)
  ELSE LET others == more_and(s, operand.next)
       IN  Many(others.next, <<operand.cond>> \o others.conds)

expr_and(s, i) ==
  LET first == expr_not(s, i)
      more  == more_and(s, first.next)
  IN  IF ~first.ok THEN Err
      ELSE IF more.conds = <<>> THEN first
      ELSE Ok(more.next, And(<<first.cond>> \o more.conds))

\* many0(preceded(ws(tag("||")), ws(expr_and)))
more_or(s, i) ==
  LET operand == IF At(s, i, "||") THEN expr_and(s, i + 1) ELSE Err IN
  IF ~operand.ok THEN Many(i, <<>>)
  ELSE LET others == more_or(s, operand.next)
       IN  Many(others.next, <<operand.cond>> \o others.conds)

expr_or(s, i) ==
  LET first == expr_and(s, i)
      more  == more_or(s, first.next)
  IN  IF ~first.ok THEN Err
      ELSE IF more.conds = <<>> THEN first
      ELSE Ok(more.next, Or(<<first.cond>> \o more.conds))

do_parse(s) == expr_or(s, 1)
-----------------------------------------------------------------------------
(* Loading a rule file.                                                    *)

Init ==
  /\ \E n \in 0..MaxTokens : text \in [1..n -> Tokens(n)]
  /\ rule = NotLoaded

\* `left` must be empty: text that the parser did not consume is an error.
nothing_left_unchecked(parsed) == TRUE         \* faulty variant
nothing_left(parsed) == parsed.next = Len(text) + 1

load_from_slice ==
  /\ rule = NotLoaded
  /\ LET parsed == do_parse(text) IN
     rule' = IF parsed.ok /\ nothing_left(parsed)
             THEN parsed.cond
             ELSE SpecParseError
  /\ UNCHANGED text

Next == load_from_slice

Spec == Init /\ [][Next]_vars
-----------------------------------------------------------------------------
(* What a rule means, without a parser.                                    *)

\* The number of parentheses open before position i.
Depth(s, i) ==
    Len(SelectSeq(SubSeq(s, 1, i - 1), LAMBDA t : t.sym = "("))
  - Len(SelectSeq(SubSeq(s, 1, i - 1), LAMBDA t : t.sym = ")"))

Balanced(s) ==
  /\ \A i \in DOMAIN s : s[i].sym = ")" => Depth(s, i) > 0
  /\ Depth(s, Len(s) + 1) = 0

\* Which tokens may stand side by side.
Starts   == {"leaf", "(", "!"}
Ends     == {"leaf", ")"}
Adjacent == (Ends \X {")", "&&", "||"}) \union ({"(", "&&", "||"} \X Starts)
              \union ({"!"} \X {"leaf", "("})

WellFormed(s) ==
  /\ s # <<>>
  /\ s[1].sym \in Starts
  /\ s[Len(s)].sym \in Ends
  /\ Balanced(s)
  /\ \A i \in 1..(Len(s) - 1) : <<s[i].sym, s[i + 1].sym>> \in Adjacent

\* The operators of the weakest kind outside all parentheses split a text.
Top(s, sym) == {i \in DOMAIN s : s[i].sym = sym /\ Depth(s, i) = 0}

\* A literal is the text between its quotes.
RECURSIVE Means(_, _)
Means(s, ctx) ==
  LET Left(i)  == SubSeq(s, 1, i - 1)
      Right(i) == SubSeq(s, i + 1, Len(s))
  IN  IF Top(s, "||") # {}
      THEN LET i == CHOOSE i \in Top(s, "||") : TRUE
           IN  Means(Left(i), ctx) \/ Means(Right(i), ctx)
      ELSE IF Top(s, "&&") # {}
      THEN LET i == CHOOSE i \in Top(s, "&&") : TRUE
           IN  Means(Left(i), ctx) /\ Means(Right(i), ctx)
      ELSE IF s[1].sym = "!" THEN ~Means(Tail(s), ctx)
      ELSE IF s[1].sym = "(" THEN Means(SubSeq(s, 2, Len(s) - 1), ctx)
      ELSE s[1].lhs \in DOMAIN ctx /\ ctx[s[1].lhs] = s[1].lit

Loaded == rule \notin {NotLoaded, SpecParseError}

\* A rule is loaded exactly if it is well formed: although many0 and alt
\* swallow errors on the way, no part of a rule is dropped without an error,
\* and no well formed rule is refused.
AcceptsWellFormed ==
  rule # NotLoaded => (Loaded <=> WellFormed(text))

\* A rule with an empty literal; a caller with an empty tag, or one of two quotes.
EmptyLiteral(s)    == \E i \in DOMAIN s : s[i].sym = "leaf" /\ s[i].lit = ""
EmptyOrQuotes(ctx) == \E tag \in DOMAIN ctx : ctx[tag] \in {"", "\"\""}

\* A loaded rule holds for a caller exactly if its text does, with ! binding
\* tighter than && and && tighter than ||, whatever tags the caller carries.
\* The empty literal is exempt, for the callers who would notice: it is loaded as
\* two quote characters, so `a == ""` does not hold where `a` is empty.
RuleMeansText ==
  Loaded =>
    \A ctx \in Contexts :
      ~(EmptyLiteral(text) /\ EmptyOrQuotes(ctx)) => eval(rule, ctx) = Means(text, ctx)
=============================================================================

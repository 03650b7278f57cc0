--------------------------- MODULE MCExpressions ---------------------------
(***************************************************************************)
(* The expressions for TLC.  Written(n) holds every text with n leaves     *)
(* over a set of operators, leaves in order, brackets anywhere; Scraps     *)
(* holds every short sequence of tokens, most of them no expression.       *)
(***************************************************************************)
EXTENDS Expressions

Leaves == <<"a", "b", "c", "d", "e">>

\* The texts over the leaves lo .. hi, `whole` ones without an operator outside brackets.
RECURSIVE Texts(_, _, _, _, _)
Texts(lo, hi, binary, unary, whole) ==
  LET open == IF lo = hi THEN {<<Leaves[lo]>>}
              ELSE UNION {{l \o <<op>> \o r :
                             l \in Texts(lo, k, binary, unary, FALSE),
                             r \in Texts(k + 1, hi, binary, unary, TRUE), op \in binary} :
                          k \in lo .. hi - 1}
      closed == IF lo = hi THEN open ELSE {<<"(">> \o t \o <<")">> : t \in open}
      prefixed == closed \cup {<<u>> \o t : u \in unary, t \in closed}
  IN  IF whole THEN prefixed ELSE open \cup prefixed

Over(kind) == [a \in {Leaves[i] : i \in 1 .. 5} |-> kind]
As(tokens, kinds) == [tokens |-> tokens, kinds |-> kinds]

Written(n, binary, unary) ==
  {As(t, Over("command")) : t \in Texts(1, n, binary, unary, FALSE)}

Logic   == Written(4, {"||", "&&"}, {}) \cup Written(3, {"||", "&&"}, {"!"})
Mixed   == Written(3, {"||", "==", "-", "+"}, {"-"}) \cup Written(2, {"&&", "+"}, {"-", "!"})
Doubled == {As(<<u, v, "a">>, Over("command")) : u, v \in {"!", "-"}}

Scraps == {As(t, Over("command")) :
             t \in UNION {[1 .. n -> {"a", "+", "-", "(", ")", "["}] : n \in 1 .. 4}}

\* Operands whose type may differ from one evaluation to the next: an element
\* of an array and the result of a call.
Element == <<"a", "[", "b", "]">>
Kinds == [a |-> "array", b |-> "command", c |-> "call", d |-> "text", e |-> "variable"]
Typed == {As(t, Kinds) : t \in
  {l \o <<op>> \o r : l, r \in {Element, <<"c">>, <<"d">>, <<"b">>}, op \in {"+", "=="}}
  \cup {<<"e", ":=">> \o l \o <<"+", "b">> : l \in {Element, <<"b">>, <<"c">>}}
  \cup {Element \o <<":=", "e", ":=", "b">>, <<"e", ":=", "c", "==", "d", "&&">> \o Element,
        <<"c", "&&">> \o Element \o <<"||", "d">>, <<"-", "c", "==", "b">>}}

\* Operators over a result whose type may differ: the sum of two such operands.
Sums == {As(<<"e", ":=">> \o l \o <<"+">> \o r, Kinds) : l, r \in {Element, <<"c">>}}

AllInputs == Logic \cup Mixed \cup Doubled \cup Scraps \cup Typed

----------------------------------------------------------------------------
=============================================================================

---------------------------- MODULE IniLanguage ----------------------------
(***************************************************************************)
(* Expressions as an INI's author writes them: a tree is grown node by     *)
(* node, printed by the rules of C, and read back by IniExpr.              *)
(***************************************************************************)
EXTENDS IniExpr

CONSTANTS
  Leaves,     \* numbers, strings and identifiers
  SomeOps,    \* binary operators
  MaxNodes    \* operators in a tree

VARIABLES tree, nodes
exprVars == <<tree, nodes>>

-----------------------------------------------------------------------------
(* The precedence of C, and a printer that puts in no needless bracket.    *)
Tiers == << {"||"}, {"&&"}, {"|"}, {"^"}, {"&"}, {"==", "!="}, {"<", ">", "<=", ">="},
            {"<<", ">>"}, {"+", "-"}, {"*", "/", "%"} >>
Tier(op) == CHOOSE i \in DOMAIN Tiers : op \in Tiers[i]
Unary == Len(Tiers) + 1
Level(e) == CASE e[1] = "ternary" -> 0
              [] e[1] = "binary" -> Tier(e[2])
              [] e[1] = "unary" -> Unary
              [] OTHER -> Unary + 1

Op(s) == << <<"op", s>> >>
RECURSIVE Show(_, _)
Bare(e) ==
  CASE e[1] \in {"num", "str", "ident"} -> <<e>>
    [] e[1] = "unary" -> Op(e[2]) \o Show(e[3], Unary)
    [] e[1] = "binary" -> Show(e[3], Tier(e[2])) \o Op(e[2]) \o Show(e[4], Tier(e[2]) + 1)
    [] e[1] = "ternary" -> Show(e[2], 1) \o Op("?") \o Show(e[3], 0) \o Op(":") \o Show(e[4], 0)
    [] e[1] = "index" -> << <<"ident", e[2]>> >> \o Op("[") \o Show(e[3], 0) \o Op("]")
    [] e[1] = "call" ->
         LET arg(i) == Show(e[3][i], 0) \o (IF i = Len(e[3]) THEN <<>> ELSE Op(","))
         IN << <<"ident", e[2]>> >> \o Op("(") \o FlattenSeq([i \in DOMAIN e[3] |-> arg(i)]) \o Op(")")
Show(e, level) == IF Level(e) >= level THEN Bare(e) ELSE Op("(") \o Bare(e) \o Op(")")

-----------------------------------------------------------------------------
Grow(e) ==
  /\ nodes < MaxNodes /\ nodes' = nodes + 1
  /\ tree' = e
AddUnary   == \E op \in {"-", "!"} : Grow(<<"unary", op, tree>>)
AddLeft    == \E op \in SomeOps, l \in Leaves : Grow(<<"binary", op, l, tree>>)
AddRight   == \E op \in SomeOps, l \in Leaves : Grow(<<"binary", op, tree, l>>)
AddTernary == \E l, m \in Leaves : \/ Grow(<<"ternary", tree, l, m>>)
                                   \/ Grow(<<"ternary", l, tree, m>>)
                                   \/ Grow(<<"ternary", l, m, tree>>)
AddIndex   == \E a \in DOMAIN Arrays : \/ Grow(<<"index", a, tree>>)
                                       \/ Grow(<<"call", "arrayValue", << <<"ident", a>>, tree>>>>)
AddCall    == \/ \E l \in DOMAIN Lists : Grow(<<"call", "bitStringValue", << <<"ident", l>>, tree>>>>)
              \/ \E f \in DOMAIN Known : Grow(<<"call", f, <<>>>>)

ExprInit == tree \in Leaves /\ nodes = 0
ExprNext == AddUnary \/ AddLeft \/ AddRight \/ AddTernary \/ AddIndex \/ AddCall

-----------------------------------------------------------------------------
\* An expression written with C's precedence and associativity, and with no
\* bracket they make needless, is read as it was meant (Parser::expression,
\* primary, lbp).
ReadAsC == parse(Show(tree, 0)) = tree

=============================================================================

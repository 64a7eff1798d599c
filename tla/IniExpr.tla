------------------------------ MODULE IniExpr ------------------------------
(***************************************************************************)
(* { expressions } of the INI: the parser and the evaluator of             *)
(* ts-ini/src/expr.rs.  Tokens are <<"num", n>>, <<"str", s>>,             *)
(* <<"ident", s>> and <<"op", s>>; trees are tuples headed by the name of  *)
(* their Expr variant.  Arithmetic is IEEE's, an operator of its own.      *)
(***************************************************************************)
EXTENDS Integers, Sequences, SequencesExt

CONSTANTS
  Arith(_, _, _),  \* a numeric operator applied to two numbers
  Known,           \* SymbolSource::value: identifiers in scope, with their values
  Lists,           \* SymbolSource::bit_string: label lists
  Arrays           \* SymbolSource::array_value: array constants

-----------------------------------------------------------------------------
(* Parser: expression(min_bp) and primary take the tokens from a position   *)
(* and give the tree and the position behind it, or NoTree.                *)
NoTree == [tree |-> <<"none">>, pos |-> 0]
At(tree, pos) == [tree |-> tree, pos |-> pos]
IsOp(toks, pos, op) == pos <= Len(toks) /\ toks[pos] = <<"op", op>>

lbp == [op \in {"||", "&&", "|", "^", "&", "==", "!=", "<", ">", "<=", ">=",
                "<<", ">>", "+", "-", "*", "/", "%"} |->
  CASE op = "||" -> 1 [] op = "&&" -> 2 [] op = "|" -> 3 [] op = "^" -> 4 [] op = "&" -> 5
    [] op \in {"==", "!="} -> 6 [] op \in {"<", ">", "<=", ">="} -> 7
    [] op \in {"<<", ">>"} -> 8 [] op \in {"+", "-"} -> 9 [] op \in {"*", "/", "%"} -> 10]

\* Mutant: the right operand may hold operators of the same precedence.
RightBp_Same(bp) == bp
RightBp(bp) == bp + 1

RECURSIVE expression(_, _, _), Operators(_, _, _), primary(_, _), Arguments(_, _, _)

expression(toks, pos, min_bp) ==
  LET lhs == primary(toks, pos) IN IF lhs = NoTree THEN NoTree ELSE Operators(toks, lhs, min_bp)

\* The loop of expression: operators to the right of what is parsed.
Operators(toks, lhs, min_bp) ==
  LET p  == lhs.pos
      op == toks[p][2]
  IN CASE p > Len(toks) \/ (p <= Len(toks) /\ toks[p][1] # "op") -> lhs
       [] IsOp(toks, p, "?") /\ min_bp > 0 -> lhs
       [] IsOp(toks, p, "?") /\ min_bp = 0 ->
            LET then == expression(toks, p + 1, 0)
                alt  == expression(toks, then.pos + 1, 0)
            IN IF then = NoTree \/ ~IsOp(toks, then.pos, ":") THEN NoTree
               ELSE IF alt = NoTree THEN NoTree
               ELSE Operators(toks, At(<<"ternary", lhs.tree, then.tree, alt.tree>>, alt.pos), min_bp)
       [] OTHER ->
            IF op \notin DOMAIN lbp THEN lhs
            ELSE IF lbp[op] < min_bp THEN lhs
            ELSE LET rhs == expression(toks, p + 1, RightBp(lbp[op]))
                 IN IF rhs = NoTree THEN NoTree
                    ELSE Operators(toks, At(<<"binary", op, lhs.tree, rhs.tree>>, rhs.pos), min_bp)

\* What closes a bracket, or nothing.
Closed(e, toks, op, tree) ==
  IF e # NoTree /\ IsOp(toks, e.pos, op) THEN At(tree, e.pos + 1) ELSE NoTree
Prefixed(op, e) == IF e = NoTree THEN NoTree ELSE At(<<"unary", op, e.tree>>, e.pos)

primary(toks, pos) ==
  CASE pos > Len(toks) -> NoTree
    [] pos <= Len(toks) /\ toks[pos][1] \in {"num", "str"} -> At(toks[pos], pos + 1)
    [] pos <= Len(toks) /\ toks[pos][1] = "ident" ->
         LET name == toks[pos][2]
             idx  == expression(toks, pos + 2, 0)
         IN CASE IsOp(toks, pos + 1, "[") -> Closed(idx, toks, "]", <<"index", name, idx.tree>>)
              [] IsOp(toks, pos + 1, "(") ->
                   IF IsOp(toks, pos + 2, ")") THEN At(<<"call", name, <<>>>>, pos + 3)
                   ELSE Arguments(toks, pos + 2, <<"call", name, <<>>>>)
              [] OTHER -> At(<<"ident", name>>, pos + 1)
    [] IsOp(toks, pos, "(") -> LET e == expression(toks, pos + 1, 0) IN Closed(e, toks, ")", e.tree)
    [] IsOp(toks, pos, "-") -> Prefixed("-", primary(toks, pos + 1))
    [] IsOp(toks, pos, "!") -> Prefixed("!", primary(toks, pos + 1))
    [] OTHER -> NoTree

Arguments(toks, pos, call) ==
  LET e    == expression(toks, pos, 0)
      more == [call EXCEPT ![3] = Append(@, e.tree)]
  IN CASE e = NoTree -> NoTree
       [] e # NoTree /\ IsOp(toks, e.pos, ",") -> Arguments(toks, e.pos + 1, more)
       [] OTHER -> Closed(e, toks, ")", more)

\* parse: all tokens or none.
parse(toks) == LET e == expression(toks, 1, 0)
               IN IF e.pos = Len(toks) + 1 THEN e.tree ELSE <<"none">>

-----------------------------------------------------------------------------
(* Expr::eval.  A value is <<"num", n>> or <<"str", s>>; Error has neither. *)
Error == <<"error">>
Number(n) == <<"num", n>>
Flag(b) == Number(IF b THEN 1 ELSE 0)
IsNum(v) == v[1] = "num"
Truthy(v) == IF IsNum(v) THEN v[2] # 0 ELSE v[2] # ""
\* `as usize`: negatives become 0.
Slot(n) == IF n < 0 THEN 1 ELSE n + 1
Element(src, name, v, kind) ==
  IF IsNum(v) /\ name \in DOMAIN src /\ Slot(v[2]) \in DOMAIN src[name]
  THEN <<kind, src[name][Slot(v[2])]>> ELSE Error

\* Both operands evaluated.
Apply(op, a, b) ==
  CASE Error \in {a, b} -> Error
    [] Error \notin {a, b} /\ ~IsNum(a) /\ ~IsNum(b) ->
         CASE op = "==" -> Flag(a = b) [] op = "!=" -> Flag(a # b) [] OTHER -> Error
    [] OTHER -> IF IsNum(a) /\ IsNum(b) THEN Number(Arith(op, a[2], b[2])) ELSE Error

RECURSIVE eval(_)
Lookup(name) == IF name \in DOMAIN Known THEN Known[name] ELSE Error
Call(name, args) ==
  LET listed == Len(args) >= 1 /\ args[1][1] = "ident"
      idx    == IF Len(args) >= 2 THEN eval(args[2]) ELSE Error
  IN CASE name = "bitStringValue" -> IF listed THEN Element(Lists, args[1][2], idx, "str") ELSE Error
       [] name = "arrayValue" -> IF listed THEN Element(Arrays, args[1][2], idx, "num") ELSE Error
       [] OTHER -> IF args = <<>> THEN Lookup(name) ELSE Error

eval(e) ==
  LET Eval(i) == eval(e[i])
  IN CASE e[1] \in {"num", "str"} -> e
       [] e[1] = "ident" -> Lookup(e[2])
       [] e[1] = "unary" ->
            IF Eval(3) = Error THEN Error
            ELSE IF e[2] = "!" THEN Flag(~Truthy(Eval(3)))
            ELSE IF IsNum(Eval(3)) THEN Number(-Eval(3)[2]) ELSE Error
       [] e[1] = "binary" /\ e[2] \in {"&&", "||"} ->
            IF Eval(3) = Error THEN Error
            ELSE IF Truthy(Eval(3)) = (e[2] = "||") THEN Flag(e[2] = "||")
            ELSE IF Eval(4) = Error THEN Error ELSE Flag(Truthy(Eval(4)))
       [] e[1] = "binary" /\ e[2] \notin {"&&", "||"} -> Apply(e[2], Eval(3), Eval(4))
       [] e[1] = "ternary" ->
            IF Eval(2) = Error THEN Error ELSE IF Truthy(Eval(2)) THEN Eval(3) ELSE Eval(4)
       [] e[1] = "index" -> Element(Arrays, e[2], Eval(3), "num")
       [] e[1] = "call" -> Call(e[2], e[3])
=============================================================================

----------------------------- MODULE Preprocess -----------------------------
(***************************************************************************)
(* The preprocessor of the INI, ts-ini/src/preprocess.rs: one step a line. *)
(* A line is a record [word, name, neg, text]; a text is a sequence of     *)
(* <<"lit", x>> and <<"ref", n>>, the latter a $name to be expanded.       *)
(***************************************************************************)
EXTENDS Naturals, Sequences, SequencesExt

CONSTANTS
  SrcLines,     \* lines a file may hold
  StartSymbols, \* sets of symbols the caller may start with
  MaxLines      \* bound: lines of a file

ASSUME PrepAssumption == MaxLines \in Nat

VARIABLES
  src,      \* the lines read so far
  symbols,
  defines,  \* a function: #define bodies by name, already expanded
  stack,    \* the IfFrames, innermost last
  out,      \* the surviving lines: [num, text]
  state,    \* "reading", "failed" or "done"
  start     \* the symbols it started with

prepVars == <<src, symbols, defines, stack, out, state, start>>

-----------------------------------------------------------------------------
Active == \A i \in DOMAIN stack : stack[i].active

\* eval_condition: a bare name or its negation.
Holds(syms, l) == (l.name \in syms) # l.neg

\* expand: Undefined when a name has no body.
Undefined == << <<"undefined">> >>
Expand(text, defs) ==
  IF \E i \in DOMAIN text : text[i][1] = "ref" /\ text[i][2] \notin DOMAIN defs THEN Undefined
  ELSE FlattenSeq([i \in DOMAIN text |-> IF text[i][1] = "lit" THEN <<text[i]>> ELSE defs[text[i][2]]])

Read(l) == /\ state = "reading" /\ Len(src) < MaxLines
           /\ src' = Append(src, l)
Fail == state' = "failed" /\ UNCHANGED <<symbols, defines, stack, out, start>>
Top == stack[Len(stack)]
SetTop(f) == stack' = [stack EXCEPT ![Len(stack)] = f]

If ==
  \E l \in SrcLines :
    /\ l.word = "if" /\ Read(l)
    /\ LET cond == Active /\ Holds(symbols, l)
       IN stack' = Append(stack, [active |-> cond, taken |-> cond, parent_active |-> Active])
    /\ UNCHANGED <<symbols, defines, out, state, start>>

\* Mutant: a branch is taken whether or not an earlier one was.
Elif_Again ==
  \E l \in SrcLines :
    /\ l.word = "elif" /\ Read(l)
    /\ IF stack = <<>> THEN Fail
       ELSE /\ LET a == Top.parent_active /\ Holds(symbols, l)
               IN SetTop([Top EXCEPT !.active = a, !.taken = a])
            /\ UNCHANGED <<symbols, defines, out, state, start>>
Elif ==
  \E l \in SrcLines :
    /\ l.word = "elif" /\ Read(l)
    /\ IF stack = <<>> THEN Fail
       ELSE /\ LET a == ~Top.taken /\ Top.parent_active /\ Holds(symbols, l)
               IN SetTop([Top EXCEPT !.active = a, !.taken = @ \/ a])
            /\ UNCHANGED <<symbols, defines, out, state, start>>

Else ==
  \E l \in SrcLines :
    /\ l.word = "else" /\ Read(l)
    /\ IF stack = <<>> THEN Fail
       ELSE /\ SetTop([Top EXCEPT !.active = Top.parent_active /\ ~Top.taken, !.taken = TRUE])
            /\ UNCHANGED <<symbols, defines, out, state, start>>

Endif ==
  \E l \in SrcLines :
    /\ l.word = "endif" /\ Read(l)
    /\ IF stack = <<>> THEN Fail
       ELSE stack' = Front(stack) /\ UNCHANGED <<symbols, defines, out, state, start>>

SetSymbol ==
  \E l \in SrcLines :
    /\ l.word \in {"set", "unset"} /\ Read(l)
    /\ symbols' = IF ~Active THEN symbols
                  ELSE IF l.word = "set" THEN symbols \cup {l.name} ELSE symbols \ {l.name}
    /\ UNCHANGED <<defines, stack, out, state, start>>

\* Bodies are expanded where they stand.
Define ==
  \E l \in SrcLines :
    /\ l.word = "define" /\ Read(l)
    /\ LET body == Expand(l.text, defines)
       IN IF Active /\ body = Undefined THEN Fail
          ELSE /\ defines' = IF ~Active THEN defines
                             ELSE [n \in DOMAIN defines \cup {l.name} |->
                                     IF n = l.name THEN body ELSE defines[n]]
               /\ UNCHANGED <<symbols, stack, out, state, start>>

Text ==
  \E l \in SrcLines :
    /\ l.word = "text" /\ Read(l)
    /\ LET text == Expand(l.text, defines)
       IN IF Active /\ text = Undefined THEN Fail
          ELSE /\ out' = IF Active THEN Append(out, [num |-> Len(src) + 1, text |-> text]) ELSE out
               /\ UNCHANGED <<symbols, defines, stack, state, start>>

EndOfFile ==
  /\ state = "reading" /\ src # <<>>
  /\ state' = IF stack = <<>> THEN "done" ELSE "failed"
  /\ UNCHANGED <<src, symbols, defines, stack, out, start>>

PrepInit ==
  /\ src = <<>> /\ start \in StartSymbols /\ symbols = start
  /\ defines = <<>> /\ stack = <<>> /\ out = <<>> /\ state = "reading"
PrepNext == If \/ Elif \/ Else \/ Endif \/ SetSymbol \/ Define \/ Text \/ EndOfFile

-----------------------------------------------------------------------------
(* The same, said of the whole file: line k belongs to one branch of every *)
(* #if block around it.                                                    *)
Word(k) == src[k].word
Depth[k \in 0 .. MaxLines] ==
  IF k = 0 THEN 0
  ELSE IF k > Len(src) THEN 0
  ELSE Depth[k - 1] + (IF Word(k) = "if" THEN 1 ELSE 0) - (IF Word(k) = "endif" THEN 1 ELSE 0)
\* The blocks around line k, by the line of their #if.
Blocks(k) == {i \in 1 .. k - 1 : Word(i) = "if" /\ \A j \in i .. k - 1 : Depth[j] >= Depth[i]}
\* The heads of the block that begins at i, up to line k.
Heads(i, k) == {i} \cup {j \in i + 1 .. k - 1 :
                          /\ Word(j) \in {"elif", "else"} /\ Depth[j] = Depth[i]
                          /\ \A m \in i .. j : Depth[m] >= Depth[i]}
Latest(S) == CHOOSE j \in S : \A m \in S : m <= j
Meets(h, syms) == Word(h) = "else" \/ Holds(syms, src[h])

\* Seen[k]: whether line k survives, and the symbols before it.
Seen[k \in 1 .. MaxLines + 1] ==
  LET before == IF k = 1 THEN start
                ELSE LET p == Seen[k - 1]
                     IN CASE p.shown /\ Word(k - 1) = "set"   -> p.symbols \cup {src[k - 1].name}
                          [] p.shown /\ Word(k - 1) = "unset" -> p.symbols \ {src[k - 1].name}
                          [] OTHER -> p.symbols
  IN [symbols |-> before,
      shown |-> \A i \in Blocks(k) :
                  LET h == Latest(Heads(i, k))
                  IN /\ Meets(h, Seen[h].symbols)
                     /\ \A g \in Heads(i, k) \ {h} : ~Meets(g, Seen[g].symbols)]

\* Exactly the lines survive whose branch, in every block around them, is the
\* first whose condition held when it was reached, however blocks nest and
\* #set and #unset in them change later conditions (preprocess).
SurvivorsAsNested ==
  state # "failed" =>
    {out[i].num : i \in DOMAIN out} = {k \in DOMAIN src : Word(k) = "text" /\ Seen[k].shown}
=============================================================================

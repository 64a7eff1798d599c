------------------------------- MODULE MCParts -------------------------------
(***************************************************************************)
(* The parts that work on their own, one in each behaviour: what the       *)
(* session does with telemetry (EngineShutdown) and calibrations, what it  *)
(* makes of bytes and command templates, how an INI is read and served as  *)
(* forms, the locks the request handlers take, and pairing with the        *)
(* settings.  job says which part moves; the others rest where they start. *)
(***************************************************************************)
EXTENDS EngineShutdown, Calibration, Wire, Commands, IniLanguage, Preprocess, Forms,
        HandlerLocks, Pairing

VARIABLE job
partVars == <<job, vars, calVars, wireVars, pieces, exprVars, prepVars, formVars,
              lockVars, pairVars>>

Only(j) ==
  /\ job = j /\ UNCHANGED job
  /\ j # "shutdown" => UNCHANGED vars
  /\ j # "calibration" => UNCHANGED calVars
  /\ j # "wire" => UNCHANGED wireVars
  /\ j # "command" => UNCHANGED pieces
  /\ j # "expression" => UNCHANGED exprVars
  /\ j # "preprocess" => UNCHANGED prepVars
  /\ j # "form" => UNCHANGED formVars
  /\ j # "locks" => UNCHANGED lockVars
  /\ j # "pairing" => UNCHANGED pairVars

\* A part at rest has one initial state.
PartsInit ==
  /\ job \in {"shutdown", "calibration", "wire", "command", "expression", "preprocess", "form",
             "locks", "pairing"}
  /\ Init /\ CalInit /\ WireInit /\ CommandInit /\ ExprInit /\ PrepInit /\ FormInit
  /\ LockInit /\ PairInit
  /\ job # "shutdown" => ~enabled /\ rpm = 0 /\ readable
  /\ job # "calibration" => asked = CHOOSE l \in Lines : TRUE
  /\ job # "wire" => mode = "Primary"
  /\ job # "expression" => tree = CHOOSE l \in Leaves : TRUE
  /\ job # "preprocess" => start = {}
  /\ job # "form" => section = "Menu"

PartsNext ==
  \/ Only("shutdown") /\ Next
  \/ Only("calibration") /\ CalNext
  \/ Only("wire") /\ WireNext
  \/ Only("command") /\ CommandNext
  \/ Only("expression") /\ ExprNext
  \/ Only("preprocess") /\ PrepNext
  \/ Only("form") /\ FormNext
  \/ Only("locks") /\ LockNext
  \/ Only("pairing") /\ PairNext

PartsSpec == PartsInit /\ [][PartsNext]_partVars

\* Requests that run at the same time are interchangeable: those of the locks
\* and those of pairing are the same threads.
Interchangeable == Permutations(Handlers)

-----------------------------------------------------------------------------
(* Calibrations: a line that fits a byte and one that does not, and a       *)
(* preset sent with numbers that are not its own.                           *)
CalLine(vl, al, vh, ah, p) == [vl |-> vl, al |-> al, vh |-> vh, ah |-> ah, preset |-> p]
SomeLines == {CalLine(0, 10, 5, 20, "none"), CalLine(0, 7, 5, 26, "none"),
              CalLine(0, 1, 5, 2, "aem")}
SomePresets == [aem |-> CalLine(1, 9, 4, 18, "none")]
BlankTable == [i \in 1 .. AdcCount |-> 0]

(* The wire: a checksum that depends on every byte and on their order. *)
ShiftSum(p) == <<FoldLeft(LAMBDA a, b : (2 * a + b) % Base, 1, p)>>

(* Templates: characters that mean something after a % or a \ stand for     *)
(* themselves elsewhere; no count is given.                                 *)
SomeLetters == ("p" :> 112) @@ ("v" :> 118) @@ ("2" :> 50) @@ ("-" :> 45)
SomeHex == ("0" :> 0) @@ ("a" :> 10)
SomeArgs == [can_id |-> 7, page_id |-> <<7, 1>>, offset |-> <<0, 1>>, value |-> <<4, 5>>]
SomeNameChars == {"p", "v", "2", "i", "o", "c", "x", "0", "a", "t"}
CanIdChars == <<"t", "c">>

(* Expressions and conditions: one identifier and one string in scope, one  *)
(* identifier that is not.                                                  *)
SmallArith(op, x, y) ==
  CASE op = "-" -> x - y [] op = "*" -> x * y
    [] op = "<" -> (IF x < y THEN 1 ELSE 0) [] op = "==" -> (IF x = y THEN 1 ELSE 0)
    [] OTHER -> x
InScope == [rpm |-> <<"num", 0>>, unit |-> <<"str", "kPa">>]
SomeLists == [units |-> <<"kPa", "psi">>]
SomeArrays == [bins |-> <<3, 0>>]
SomeLeaves == {<<"num", 2>>, <<"str", "kPa">>, <<"ident", "rpm">>, <<"ident", "gone">>}
SomeConds == {<<"ident", "rpm">>, <<"ident", "gone">>}
PanelFields == <<"c1">>

(* The preprocessor's lines. *)
SrcLine(w, n, neg, t) == [word |-> w, name |-> n, neg |-> neg, text |-> t]
SomeText == << <<"lit", "x">> >>
SomeSource ==
  {SrcLine("if", "a", FALSE, <<>>), SrcLine("if", "b", TRUE, <<>>),
   SrcLine("elif", "b", FALSE, <<>>), SrcLine("else", "", FALSE, <<>>),
   SrcLine("endif", "", FALSE, <<>>), SrcLine("set", "b", FALSE, <<>>),
   SrcLine("unset", "a", FALSE, <<>>), SrcLine("define", "d", FALSE, SomeText),
   SrcLine("text", "", FALSE, << <<"ref", "d">> >>), SrcLine("text", "", FALSE, SomeText)}
SomeSymbols == {{}, {"a"}}
=============================================================================

------------------------------ MODULE Commands ------------------------------
(***************************************************************************)
(* Command templates of the INI: ecu-proto/src/command.rs.  A template is  *)
(* a sequence of characters; pieces is a template as its author means it,  *)
(* grown piece by piece.                                                   *)
(***************************************************************************)
EXTENDS Naturals, Sequences, SequencesExt

CONSTANTS
  Letters,    \* literal characters with the byte each stands for
  Hex,        \* hexadecimal digits with their values
  NameChars,  \* characters a variable's name may hold
  CanIdName,  \* tsCanId, as characters
  Given,      \* Args: byte sequences by part, and can_id
  MaxPieces

\* A letter is none of the two characters that begin an escape.
ASSUME CommandAssumption ==
  "\\" \notin DOMAIN Letters /\ "%" \notin DOMAIN Letters /\ CanIdName \in Seq(NameChars)

VARIABLE pieces

-----------------------------------------------------------------------------
(* Template::parse.                                                        *)
Bad == << <<"bad">> >>
Then(part, rest) == IF rest = Bad THEN Bad ELSE <<part>> \o rest

\* Mutant: a value marker takes the character behind it along.
AfterValue_Skips(i) == i + 3
AfterValue(i) == i + 2

NameEnd(t, i) == CHOOSE j \in i .. Len(t) + 1 :
  /\ \A k \in i .. j - 1 : t[k] \in NameChars
  /\ j = Len(t) + 1 \/ t[j] \notin NameChars
Spec2(t, i) == IF i + 2 <= Len(t) THEN <<t[i + 1], t[i + 2]>> ELSE SubSeq(t, i + 1, Len(t))
ByteOf(c) == IF c \in DOMAIN Letters THEN Letters[c] ELSE 0

parse_template(t) ==
  LET from[i \in 1 .. Len(t) + 4] ==
        CASE i > Len(t) -> <<>>
          [] i <= Len(t) /\ t[i] = "\\" ->
               IF i = Len(t) THEN Bad
               ELSE CASE t[i + 1] = "x" ->
                           IF i + 3 > Len(t) THEN Bad
                           ELSE IF {t[i + 2], t[i + 3]} \subseteq DOMAIN Hex
                           THEN Then(<<"literal", 16 * Hex[t[i + 2]] + Hex[t[i + 3]]>>, from[i + 4])
                           ELSE Bad
                      [] t[i + 1] = "$" ->
                           Then(<<"var", SubSeq(t, i + 2, NameEnd(t, i + 2) - 1)>>,
                                from[NameEnd(t, i + 2)])
                      [] OTHER -> Then(<<"literal", ByteOf(t[i + 1])>>, from[i + 2])
          [] i <= Len(t) /\ t[i] = "%" ->
               LET s == Spec2(t, i)
               IN CASE Len(s) >= 1 /\ s[1] = "v" -> Then(<<"value">>, from[AfterValue(i)])
                    [] s = <<"2", "i">> -> Then(<<"page_id">>, from[i + 3])
                    [] s = <<"2", "o">> -> Then(<<"offset">>, from[i + 3])
                    [] s = <<"2", "c">> -> Then(<<"count">>, from[i + 3])
                    [] OTHER -> Bad
          [] OTHER -> Then(<<"literal", ByteOf(t[i])>>, from[i + 1])
  IN from[1]

-----------------------------------------------------------------------------
(* Template::build: an unknown variable or an argument not given fails.    *)
Missing == << -1 >>
BytesOf(part) ==
  CASE part[1] = "literal" -> <<part[2]>>
    [] part[1] = "var" -> IF part[2] = CanIdName THEN <<Given.can_id>> ELSE Missing
    [] OTHER -> IF part[1] \in DOMAIN Given THEN Given[part[1]] ELSE Missing
build_template(parts) ==
  IF parts = Bad \/ \E i \in DOMAIN parts : BytesOf(parts[i]) = Missing THEN Missing
  ELSE FlattenSeq([i \in DOMAIN parts |-> BytesOf(parts[i])])

-----------------------------------------------------------------------------
\* Each piece: the characters it is written with and the bytes it stands for.
Piece(text, bytes) == [text |-> text, bytes |-> bytes]
Arg(part) == IF part \in DOMAIN Given THEN Given[part] ELSE Missing
PieceSet ==
  {Piece(<<c>>, <<Letters[c]>>) : c \in DOMAIN Letters}
    \cup {Piece(<<"\\", "x", d[1], d[2]>>, <<16 * Hex[d[1]] + Hex[d[2]]>>) :
             d \in (DOMAIN Hex) \X (DOMAIN Hex)}
    \cup {Piece(<<"\\", "$">> \o CanIdName, <<Given.can_id>>),
          Piece(<<"%", "2", "i">>, Arg("page_id")), Piece(<<"%", "2", "o">>, Arg("offset")),
          Piece(<<"%", "2", "c">>, Arg("count")), Piece(<<"%", "v">>, Arg("value"))}

\* A letter behind a variable would belong to its name.
Glued(p, q) == p.text[1] = "\\" /\ p.text[2] = "$" /\ q.text[1] \in NameChars

AddPiece ==
  /\ Len(pieces) < MaxPieces
  /\ \E p \in PieceSet :
       /\ pieces # <<>> => ~Glued(Last(pieces), p)
       /\ pieces' = Append(pieces, p)

CommandInit == pieces = <<>>
CommandNext == AddPiece

\* A command built from a template holds, in order, exactly the bytes its
\* pieces stand for, and is refused when an argument is missing
\* (Template::parse, Template::build).
CommandAsWritten ==
  LET bytes == [i \in DOMAIN pieces |-> pieces[i].bytes]
  IN build_template(parse_template(FlattenSeq([i \in DOMAIN pieces |-> pieces[i].text])))
       = IF Missing \in {bytes[i] : i \in DOMAIN bytes} THEN Missing ELSE FlattenSeq(bytes)
=============================================================================

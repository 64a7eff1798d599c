------------------------------- MODULE LogView -------------------------------
(***************************************************************************)
(* What the log viewer promises, whatever it caches: an answer shows the   *)
(* recording as it was at a moment between the request and the answer.     *)
(***************************************************************************)
EXTENDS LogFile

CONSTANT NoQuery, NoAnswer, Failed

VARIABLES
  msl,     \* the recording
  asked,   \* the query being answered, or NoQuery
  seen,    \* what the recording was since the query came
  answer   \* the last answer, or Failed

absVars == <<msl, asked, seen, answer>>

\* No row is left out of a short answer; a long one keeps the first and the
\* last row, a lowest and a highest value and a gap if there is one.
Faithful(q, f, g, samples) ==
  LET rows == {Sample(g, q, i) : i \in Visible(f, q)}
      numbers(S) == {s.v : s \in S} \cap Values
      ends(S) == {Min({s.row : s \in S}), Max({s.row : s \in S})}
  IN /\ samples \subseteq rows
     /\ Cardinality(rows) <= FullDetail => samples = rows
     /\ rows # {} => ends(rows) \subseteq {s.row : s \in samples}
     /\ numbers(rows) # {} =>
          {Min(numbers(rows)), Max(numbers(rows))} \subseteq numbers(samples)
     /\ (\E s \in rows : s.v = Gap) => \E s \in samples : s.v = Gap

\* f is the recording when it was indexed; g, the same or a later state of
\* it, is where the rows were read.
Shows(q, f, g, a) ==
  /\ f.exists /\ g.exists /\ Len(f.lines) <= Len(g.lines)
  /\ a.total = Cardinality(Counted(f))
  /\ a.visible = Cardinality(Visible(f, q))
  /\ a.sampled = (a.visible > FullDetail)
  /\ Faithful(q, f, g, a.samples)

AbsInit ==
  /\ msl = Absent /\ asked = NoQuery /\ seen = {} /\ answer = NoAnswer

Changes ==
  /\ msl' # msl
  /\ seen' = IF asked = NoQuery THEN {} ELSE seen \cup {msl'}
  /\ UNCHANGED <<asked, answer>>

Asks ==
  /\ asked = NoQuery /\ asked' \in Queries
  /\ seen' = {msl}
  /\ UNCHANGED <<msl, answer>>

Answers ==
  /\ asked # NoQuery /\ asked' = NoQuery /\ seen' = {}
  /\ \/ answer' \notin {NoAnswer, Failed} /\ \E f, g \in seen : Shows(asked, f, g, answer')
     \/ answer' = Failed /\ \E f \in seen : ~f.header
  /\ UNCHANGED msl

\* The server stops: the request gets no answer.
Dropped ==
  /\ asked # NoQuery /\ asked' = NoQuery /\ seen' = {}
  /\ UNCHANGED <<msl, answer>>

AbsSpec == AbsInit /\ [][Changes \/ Asks \/ Answers \/ Dropped]_absVars
=============================================================================

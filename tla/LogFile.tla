------------------------------- MODULE LogFile -------------------------------
(***************************************************************************)
(* An .msl recording as the log viewer reads it: the lines on disk, the    *)
(* last of which may be half written (the datalog writer flushes whole     *)
(* buffers, not lines), and what a query selects of them.                  *)
(* A line is a value of the plotted channel, Gap (no number in the cell),  *)
(* Bad (no number in the time cell) or Mark.  Line i has time i.           *)
(***************************************************************************)
EXTENDS Naturals, Sequences, FiniteSets, FiniteSetsExt

CONSTANTS
  Values,      \* numbers a cell may hold
  Gap, Bad, Mark,
  FullDetail,  \* FULL_DETAIL_ROWS: up to here every row is sent
  Queries      \* [whole, from, to : the time range; chan : plot the channel; points]

ASSUME LogFileAssumption ==
  /\ Values \subseteq Nat /\ FullDetail \in Nat /\ Mark \notin Values
  /\ Queries \subseteq [whole : BOOLEAN, from : Nat, to : Nat, chan : BOOLEAN, points : Nat]

Lines == Values \cup {Gap, Bad, Mark}
Absent == [exists |-> FALSE, header |-> FALSE, lines |-> <<>>, torn |-> FALSE]
Empty  == [Absent EXCEPT !.exists = TRUE]

\* A line cut short has lost its last cell, or the last digit of it.
CutShort(line) == IF line \in Values /\ line > Min(Values) THEN Min(Values) ELSE Gap
Text(f, i) == IF f.torn /\ i = Len(f.lines) THEN CutShort(f.lines[i]) ELSE f.lines[i]

\* Rows counted, rows with a time, and the rows a query covers.
Counted(f) == {i \in DOMAIN f.lines : Text(f, i) # Mark}
Timed(f)   == {i \in Counted(f) : Text(f, i) # Bad}
Covers(q, i) == q.whole \/ i \in q.from .. q.to
Visible(f, q) == {i \in Timed(f) : Covers(q, i)}

\* parse_columns: the samples of some rows, the text taken from file g.
Sample(g, q, i) == [row |-> i, v |-> IF q.chan THEN Text(g, i) ELSE Gap]
=============================================================================

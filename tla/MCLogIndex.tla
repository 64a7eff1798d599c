----------------------------- MODULE MCLogIndex -----------------------------
(* Instances of LogIndex: an overview, one of the times alone, and a zoom. *)
EXTENDS LogIndex
SomeQueries ==
  {[whole |-> TRUE, from |-> 0, to |-> 0, chan |-> TRUE, points |-> 10],
   [whole |-> TRUE, from |-> 0, to |-> 0, chan |-> FALSE, points |-> 4],
   [whole |-> FALSE, from |-> 2, to |-> 5, chan |-> TRUE, points |-> 5]}
SomeImports ==
  {<<1, 2, Mark, 1, Gap, 2>>, <<Bad, 2, 1, 2, 1, Mark>>}
=============================================================================

------------------------------ MODULE MCDatalog ------------------------------
(* Instances of Datalog.  The file of second 0 is one that cannot be removed. *)
EXTENDS Datalog, TLC
OldestLog == {<<"log", 0>>}
Symmetry == Permutations(Threads)
=============================================================================

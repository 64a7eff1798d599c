----------------------------- MODULE MCTuneSync -----------------------------
(* Instances of TuneSync.  Bytes hold 0 or 1; Values is not a symmetry set,  *)
(* because a fresh tune and the padding of a page are Zero.                  *)
EXTENDS TuneSync
=============================================================================

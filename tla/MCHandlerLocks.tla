--------------------------- MODULE MCHandlerLocks ---------------------------
(* Instances of HandlerLocks with two or three requests at a time; requests  *)
(* are interchangeable.                                                      *)
EXTENDS HandlerLocks, TLC
Interchangeable == Permutations(Handlers)
=============================================================================

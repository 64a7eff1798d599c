----------------------------- MODULE MCLifecycle -----------------------------
(* Instances of Lifecycle.  Tasks and threads are interchangeable, clients   *)
(* too: the symmetry set is used by the runs without liveness properties.    *)
EXTENDS Lifecycle, TLC
Interchangeable == Permutations(Tasks) \cup Permutations(Threads)
                   \cup Permutations(Clients)
=============================================================================

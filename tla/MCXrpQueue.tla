----------------------------- MODULE MCXrpQueue -----------------------------
(* Model checking of XrpQueue: symmetry of the application threads and of   *)
(* the requests, used by the runs that check safety only.                   *)
EXTENDS XrpQueue, TLC

Symmetry == Permutations(Threads) \cup Permutations(Requests)
=============================================================================

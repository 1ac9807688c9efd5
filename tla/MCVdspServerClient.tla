------------------------ MODULE MCVdspServerClient ------------------------
(* Model checking of VdspServerClient: symmetry of the threads and of the  *)
(* handles, used by the runs that check safety only.                       *)
EXTENDS VdspServerClient, TLC

Symmetry == Permutations(Threads) \cup Permutations(Handles)
===========================================================================

--------------------------- MODULE MCLocalRuntime ---------------------------
(* Model values and symmetry for the TLC runs of LocalRuntime. *)
EXTENDS LocalRuntime, TLC
CONSTANTS r1, r2
MCRequests == {r1, r2}
MCSymmetry == Permutations(MCRequests)
=============================================================================

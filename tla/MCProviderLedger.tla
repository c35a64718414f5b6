------------------------- MODULE MCProviderLedger -------------------------
(* Model values and symmetry for the TLC runs of ProviderLedger. *)
EXTENDS ProviderLedger, TLC

Symmetry == Permutations(Calls)
=============================================================================

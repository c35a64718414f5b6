------------------------- MODULE MCChatIdempotency -------------------------
(* Model values and symmetry for the TLC runs of ChatIdempotency. *)
EXTENDS ChatIdempotency, TLC

Symmetry == Permutations(Requests) \cup Permutations(Keys)
              \cup Permutations(Digests)
=============================================================================

--------------------------- MODULE MCIdempotency ---------------------------
(* Instance of Idempotency for TLC: one key, three attempts, two requests. *)
EXTENDS Idempotency, TLC

Symmetry == Permutations(Attempts) \cup Permutations(Hashes)
=============================================================================

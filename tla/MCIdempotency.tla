--------------------------- MODULE MCIdempotency ---------------------------
(* Small instances of Idempotency for TLC. *)
EXTENDS Idempotency, TLC

Symmetry == Permutations(Requests) \cup Permutations(Hashes)
=============================================================================

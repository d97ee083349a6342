------------------------------ MODULE MCOutbox ------------------------------
(* Small instances of Outbox for TLC. *)
EXTENDS Outbox, TLC

PollerSymmetry == Permutations(Pollers)
=============================================================================

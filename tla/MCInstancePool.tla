--------------------------- MODULE MCInstancePool ---------------------------
(* Small instances of InstancePool for TLC. *)
EXTENDS InstancePool
=============================================================================

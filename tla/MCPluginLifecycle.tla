------------------------- MODULE MCPluginLifecycle -------------------------
(* Small instances of PluginLifecycle.                                     *)
EXTENDS PluginLifecycle, TLC

CallerSymmetry == Permutations(Callers)
=============================================================================

---------------------------- MODULE MCRevisions ----------------------------
(* Small instances of Revisions for TLC. *)
EXTENDS Revisions, TLC

\* One manual revision and one autosave of an author are kept, every publish.
KeepOne == [k \in Kinds |-> IF k = "publish" THEN 0 ELSE 1]

\* Editors autosave and pin; a restore adds manual revisions that are not pinned.
Saved == {<<"autosave", FALSE>>, <<"manual", TRUE>>}

Symmetry == Permutations(Writers) \cup Permutations(Sweepers)
=============================================================================

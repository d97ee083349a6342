--------------------------- MODULE MCSessionStore ---------------------------
(* Small instances of SessionStore for TLC. *)
EXTENDS SessionStore, TLC

CONSTANT LastMint      \* bound: the clock until which all of Tokens are in use

Symmetry == Permutations(Tokens) \cup Permutations(Clients)

\* The last token serves two rotations of one session, which need no long time; the
\* lifetimes run out with the others.
Bound == Cardinality(Minted) < Cardinality(Tokens) \/ clock <= LastMint
=============================================================================

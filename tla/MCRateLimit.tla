---------------------------- MODULE MCRateLimit -----------------------------
(* Two peers compete for the one place in the table.                      *)
EXTENDS RateLimit, TLC

Symmetry == Permutations(Peers)
=============================================================================

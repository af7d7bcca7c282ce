------------------------------ MODULE MCTunnel ------------------------------
(* Paths and local peers are interchangeable: the only CHOOSE over them is *)
(* among holders of one credential.                                        *)
EXTENDS Tunnel, TLC

Symmetry == Permutations(Paths) \cup Permutations(LocalPeers)
=============================================================================

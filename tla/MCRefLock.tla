------------------------------ MODULE MCRefLock ------------------------------
(* RefLock for TLC.                                                        *)
EXTENDS RefLock, TLC

Symmetry == Permutations(Clients)
=============================================================================

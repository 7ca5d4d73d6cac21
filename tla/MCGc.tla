-------------------------------- MODULE MCGc --------------------------------
(* Gc for TLC: at first both refs have no chain, or share a pack.          *)
EXTENDS Gc, TLC

MCInit == Init /\ \A r, q \in Branches : chain[r] = chain[q]
MCSpec == MCInit /\ [][Next]_vars

Symmetry == Permutations(Branches) \cup Permutations(Packs) \cup Permutations(Sweepers)
=============================================================================

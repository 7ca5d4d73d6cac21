---------------------------- MODULE MCBundleEngine ----------------------------
(* BundleEngine for TLC: two commits in a row. *)
EXTENDS BundleEngine, TLC

CONSTANTS s1, s2

MCShas == {s1, s2}
MCAncestor == {<<s, s>> : s \in MCShas} \cup {<<s1, s2>>}
MCAllKinds == {"push", "force", "delete", "deleteBranch", "protect", "unprotect"}

Symmetry == Permutations(Clients)
=============================================================================

------------------------------ MODULE MCTransfer ------------------------------
(* Two processes; two keys of the engines and one LFS object; bodies of up  *)
(* to two parts.                                                             *)
EXTENDS LfsAgent

CONSTANTS t1, t2, k1, k2, a, b, c, d, x

MCSize == (a :> 2) @@ (b :> 2) @@ (c :> 1) @@ (d :> 0) @@ (x :> 2)

MCSymmetry == Permutations({t1, t2}) \cup Permutations({k1, k2}) \cup Permutations({a, b})

=============================================================================

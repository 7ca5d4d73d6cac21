------------------------------ MODULE MCMaintain ------------------------------
(* Maintain for TLC: a chain with p1 has several segments, one with p2 one. *)
EXTENDS Maintain, TLC

CONSTANTS p1, p2

MCPacks     == {p1, p2}
MCCompacted == [p \in MCPacks |-> p2]
MCLong      == {p1}

\* At first one ref can be compacted and the other cannot.
MCFirst == CHOOSE r \in Branches : TRUE
MCInit  == MaintainInit /\ chain = [r \in Branches |-> IF r = MCFirst THEN p1 ELSE p2]
MCSpec  == MCInit /\ [][MaintainNext]_allVars /\ MaintainFairness
===============================================================================

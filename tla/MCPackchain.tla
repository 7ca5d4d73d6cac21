----------------------------- MODULE MCPackchain -----------------------------
(* Packchain for TLC: a history of two commits, s1 <- s2, in two scenes.   *)
EXTENDS Packchain, TLC

CONSTANTS s1, s2

MCPair         == {s1, s2}
MCPairAncestor == {<<s1, s1>>, <<s2, s2>>, <<s1, s2>>}

MCRaceKinds  == {"push", "force", "delete", "deleteBranch", "compact", "protect", "unprotect"}
MCFetchKinds == {"push", "force", "compact"}

\* A clone or a fetch into a repository that has s1.
MCReader == {{}, {s1}}

VARIABLE scene

\* Clients race each other, with every operation and one fault; nobody fetches
\* or marks.
Race == scene = "race" /\ read'.at = "idle" /\ mark'.at = "idle"

\* One client at a time pushes, forces and compacts against gc mark, gc sweep,
\* clones and fetches; no fault.
Fetching ==
  /\ scene = "fetch" /\ faults' = 0
  /\ \A p, q \in Clients : pc'[p] # "idle" /\ pc'[q] # "idle" => p = q
  /\ \A p \in Clients : op'[p].kind \in MCFetchKinds \cup {"none"}

MCInit == Init /\ scene \in {"race", "fetch"}
MCNext == Next /\ (Race \/ Fetching) /\ UNCHANGED scene
MCSpec == MCInit /\ [][MCNext]_<<vars, scene>>

Symmetry == Permutations(Clients)
=============================================================================

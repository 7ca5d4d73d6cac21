------------------------------- MODULE MCDoctor -------------------------------
(* One client beside doctor, two commits of one history.          *)
EXTENDS Doctor

CONSTANTS s1, s2

MCShas == {s1, s2}
MCAncestor == {<<s, s>> : s \in MCShas} \cup {<<s1, s2>>}
MCKinds == {"push", "force", "deleteBranch"}
=============================================================================

---------------------------- MODULE RefRegister ----------------------------
(***************************************************************************)
(* What a remote promises for one ref: a register that holds the tip, and  *)
(* that changes only at one moment of an operation that asked for the      *)
(* change and may make it.  Which requests an operation takes, compaction, *)
(* garbage collection, fetches, failures and crashes are not visible.      *)
(***************************************************************************)
CONSTANTS Clients, Commits,
          Ancestor,  \* <<a, b>>: a is an ancestor of b, or b itself
          Kinds,     \* operations the clients run
          None       \* the ref does not exist

VARIABLES tip, protected,
          want       \* per client, the operation under way

register == <<tip, protected, want>>

\* No operation; local means nothing then.
NoWant == [kind |-> "none", local |-> CHOOSE c \in Commits : TRUE]

Init ==
  /\ tip = None /\ protected = FALSE
  /\ want = [p \in Clients |-> NoWant]

\* c is the same as the tip or descends from it.
Forward(c) == tip = None \/ <<tip, c>> \in Ancestor

Ask(p) ==
  /\ want[p] = NoWant
  /\ want'[p] \in [kind : Kinds, local : Commits]
  /\ want' = [want EXCEPT ![p] = want'[p]]
  /\ UNCHANGED <<tip, protected>>

\* The operation is over, whether it made its change or not.
Done(p) ==
  /\ want[p] # NoWant
  /\ want' = [want EXCEPT ![p] = NoWant]
  /\ UNCHANGED <<tip, protected>>

\* git push; with force it need not be a fast-forward, unless the ref is
\* protected.
Update(p) ==
  /\ \/ want[p].kind = "push" /\ Forward(want[p].local)
     \/ want[p].kind = "force" /\ (protected => Forward(want[p].local))
  /\ tip' = want[p].local
  /\ UNCHANGED <<protected, want>>

\* git push :ref and delete-branch.
Delete(p) ==
  /\ want[p].kind \in {"delete", "deleteBranch"}
  /\ ~protected
  /\ tip' = None
  /\ UNCHANGED <<protected, want>>

\* The protect and unprotect commands.
SetProtection(p) ==
  /\ want[p].kind \in {"protect", "unprotect"}
  /\ protected' = (want[p].kind = "protect")
  /\ UNCHANGED <<tip, want>>

Next == \E p \in Clients : Ask(p) \/ Update(p) \/ Delete(p) \/ SetProtection(p) \/ Done(p)

Spec == Init /\ [][Next]_register
=============================================================================

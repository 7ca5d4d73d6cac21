\* A commit is pushed again while its old bundle awaits the sweep.
SPECIFICATION Spec
CONSTANTS
  Clients = {c1}
  s1 = s1
  s2 = s2
  Shas <- MCShas
  Ancestor <- MCAncestor
  Kinds <- MCAllKinds
  Free = Free
  Orphan = Orphan
  Grace = 1
  MaxFetch = 0
  ForceSweep = FALSE
  MaxOps = 3
  MaxFaults = 0
INVARIANTS SweepKeepsLiveBundle
CHECK_DEADLOCK FALSE

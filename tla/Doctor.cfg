\* Doctor, a client that pushes and deletes, sweeps, one fault.
SPECIFICATION DoctorSpec
CONSTANTS
  Clients = {c1}
  s1 = s1
  s2 = s2
  Shas <- MCShas
  Ancestor <- MCAncestor
  Kinds <- MCKinds
  Free = Free
  Orphan = Orphan
  Grace = 1
  MaxFetch = 0
  ForceSweep = FALSE
  MaxOps = 2
  MaxFaults = 1
  Modes = {"move", "delete"}
INVARIANTS EvictedIsKept
PROPERTIES HeadNamesBranch
CHECK_DEADLOCK FALSE

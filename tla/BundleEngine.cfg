\* Every client operation, one fault of any kind, any interleaving.
SPECIFICATION Spec
CONSTANTS
  Clients = {c1, c2}
  s1 = s1
  s2 = s2
  Shas <- MCShas
  Ancestor <- MCAncestor
  Kinds <- MCAllKinds
  Free = Free
  Orphan = Orphan
  Grace = 2
  MaxFetch = 1
  ForceSweep = FALSE
  MaxOps = 3
  MaxFaults = 1
INVARIANTS TypeOK ValueKept NoOrphanMarker AdvertisedIsFetchable
PROPERTIES UpdateAllowed
SYMMETRY Symmetry
CHECK_DEADLOCK FALSE

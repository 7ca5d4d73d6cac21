\* A delete of a ref, and a push of it that has uploaded its baseline and waits
\* for the lock; no fault.
SPECIFICATION MCSpec
CONSTANTS
  Branches = {a}
  Packs = {p1, p2}
  Sweepers = {}
  None = None
  Grace = 1
  MaxPushes = 2
  MaxMarks = 1
  MaxFaults = 0
INVARIANTS DeleteSparesPushes
SYMMETRY Symmetry

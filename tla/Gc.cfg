\* Two refs that share packs, two sweeps at once, one crash or
\* failed request.
SPECIFICATION MCSpec
CONSTANTS
  Branches = {a, b}
  Packs = {p1, p2}
  Sweepers = {w1, w2}
  None = None
  Grace = 1
  MaxPushes = 2
  MaxMarks = 1
  MaxFaults = 1
INVARIANTS AllChainsResolvable NoBaselineLeak
SYMMETRY Symmetry

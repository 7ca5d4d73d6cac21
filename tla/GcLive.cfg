\* gc mark and gc sweep run again and again, around a run of compact, with
\* one crash or failed request.
SPECIFICATION MCSpec
CONSTANTS
  Branches = {a, b}
  p1 = p1
  p2 = p2
  Packs <- MCPacks
  Compacted <- MCCompacted
  Long <- MCLong
  Sweepers = {w1}
  None = None
  Grace = 1
  MaxPushes = 3
  MaxOthers = 1
  MaxMarks = 1
  MaxFaults = 1
INVARIANTS MaintenanceSound
PROPERTIES GarbageReclaimed

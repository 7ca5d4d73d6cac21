SPECIFICATION Spec
CONSTANTS
  Tasks = {t1, t2}
  Keys = {k1, k2, lfs}
  t1 = t1
  t2 = t2
  k1 = k1
  k2 = k2
  a = a
  b = b
  c = c
  d = d
  x = x
  Bodies = {a, b, c, d, x}
  Size <- MCSize
  Backends = {"s3", "azure"}
  PutThreshold = 2
  GetThreshold = 1
  None = None
  MaxOps = 3
  MaxFaults = 1
  Writers = {t1, t2}
  MaxCommands = 3
  LfsKey = lfs
  LfsBody = x
INVARIANTS WholeObjects TransferIsSnapshot CreatedOnce UploadsReclaimed LfsTold InstallKept
SYMMETRY MCSymmetry
CHECK_DEADLOCK FALSE

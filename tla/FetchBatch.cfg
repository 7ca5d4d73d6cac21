\* Two refs of two commits, both engines, with and without depth, a crash.
SPECIFICATION FairSpec
CONSTANTS
  c1 = c1
  c2 = c2
  f1 = f1
  f2 = f2
  Commits <- MCCommits
  Blobs <- MCBlobs
  Parents <- MCParents
  Files <- MCFiles
  Refs = {r1, r2}
  Engines <- MCBoth
  Depths = {0, 1, 2}
  None = None
  Permits = 1
  MaxRetries = 1
  MaxMoves = 3
  MaxBatches = 2
  MaxFaults = 1
INVARIANTS OdbClosed
PROPERTIES DepthExact BatchEnds
CHECK_DEADLOCK FALSE

\* Two threads that read files while a client pushes and compacts and the
\* operator sweeps without a grace window.
SPECIFICATION ReadSpec
CONSTANTS
  Clients = {c1}
  Readers = {r1, r2}
  s1 = s1
  s2 = s2
  b1 = b1
  b2 = b2
  Commits <- MCPair
  Ancestor <- MCPairAncestor
  Kinds <- MCWriteKinds
  Haves <- MCNoReader
  Paths <- MCPaths
  BlobAt <- MCBlobAt
  Trees <- MCTrees
  TreeOf <- MCTreeOf
  Base = 2
  DefaultCopy = 4
  MaxDepth = 1
  MaxRange = 8
  Trailer = 1
  Payloads <- MCPayloads
  Plans <- MCPlans
  IdxBytes <- MCIdxBytes
  Capacity = 2
  None = None
  Free = Free
  Orphan = Orphan
  Grace = 1
  MaxOp = 0
  MaxFetch = 0
  ForceSweep = TRUE
  MaxRetries = 1
  MaxMarks = 1
  MaxOps = 3
  MaxFaults = 0
INVARIANTS CacheConsistent EntryDecodes
PROPERTIES ReadIsTip
SYMMETRY Symmetry

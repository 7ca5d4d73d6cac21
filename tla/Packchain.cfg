\* Two clients with every operation against the sweep, with one crash or failed
\* request; and one against gc mark, gc sweep, clones and fetches that may
\* outlast the grace window.
SPECIFICATION MCSpec
CONSTANTS
  Clients = {c1, c2}
  s1 = s1
  s2 = s2
  Commits <- MCPair
  Ancestor <- MCPairAncestor
  Kinds <- MCRaceKinds
  Haves <- MCReader
  None = None
  Free = Free
  Orphan = Orphan
  Grace = 2
  MaxOp = 0
  MaxFetch = 2
  ForceSweep = FALSE
  MaxRetries = 1
  MaxMarks = 1
  MaxOps = 3
  MaxFaults = 1
INVARIANTS TypeOK IndexFollowsChain ChainResolvable FetchLosesNothing FetchComplete
PROPERTIES ImplementsRegister IndexNeverAhead
SYMMETRY Symmetry

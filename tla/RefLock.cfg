\* Two clients, two faults of any kind, a lost refresh, a second of clock skew.
SPECIFICATION FairSpec
CONSTANTS
  Clients = {c1, c2}
  TTL = 8
  Latency = 1
  MaxSkew = 1
  MaxLag = 2
  JoinTimeout = 1
  MaxMisses = 1
  MaxGhosts = 1
  MaxFaults = 2
INVARIANTS TypeOK LeaseInv MutexUntilFault NoOrphanUntilFault
PROPERTIES NoLiveLockJudgedStale DeadLockReclaimed

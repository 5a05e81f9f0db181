CONSTANTS
  Tasks = {"v", "w", "r"}
  Pipes = {"p", "q"}
  Capacity = 2
  NWorkers = 2
  Workloads <- SmallLoads
SPECIFICATION FairSpec
INVARIANTS DeadlockIsReal StreamIntact ShortWritesAtomic
PROPERTIES BlockedCallRetried

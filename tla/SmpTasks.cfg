CONSTANTS
  PidMax = 19
  MaxTasks = 4
  NWorkers = 2
  Workloads <- SmallLoads
SPECIFICATION FairSpec
INVARIANTS FrontIsNextResult TasksExact CheckOutFindsAll
PROPERTIES WaitReturns

\* Writes larger than the pipe, under the worker pool.
CONSTANTS
  Tasks = {"v", "w", "r"}
  Pipes = {"p", "q"}
  Capacity = 2
  NWorkers = 2
  Workloads <- LongWrites
SPECIFICATION Spec
INVARIANT DeadlockIsReal

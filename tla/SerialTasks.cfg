CONSTANTS
  PidMax = 15
  MaxTasks = 3
  Workloads <- SmallLoads
SPECIFICATION Spec
INVARIANTS Accounted ResourcesExact ParkedHasNoZombie

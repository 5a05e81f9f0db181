CONSTANTS
  Tids = {1, 2}
  Parent <- OneJob
  Sigs = {9, 10, 18, 19, 20, 34}
  QueueMax = 2
  Smp = FALSE
  Workloads <- SmallLoads
SPECIFICATION MCSpec
INVARIANTS SignalsKept MaskRestored ParkedHasNothingToDo QueuedOnceInOrder JobControlSound

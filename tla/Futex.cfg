CONSTANTS
  Tids = {1, 2, 3}
  SharedSpace = {1, 2, 3}
  Keys = {"a", "b"}
  PiKeys = {"m"}
  Private = TRUE
  Smp = FALSE
  MaxVal = 1
  Workloads <- SmallLoads
SPECIFICATION Spec
INVARIANTS NoWakeLost PiLocksSound
PROPERTIES ChangedWordEndsWait

SPECIFICATION CtrSpec
CONSTANTS
    IdMax = 7
    OverflowId = 6
    MaxDepth = 3
    MaxGone = 1
    SymlinkMax = 2
    MaxMountNs = 4
    MaxTasks = 4
    MaxUts = 2
    MaxPid = 6
    Cases <- CtrCases
INVARIANTS   NamespacesExact
CHECK_DEADLOCK FALSE

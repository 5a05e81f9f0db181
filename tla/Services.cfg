SPECIFICATION SvcSpec
CONSTANTS
    QuotaLimit = 4
    MsgMax = 2
    MsgMnb = 3
    IpcMni = 2
    SemVmx = 7
    SemMsl = 3
    SemMns = 3
    FramePool = 3
    LastPage = 4
    RlimitMsgqueue = 100
    MqPrioMax = 2
    MqMaxmsg = 2
    MqMsgsize = 2
    Ephemeral <- Ports
    Backlog = 1
    DgramRoom = 1
    SndbufMin = 1
    SndbufMax = 2
    SndbufDefault = 1
    MaxGroups = 1
    NlQueue = 4
    HostRoom = 2
    PipeCapacity = 2
    PipeBufCap = 2
    AtomicWrite = 1
    MaxQueued = 8
    CountMax = 3
    MaxPoll = 2
    Cases <- SvcCases
INVARIANTS IpcWaitersMustWait ServicesExact DeadlockIsReal
CHECK_DEADLOCK FALSE

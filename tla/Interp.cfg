CONSTANTS
    B = 2
    Page = 8
    MaxInsn = 2
    Ways = 2
    VBytes = 16
    VRegs = 4
    Granule = 16
    Half = 12
    Ext <- MCExt
    FMT16 <- MCFmt16
    FMT32 <- MCFmt32
    FMT64 <- MCFmt64
    Radix = 2
    Est = 3
    Text <- CpuText
    Cases <- CpuCases
SPECIFICATION Spec
INVARIANTS Restartable Computes MemoryCoherent

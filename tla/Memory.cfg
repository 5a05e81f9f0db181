CONSTANTS
    Frames = {1,2,3,4,5,6,7,8,9,10,11,12,13,14,15,16}
    Pages = {1,2,3}
    Span = 2
    Spaces = {1,2}
    Tasks = {1,2}
    FilePages = {1,2}
    Reserve = 4
    MemlockLimit = 2
    Cases <- MemCases
SPECIFICATION Spec
INVARIANTS MemoryAccounted SeesOwnMemory TranslationsCurrent
CHECK_DEADLOCK FALSE

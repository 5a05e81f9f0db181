\* A heap of one page that two threads move, an arena of four and a stack of
\* one.
CONSTANTS
    Threads = {t1, t2}
    HeapStart = 0
    Floor = 1
    Top = 5
    StackLimit = 5
    High = 6
    PageUnits = 2
    MaxLen = 2
    MaxAttaches = 1
    MaxSize = 4
SPECIFICATION MCSpec
INVARIANTS AvailableUnmapped ListWellFormed
PROPERTIES PlacedOnFreshPages BreakMapsFreshPages ImplementsArena

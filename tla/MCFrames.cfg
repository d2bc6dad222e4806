CONSTANTS
    FRAME_SIZE = 16
    BITS = 8
    Word = 4096
    PAGE_ENTRIES = 8
    DIRS = 2
    MemoryMaps <- PCMaps
    KernelStart = 64
    KernelEnd = 110
    HeapFirst = 8
    HeapLimit = 15
SPECIFICATION Spec
INVARIANTS
    FInv
    FramesExclusive
    KernelSpared
    PanicMeansFull
    FramesUsable
PROPERTY PagesKept

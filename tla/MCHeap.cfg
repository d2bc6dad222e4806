CONSTANTS
    Word = 1024
    KERNEL_HEAP_START = 80
    KERNEL_HEAP_END = 280
    HEAP_MAGIC = 777
    Requests <- MCRequests
SPECIFICATION SafeSpec
INVARIANTS
    ListInOrder
    IInv
    LiveDisjoint
    
    LiveFreeable

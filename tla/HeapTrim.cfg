CONSTANTS
    Word = 1024
    KERNEL_HEAP_START = 80
    KERNEL_HEAP_END = 280
    HEAP_MAGIC = 777
    Requests <- MCRequests
SPECIFICATION Spec
INVARIANT NoBlockBeyondEnd
CHECK_DEADLOCK FALSE

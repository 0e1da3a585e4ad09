CONSTANTS
    PoolLo = 1
    PoolHi = 6
SPECIFICATION FairSpec
INVARIANTS
    FreeListOrdered
    FramesAccounted
PROPERTIES
    ImplementsAllocator
    CallsEnd
\* A request that cannot be met stops the kernel in while (1).
CHECK_DEADLOCK FALSE

SPECIFICATION SlabSpec
CONSTANTS
    PageSize = 32
    PoolObjs = 1
    NPages = 7
    Requests <- MCRequests
    Lengths = {8}
    MaxHeld = 3
INVARIANTS
    ExtentsApart
    OneOwner
    CountsExact
\* pages_alloc stops the kernel in while (1) when the pages run out.
CHECK_DEADLOCK FALSE

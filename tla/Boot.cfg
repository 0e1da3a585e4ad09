CONSTANTS
    Radix = 2
    CounterBound = 6
    GTC_TPS = 2
    GTC_TPUS = 1
    PowerUpTime = 1
    SECTOR = 4
    PAGE = 8
    Memory <- MCMemory
    Blocks = 9
    FirstImage <- MCFirstImage
    cardtype = 1
    BusyBound = 1
    FaultBound = 2
    MBR = 0
    MBR_BUFFER = 46
    BUFFER = 32
    MbrValid = TRUE
    ELF_ADDR = 1
    PHOFF = 2
    PHENTSIZE = 2
    Segment <- MCSegment
    KernelCalls <- MCKernelCalls
    CallBound = 2
VIEW view
SPECIFICATION FairSpec
INVARIANTS
    BootSafe
PROPERTIES
    IsBlockDevice
    NoSpuriousFailure
    SleptLongEnough
    CallsReturn
    Boots
CHECK_DEADLOCK FALSE

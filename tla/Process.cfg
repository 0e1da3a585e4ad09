CONSTANTS
    MaxPcb = 5
    PcMax = 5
    Syscalls = {"debug", "fork", "exec", "wait", "getpid", "getppid", "exit"}
    ForkBound = 4
    SpinBound = 3
SPECIFICATION FairSpec
INVARIANTS
    IInv
    CpuBelongsToRunning
    PreemptedContextIntact
PROPERTIES
    FifoOrder
    ReadyRuns
\* The kernel stops in the data-abort handler, and _wait's loop is bounded.
CHECK_DEADLOCK FALSE

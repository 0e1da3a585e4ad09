CONSTANTS
    MaxPcb = 3
    PcMax = 5
    Syscalls = {"exit"}
    ForkBound = 2
    SpinBound = 2
SPECIFICATION Spec
INVARIANTS
    SurvivesExit
\* The kernel stops in the data-abort handler, and _wait's loop is bounded.
CHECK_DEADLOCK FALSE

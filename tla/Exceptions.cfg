CONSTANTS
    Program = {"p", "q"}
    First = "p"
    Line = {29, 82}
    TIMER = 29
    FiqBound = 1
    AbortsOccur = TRUE
VIEW view
SPECIFICATION FairSpec
INVARIANTS
    ContextsIntact
PROPERTIES
    TimerAcknowledged
    ReturnsToProgram
\* A fault stops the kernel.
CHECK_DEADLOCK FALSE

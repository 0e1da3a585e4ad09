CONSTANTS
    Images <- MCImages
    Modulus = 32
    Counts = {0, 31}
    Period = 14
    Lag = 2
    Mega = 4
    SelectTime = 2
    NR_FREQ_SAMPLES = 2
    Disks <- MCDisks
    Exceeds = 4
    PortCount = 2
    Device = {"none", "disk"}
SPECIFICATION FairSpec
INVARIANTS
    StartUpCorrect
    PortsApart
PROPERTIES
    PortsQuiet
    WaitsEnd
CHECK_DEADLOCK FALSE

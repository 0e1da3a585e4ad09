CONSTANTS
    Half <- MCHalf
    Power <- MCPower
    Pairs <- MCPairs
    wsize = 4
    Memory <- MCMemory
    Copies <- MCCopies
    Formats <- MCFormats
    Sizes <- MCSizes
    Depth = 2
    BUFSIZ = 4
    Printed <- MCPrinted
    Greeting <- MCGreeting
    Keys <- MCKeys
    TypedMax = 3
    Tables <- MCTables
    Addresses <- MCAddresses
    Files <- MCFiles
SPECIFICATION FairSpec
INVARIANTS
    DivisionCorrect
    CopyCorrect
    PrintCorrect
    ConsoleInOrder
    StabsCorrect
PROPERTIES
    CallsReturn
CHECK_DEADLOCK FALSE

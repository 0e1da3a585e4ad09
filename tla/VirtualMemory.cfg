SPECIFICATION Spec
CONSTANTS
    Proc = {0, 1, 2}
    UserL1 = 3
    KernelL1 = 2
    L2 = 2
    Page = 8
    Block = 4
    Images <- MCImages
    StackPages = 1
    Tables = {1, 2, 3, 4, 5, 6}
    Frames = {1, 2, 3, 4, 5, 6, 7, 8}
    LowWords <- MCLowWords
INVARIANTS
    AddressSpacesApart
    ExecMapsImage
\* pages_alloc stops the kernel in while (1) in the middle of a fork or an exec.
CHECK_DEADLOCK FALSE

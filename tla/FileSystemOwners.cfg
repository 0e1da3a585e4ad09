CONSTANTS
    Blocks = 2
    Pids = {2, 3}
    Names = {"", "a", "ten letters or more"}
    Data = {"x"}
    Calls = {"create", "open", "close", "read", "write", "delete", "checkpoint"}
    MaxFiles = 2
    MaxSize = 2
VIEW view
SPECIFICATION Spec
INVARIANT
    FdsDistinct
PROPERTY
    OpenFilesProtected

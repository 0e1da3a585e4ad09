CONSTANTS
    Blocks = 3
    Pids = {2, 3}
    Names = {"", "ten letters or more"}
    Data = {"x", "y"}
    Calls = {"create", "open", "close", "read", "write", "checkpoint"}
    MaxFiles = 2
    MaxSize = 2
VIEW view
SPECIFICATION Spec
INVARIANTS
    FilesApart
PROPERTIES
    ImplementsStore

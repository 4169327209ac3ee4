SPECIFICATION Spec
CONSTANTS
    Ports <- MCPorts
    Payloads = {5}
    UserBases = {0, 3}
    UserLengths = {1, 5}
    Commands = {"download"}
    UploadLengths = {1}
    Locked = {}
    MayNack = FALSE
    MayFail = FALSE
    MaxEdits = 0
    MaxCommands = 2
    MaxPending = 3
INVARIANTS
    DownloadsKeptApart
CHECK_DEADLOCK FALSE

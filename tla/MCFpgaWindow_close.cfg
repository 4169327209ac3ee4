SPECIFICATION Spec
CONSTANTS
    Ports <- MCPorts
    Payloads = {5}
    UserBases = {0, 3}
    UserLengths = {1, 5}
    Commands = {"download"}
    UploadLengths = {1}
    Locked = {}
    MayNack = FALSE
    MayFail = TRUE
    MaxEdits = 0
    MaxCommands = 1
    MaxPending = 3
INVARIANTS
    ClosedWindowIsDone
CHECK_DEADLOCK FALSE

SPECIFICATION Spec
CONSTANTS
    Ports <- MCPorts
    Payloads = {5}
    UserBases = {0, 3}
    UserLengths = {1, 5}
    Commands = {}
    UploadLengths = {1}
    Locked = {}
    MayNack = TRUE
    MayFail = FALSE
    MaxEdits = 2
    MaxCommands = 1
    MaxPending = 3
INVARIANTS
    FailureIsShown
CHECK_DEADLOCK FALSE

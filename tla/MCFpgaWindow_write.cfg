SPECIFICATION Spec
CONSTANTS
    Ports <- MCPorts
    Payloads = {5}
    UserBases = {0, 3}
    UserLengths = {1, 5}
    Commands = {"write"}
    UploadLengths = {1}
    Locked = {}
    MayNack = FALSE
    MayFail = FALSE
    MaxEdits = 2
    MaxCommands = 1
    MaxPending = 3
INVARIANTS
    WritesWhereLabelled
CHECK_DEADLOCK FALSE

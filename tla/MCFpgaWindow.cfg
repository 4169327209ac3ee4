SPECIFICATION FairSpec
CONSTANTS
    Ports <- MCPorts
    Payloads = {2, 5}
    UserBases = {0, 3}
    UserLengths = {0, 1, 5}
    Commands = {"write", "upload", "download"}
    UploadLengths = {0, 3}
    Locked = {"b.txt"}
    MayNack = TRUE
    MayFail = TRUE
    MaxEdits = 2
    MaxCommands = 1
    MaxPending = 3
INVARIANTS
    TypeOK
    PollingContinues
    IndexInRange
    SinglePoll
PROPERTIES
    EveryRowRefreshed
CHECK_DEADLOCK FALSE

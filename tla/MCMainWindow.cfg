SPECIFICATION FairSpec
CONSTANTS
    Connections = {1, 2}
    MaxRetries = 2
    Fpgas = {"a", "b"}
    Sources = {"a", "b"}
    Events = {1, 2}
    Masks <- MCMasks
    MaxInputs = 4
INVARIANTS
    TypeOK
    OneWindowPerFpga
    AnnouncementsAccounted
PROPERTIES
    ImplementsConnector
    NoGhostWindow
CHECK_DEADLOCK FALSE

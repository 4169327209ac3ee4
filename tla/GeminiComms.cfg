SPECIFICATION FairSpec
CONSTANTS
    SeqSpace = 3
    PipelineLen = 2
    MaxRetries = 2
    MaxPayloadWords = 2
    RequestSizes = {0, 2, 5}
    MaxTrans = 5
    MaxOpens = 2
INVARIANTS
    TypeOK
    WindowAccounting
    RetryWindow
    NumberedBySubmission
    TimerGuardsPending
    NoResultLost
    ChannelIsolation
    LoopsAgree
PROPERTIES
    GiveUpOnlyAfterRetries
    ImplementsService
    EveryRequestEnds
CHECK_DEADLOCK FALSE

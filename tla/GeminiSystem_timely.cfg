SPECIFICATION FairSysSpec
CONSTANTS
    SeqSpace = 6
    PipelineLen = 3
    MaxRetries = 2
    MaxPayloadWords = 1
    RequestSizes = {1, 4}
    MaxTrans = 7
    MaxOpens = 1
    Late = FALSE
    RepeatedCnx = 0
    MaxLosses = 4
INVARIANTS
    ExecutedInOrder
    NoUndefined
    PipelineRespected
    GiveUpMeansLoss
PROPERTIES
    RetryOnLaterAck
    BufferEmptyAfterRetry
    EveryRequestAnswered
CHECK_DEADLOCK FALSE

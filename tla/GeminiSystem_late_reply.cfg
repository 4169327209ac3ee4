SPECIFICATION SysSpec
CONSTANTS
    SeqSpace = 8
    PipelineLen = 2
    MaxRetries = 2
    MaxPayloadWords = 1
    RequestSizes = {1, 3}
    MaxTrans = 3
    MaxOpens = 1
    Late = TRUE
    RepeatedCnx = 0
    MaxLosses = 0
INVARIANTS
    NoUndefined
CHECK_DEADLOCK FALSE

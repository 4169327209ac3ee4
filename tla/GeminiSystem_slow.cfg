SPECIFICATION SysSpec
CONSTANTS
    SeqSpace = 4
    PipelineLen = 2
    MaxRetries = 2
    MaxPayloadWords = 1
    RequestSizes = {1, 3}
    MaxTrans = 5
    MaxOpens = 1
    Late = TRUE
    RepeatedCnx = 1
    MaxLosses = 3
INVARIANTS
    ExecutedInOrder
    ReportedIsExecuted
PROPERTIES
    AnswerMatches
CHECK_DEADLOCK FALSE

SPECIFICATION FairSpec
CONSTANTS
    NsPerUs = 3
    Width = 64
    PayloadLen = 4
    ZeroLen = 5
    DefaultChans = 2
    Headers <- MCHeaders
    MaxPkts = 3
    UsPerSec = 4
    Repeats = {0, 1}
    FixedPkts = {0, 2}
    Starts = {2}
    Ticks = {1}
    MaxNow = 9
INVARIANTS
    TypeOK
    ScheduleExact
    LessThanARoundEarly
    PayloadInside
PROPERTIES
    AllSent
CHECK_DEADLOCK FALSE

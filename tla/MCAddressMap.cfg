SPECIFICATION Spec
CONSTANTS
    PortNames = {"p", "q"}
    Fields <- MCFields
    MaxFields = 4
INVARIANTS
    TypeOK
    PortIsHull
    ReadListPartitions
    NamesAgree
CHECK_DEADLOCK FALSE

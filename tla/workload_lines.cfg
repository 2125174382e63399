SPECIFICATION FairSpec
CONSTANTS
    MaxKey = 10
    HotData = 4
    WorkloadShift = 3
    Length = 1
    Prefill = 3
INVARIANTS
    TypeOK
    HotAndCold
PROPERTIES
    LinesLegal
    AbsentNearer
    ProbesEnd
CHECK_DEADLOCK FALSE

SPECIFICATION Spec
CONSTANTS
    ZoneSize = 2
    Capacity = 5
    States <- MCStates
    Filters = {"all", "imp_open", "non_seq"}
    Batch = 2
    Changes = 2
    Calls = 1
    Offsets = {0, 1, 2, 3, 4, 5, 6}
    Lengths = {0, 1, 2, 3, 5}
    Sizes <- MCSizes
INVARIANTS
    TypeOK
    ReportSound
    ListAllComplete
    OperationCovers
CHECK_DEADLOCK FALSE

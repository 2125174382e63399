SPECIFICATION Spec
CONSTANTS
    Sector = 2
    ZoneSize = 4
    Capacity = 12
    CnvZones = {0}
    MaxOpen = 1
    MaxActive = 2
    Commands = {"report", "dump", "reset", "open", "close", "finish"}
    Offsets = {0, 2, 4, 12}
    Lengths = {0, 4, 6}
    Units = {2, 6}
    Filters = {"all", "imp_open"}
    Writes = 1
INVARIANTS
    DumpReportSame
PROPERTY
    RangeManaged
CHECK_DEADLOCK FALSE

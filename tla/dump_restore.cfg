SPECIFICATION Spec
CONSTANTS
    NZ = 2
    Devices <- MixedDevices
    HostOps = 4
    DuringDump = {"append", "open", "close", "finish"}
    ShortIO = FALSE
    MaxDumps = 1
    Attempts = 2
INVARIANTS
    TypeOK
    RestoredIsDumped
    OutsideUntouched
    InfoDescribesData
    NoLimitHit
CHECK_DEADLOCK FALSE

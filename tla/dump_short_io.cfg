SPECIFICATION Spec
CONSTANTS
    NZ = 2
    Devices <- MixedDevices
    HostOps = 2
    DuringDump = {}
    ShortIO = TRUE
    MaxDumps = 1
    Attempts = 1
INVARIANT
    RestoreRestores
CHECK_DEADLOCK FALSE

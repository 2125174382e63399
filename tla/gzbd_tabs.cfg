SPECIFICATION Spec
CONSTANTS
    MaxDev = 5
    Outcomes = {"open", "no_device", "no_zones"}
    MaxFailed = 3
INVARIANTS
    FdsOwned
    TabsAreDevices
    ExitCloses
CHECK_DEADLOCK FALSE

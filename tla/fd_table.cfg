SPECIFICATION FdSpec
CONSTANTS
    Threads = {t1, t2}
    Openers = {t1}
    CloseWaits = TRUE
    Devices = {1, 2, 3, 4}
    Attr <- MCAttr
    Unreadable = Unreadable
    FdMax = 3
    MaxOpens = 4
INVARIANTS
    HeldWorks
    UseSafe
    NothingLost

SPECIFICATION Spec
CONSTANTS
    Keys = {k1, k2}
    NoKey = NoKey
    ValueSizes = {1, 2}
    NZ = 3
    BPZ = 2
    PageSize = 5
    Header = 1
    GL = 1
    SE = 40
    SG = 40
    HeapWords = {0, 2}
    StrayZones = {99}
    StrayKeys = {k1, k2, NoKey}
    Overrun = {"stop", "fault"}
    Spread = TRUE
    Length = 5
SYMMETRY KeySymmetry
INVARIANTS
    MapMatchesDevice
    IndexNamesRecord
    KeyFound
    NoStaleCopy
    GcNeverGrows
    Served
PROPERTIES
    ImplementsMap

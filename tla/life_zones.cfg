SPECIFICATION LifeSpec
CONSTANTS
    Keys = {k1, k2, k3}
    NoKey = NoKey
    ValueSizes = {1, 4}
    NZ = 3
    BPZ = 2
    PageSize = 6
    Header = 1
    GL = 2
    SE = 40
    SG = 40
    HeapWords = {0, 2}
    StrayZones = {99}
    StrayKeys = {k1, k2, k3, NoKey}
    Overrun = {"stop", "fault"}
    Spread = TRUE
    Length = 6
    SZ = 60
    SL = 1
    Recent = 4
SYMMETRY KeySymmetry
INVARIANTS
    LifeTypeOK
    BlockNotOlder
    LifeIffValid
    RecencyOrder
PROPERTIES
    ImplementsPlacement

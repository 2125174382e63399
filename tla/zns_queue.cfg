SPECIFICATION Spec
CONSTANTS
    Keys = {k1, k2}
    NoKey = NoKey
    ValueSizes = {1}
    NZ = 3
    BPZ = 3
    PageSize = 5
    Header = 1
    GL = 2
    SE = 40
    SG = 40
    HeapWords = {0, 2}
    StrayZones = {99}
    StrayKeys = {k1, k2, NoKey}
    Overrun = {"stop", "fault"}
    Spread = FALSE
    Length = 6
INVARIANTS
    TypeOK
    QueueBounded
PROPERTIES
    RequestServed

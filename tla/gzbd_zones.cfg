SPECIFICATION FairSpec
CONSTANTS
    MaxNrZones = 3
    CnvZones = {0}
    Filters = {"all", "open"}
    Ops = {"reset", "open"}
    Draws = TRUE
INVARIANTS
    ListIsFiltered
PROPERTIES
    OnlySelected
    CommandEnds

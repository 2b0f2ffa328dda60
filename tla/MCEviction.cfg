CONSTANTS
    Nodes = {n1, n2}
    Lists = {0, 1, 2, 3}
    NULL = NULL
    kint32max = 4
    kHighUse = 2
    MaxCrashes = 1
    MaxDeaths = 1
SPECIFICATION EvictionSpec
SYMMETRY Symmetry
INVARIANT ClearedNodeIsInNoList

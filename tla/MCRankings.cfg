CONSTANTS
    Nodes = {n1, n2, n3}
    Lists = {0, 1}
    NULL = NULL
    kint32max = 4
    MaxCrashes = 1
    MaxDeaths = 2
SPECIFICATION Spec
SYMMETRY Symmetry
INVARIANTS TypeOK ListsClosed NoCriticalError CopiesCurrent LogChecks
PROPERTIES ImplementsLru

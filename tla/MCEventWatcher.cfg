CONSTANTS
    w1 = w1
    w2 = w2
    f1 = f1
    f2 = f2
    f3 = f3
    a1 = a1
    a2 = a2
    NULL = NULL
    Watchers = {w1, w2}
    Flags = {f1, f2, f3}
    Addrs = {a1, a2}
    Events = {1, 2}
    Manual <- Second
SPECIFICATION Spec
SYMMETRY Symmetry
INVARIANTS TypeOK WatchNotForgotten NoCallbackAfterStop WaitersCurrent
    NothingPostsToDeadLoop

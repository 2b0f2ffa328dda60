CONSTANTS
    t1 = t1
    t2 = t2
    t3 = t3
    Threads = {t1, t2, t3}
    Events = {1, 2}
    Manual <- Second
    WaitLists <- BothOrders
SPECIFICATION Spec
INVARIANTS TypeOK NoDanglingWaiter NoMissedSignal
PROPERTY ImplementsEventSpec
SYMMETRY Symmetry

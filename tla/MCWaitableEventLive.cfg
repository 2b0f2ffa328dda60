CONSTANTS
    t1 = t1
    t2 = t2
    Threads = {t1, t2}
    Events = {1, 2}
    Manual <- Second
    WaitLists <- BothOrders
SPECIFICATION FairSpec
PROPERTY GetsOn
CHECK_DEADLOCK FALSE

CONSTANTS
    Groups = {1, 2}
    Handles = {h1, h2, h3}
    Conns = {c1, c2, c3}
    Priorities = {0, 1}
    max_sockets_ = 2
    max_sockets_per_group_ = 2
    backup_jobs_enabled_ = TRUE
    ConnectResults = {"OK", "ERR_IO_PENDING", "ERR"}
    MaxGeneration = 1
    MaxTasks = 1
SPECIFICATION Spec
SYMMETRY Symmetry
CHECK_DEADLOCK FALSE
INVARIANTS TypeOK SocketLimit CountersExact NoOrphan ExclusiveOwnership QueuesExact NoReuseAcrossFlush BackupTimerValid

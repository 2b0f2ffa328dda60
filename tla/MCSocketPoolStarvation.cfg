CONSTANTS
    Groups = {1, 2}
    Handles = {h1, h2}
    Conns = {c1, c2}
    Priorities = {0}
    max_sockets_ = 1
    max_sockets_per_group_ = 1
    backup_jobs_enabled_ = FALSE
    ConnectResults = {"OK", "ERR_IO_PENDING"}
    MaxGeneration = 0
    MaxTasks = 2
SPECIFICATION FairSpec
CHECK_DEADLOCK FALSE
PROPERTY PendingAnswered

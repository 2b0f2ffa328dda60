CONSTANTS
    Requests = {1, 2, 3}
    Tasks = {1, 2, 3}
    Info <- ThreeRequests
    NUM_PRIORITIES = 2
    None = None
    max_jobs_ = 2
    Constraints <- OneJob
    max_entries_ = 1
SPECIFICATION Spec
CHECK_DEADLOCK FALSE
INVARIANT NoConcurrentResolves

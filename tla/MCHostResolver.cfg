CONSTANTS
    Requests = {1, 2, 3}
    Tasks = {1, 2, 3}
    Info <- ThreeRequests
    NUM_PRIORITIES = 2
    None = None
    max_jobs_ = 2
    Constraints <- OneJob
    max_entries_ = 1
SPECIFICATION FairSpec
CHECK_DEADLOCK FALSE
INVARIANTS TypeOK PoolTypeOK EveryTaskHasAThread JobsExact NoRequestForgotten NoIdleSlot CallbackOnce
PROPERTY AnsweredEventually

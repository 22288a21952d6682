CONSTANTS
    Calls = {t1, t2}
    TimedCalls = {t1}
    Workers = {w1, w2}
    NumQueues = 2
    Keys = {"a", "b"}
    KeyShuffle <- MCKeyShuffle
    Priorities = {0, 1, 3}
    PriorityScale = 2
    MaxValues = {0, 1}
    NoTask = NoTask
SPECIFICATION FairSpec
INVARIANTS TypeOK ExactlyOnce DrainBeforeExit 
PROPERTIES AcceptedTasksRun
CHECK_DEADLOCK FALSE

CONSTANTS
    Threads = {t1, t2}
    Users = {u1, u2}
    Ids = {s1, s2}
    MaxSessions = 1
    None = None
SPECIFICATION FairSpec
INVARIANTS TypeOK LiveRegistered UserLimit OneDestroyer
PROPERTIES ExpiredCollected StopEndsCollector
CHECK_DEADLOCK FALSE

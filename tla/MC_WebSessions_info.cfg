CONSTANTS
    Threads = {t1, t2}
    Users = {u1}
    Ids = {s1, s2}
    MaxSessions = 1
    None = None
SPECIFICATION Spec
INVARIANTS InfoIsActive
CHECK_DEADLOCK FALSE

CONSTANTS
    Threads = {t1, t2, t3}
    Keys = {k1, k2}
    Items = {i1, i2, i3}
    NoItem = NoItem
    NoEntry = NoEntry
SPECIFICATION FairSpec
INVARIANTS TypeOK CountExact PointerValid
PROPERTIES DestroyReturns Lifetime
CHECK_DEADLOCK FALSE

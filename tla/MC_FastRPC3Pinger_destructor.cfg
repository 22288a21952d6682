CONSTANTS
    Keys = {k1, k2}
SPECIFICATION FairSpec
PROPERTIES DestructorReturns
CHECK_DEADLOCK FALSE

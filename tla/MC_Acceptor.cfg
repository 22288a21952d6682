CONSTANTS
    Clients = {1, 2, 3}
    IPs = {"a", "b"}
    Address <- MCAddress
    Limits = {1, 2}
    IPLimits = {1, 2}
    MaxSettings = 2
    Nobody = Nobody
    AcceptThread = AcceptThread
    NoClient = NoClient
SPECIFICATION FairSpec
INVARIANTS TypeOK CountsMatch UsersOutlived FinalizedLast NoLostWakeup
PROPERTIES Lifetime AdmittedWithinLimits EveryClientDecided DestructionEnds
CHECK_DEADLOCK FALSE

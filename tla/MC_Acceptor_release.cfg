CONSTANTS
    Clients = {1, 2}
    IPs = {"a", "b"}
    Address <- MCAddress
    Limits = {1, 2}
    IPLimits = {1, 2}
    MaxSettings = 2
    Nobody = Nobody
    AcceptThread = AcceptThread
    NoClient = NoClient
SPECIFICATION Spec
INVARIANT WaitsForFinalization
CHECK_DEADLOCK FALSE

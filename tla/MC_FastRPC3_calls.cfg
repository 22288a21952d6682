CONSTANTS
    Handlers = {h1, h2}
    Calls = {c1, c2}
    CloseCalls = {c2}
    Tasks = {j1}
    RetryCalls = {c1}
    MaxTries = 2
    None = None
SPECIFICATION FairSpec
PROPERTIES CallsReturn
CHECK_DEADLOCK FALSE

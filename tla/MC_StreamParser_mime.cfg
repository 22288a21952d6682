SPECIFICATION Spec
CONSTANTS
    Symbols <- MCSymbols
    Messages <- MCParts
    MaxTTL = 15
    MaxLine = 4
    MaxOptions = 3
    MaxPost = 3
    MaxChunk = 2
    MaxVar = 3
    MaxParts = 3
    EndpSize = 5
INVARIANT PartsWhole
CHECK_DEADLOCK FALSE

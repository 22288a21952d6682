SPECIFICATION Spec
CONSTANTS
    Symbols <- MCSymbols
    Messages <- MCMessages
    MaxTTL = 15
    MaxLine = 4
    MaxOptions = 3
    MaxPost = 3
    MaxChunk = 2
    MaxVar = 3
    MaxParts = 3
    EndpSize = 5
INVARIANT TypeOK
INVARIANT Conservation
INVARIANT RequestUnderstood
INVARIANT ResponseUnderstood
INVARIANT ItemsUnderstood
INVARIANT PartsUnderstood
INVARIANT NoFalseFailure
PROPERTY NoIdleCall
CHECK_DEADLOCK FALSE
